-------------------------- MODULE EngineStoreProofs --------------------------
(***************************************************************************)
(* The reception store: rings, counters and observations are exactly what  *)
(* was received.  SetCount and advance stage receptions while the rings    *)
(* stay behind, and commit publishes the counters before the rings catch   *)
(* up, so the invariant relates the rings to what is still pending.        *)
(* Further: however calls split time, the store is the same; its limits;   *)
(* and that all that is stored of one transmission agrees.                 *)
(***************************************************************************)
EXTENDS EngineProofs, EngineSplit, Projection

USE DEF store, committed, staged

-----------------------------------------------------------------------------
(***************************************************************************)
(* The inductive invariant                                                 *)
(***************************************************************************)
\* The staged receptions that are not in the store yet.
Pending == IF pc = "idle" THEN {} ELSE (loop.applied + 1)..Len(batch.records)

\* The sequence of the newest reception that a station retains.
Top(id) == IF history[id] = <<>> THEN 0 ELSE history[id][Len(history[id])].sequence

\* The sequence that a station will have reached when the call is done.
StagedLast(i) ==
  IF Working THEN batch.stats[i].lastReception
             ELSE stats[state.stations[i].id].lastReception

\* The instant of the report in progress, or of the next one.
Now == IF loop.kind = "count" THEN state.elapsed ELSE loop.tick * TickInterval

\* A ring holds an unbroken run of receptions, none later than the committed state.
RingShape(id) ==
  LET h == history[id]
  IN /\ Len(h) = Minimum(Top(id), ReceptionHistoryLimit)
     /\ \A n \in DOMAIN h :
          /\ h[n].sequence = Top(id) - Len(h) + n
          /\ h[n].transmission <= state.sequence /\ h[n].timestamp <= state.elapsed
     /\ \A n, o \in DOMAIN h :
          n < o => h[n].transmission < h[o].transmission /\ h[n].timestamp <= h[o].timestamp

RingsExact == \A id \in StationIDs : RingShape(id)

\* The counters agree with the rings, except while commit has run ahead of them.
StatsExact ==
  /\ \A id \in StationIDs :
       /\ stats[id].outcome["received"] = stats[id].lastReception
       /\ pc # "apply" => stats[id].lastReception = Top(id)
  /\ Working => \A i \in DOMAIN state.stations :
                  batch.stats[i].outcome["received"] = batch.stats[i].lastReception

\* The reports of a call lie between the instant it began at and the one it ends at.
LoopTimes ==
  Working =>
    /\ loop.applied = 0
    /\ loop.kind = "count" => loop.target = state.elapsed
    /\ loop.kind = "advance" => loop.last * TickInterval <= loop.target
    /\ pc = "receive" => /\ Last(reports).timestamp = Now
                         /\ loop.kind = "advance" => loop.tick <= loop.last

\* What is staged is in the order of its emission, and after what is stored.
PendingOrdered ==
  /\ \A j, k \in Pending :
       LET a == batch.records[j]
           b == batch.records[k]
       IN j < k => /\ a.timestamp <= b.timestamp
                   /\ a.station = b.station => a.sequence < b.sequence
                                               /\ a.transmission < b.transmission
  /\ \A k \in Pending :
       LET b == batch.records[k]
       IN \A n \in DOMAIN history[b.station] :
            /\ history[b.station][n].transmission < b.transmission
            /\ history[b.station][n].timestamp <= b.timestamp

\* What is staged continues each ring up to the counters that are or will be committed.
PendingComplete ==
  pc # "idle" =>
    \A i \in DOMAIN state.stations :
      LET id == state.stations[i].id
      IN /\ Top(id) <= StagedLast(i)
         /\ \A k \in Pending :
              batch.records[k].station = id =>
                Top(id) < batch.records[k].sequence /\ batch.records[k].sequence <= StagedLast(i)
         /\ \A q \in (Top(id) + 1)..StagedLast(i) :
              \E k \in Pending : batch.records[k].station = id /\ batch.records[k].sequence = q

\* What is staged was emitted: a station that is still to be asked about the report
\* in progress has not received it.
PendingBounded ==
  \A k \in Pending :
    LET b == batch.records[k]
    IN /\ Working => /\ b.transmission <= next.sequence
                     /\ b.timestamp <= Now /\ b.timestamp <= loop.target
       /\ ~Working => b.transmission <= state.sequence /\ b.timestamp <= state.elapsed
       /\ pc = "receive" =>
            \A i \in DOMAIN state.stations :
              i >= loop.station /\ b.station = state.stations[i].id =>
                b.transmission < next.sequence

RingInv ==
  /\ RingsExact /\ StatsExact /\ LoopTimes
  /\ PendingOrdered /\ PendingComplete /\ PendingBounded

\* The observations of one target, none of them after an instant.
TargetSound(m, t, at) ==
  /\ t.observations # {}
  /\ \A r \in t.observations :
       /\ r.mmsi = m /\ r.timestamp <= t.receivedAt /\ r.timestamp <= at
  /\ \E r \in t.observations : r.timestamp = t.receivedAt
  /\ \A r, q \in t.observations : r.station = q.station => r = q

TargetsFit(ts, at) ==
  /\ IsFiniteSet(DOMAIN ts) /\ Cardinality(DOMAIN ts) <= TargetLimit
  /\ \A m \in DOMAIN ts : TargetSound(m, ts[m], at)

\* The observation store between its steps, and what may still be recorded in it.
ObservationsInv ==
  /\ TargetsFit(targets, state.elapsed)
  /\ \A r \in AllObservations(targets) :
       /\ r.station \in StationIDs
       /\ pc # "apply" => state.elapsed - r.timestamp < ExpiryAge
       /\ \A k \in Pending : r.timestamp <= batch.records[k].timestamp

\* A retained reception and the observation of its station and MMSI.
Newer(h, n) == \E o \in (n + 1)..Len(h) : h[o].mmsi = h[n].mmsi

CompleteInv ==
  \A id \in StationIDs : \A n \in DOMAIN history[id] :
    LET r == history[id][n]
        observed == r \in AllObservations(targets)
    IN /\ observed => ~Newer(history[id], n)
       /\ ~Newer(history[id], n) /\ state.elapsed - r.timestamp < ExpiryAge
          /\ totals.evictions = 0 => observed

StoreInv == RingInv /\ ObservationsInv /\ CompleteInv

-----------------------------------------------------------------------------
(***************************************************************************)
(* Rings: steps that store nothing                                         *)
(***************************************************************************)
\* Two equal rings have the same newest reception.
LEMMA TopSame ==
  ASSUME NEW id, history'[id] = history[id]
  PROVE  Top(id)' = Top(id)
BY DEF Top

\* Nothing is received before the first report.
LEMMA RingInit == Init => RingInv
<1> SUFFICES ASSUME Init PROVE RingInv
  OBVIOUS
<1>1. /\ DOMAIN state.stations = DOMAIN InitialStations
      /\ \A i \in DOMAIN InitialStations : state.stations[i].id = i
      /\ state.elapsed = 0
  BY DEF Init, NewStation
<1>2. StationIDs = DOMAIN InitialStations
  BY <1>1 DEF StationIDs
<1>3. /\ \A id \in StationIDs : history[id] = <<>> /\ stats[id] = NewStats /\ Top(id) = 0
      /\ NewStats.lastReception = 0 /\ NewStats.outcome["received"] = 0
  BY <1>2 DEF Init, NewStats, Outcomes, Top
<1>4. /\ pc = "spawn" /\ Working /\ loop.applied = 0 /\ loop.kind = "count" /\ loop.target = 0
      /\ batch.records = <<>>
      /\ \A i \in DOMAIN state.stations : batch.stats[i] = NewStats
  BY <1>1, <1>2, <1>3 DEF Init, NoLoop, StageReceptions, Working
<1>5. Pending = {}
  BY <1>4 DEF Pending
<1>6. RingsExact
  <2>1. ReceptionHistoryLimit \in Nat
    BY LimitsAssumption
  <2> QED BY <1>3, <2>1 DEF RingsExact, RingShape, Minimum
<1>7. StatsExact
  BY <1>3, <1>4 DEF StatsExact
<1>8. LoopTimes
  BY <1>1, <1>4 DEF LoopTimes
<1>9. PendingOrdered /\ PendingBounded
  BY <1>5 DEF PendingOrdered, PendingBounded
<1>10. PendingComplete
  <2> SUFFICES ASSUME NEW i \in DOMAIN state.stations
               PROVE  Top(state.stations[i].id) = 0 /\ StagedLast(i) = 0
    BY <1>5 DEF PendingComplete
  <2> QED BY <1>1, <1>2, <1>3, <1>4 DEF StagedLast
<1> QED BY <1>6, <1>7, <1>8, <1>9, <1>10 DEF RingInv

\* A step that stores nothing and ends outside any call, with nothing pending.
LEMMA RingIdle ==
  ASSUME RingInv, pc # "apply", pc' = "idle", UNCHANGED <<history, stats>>,
         StationIDs' = StationIDs,
         state'.sequence = state.sequence, state'.elapsed = state.elapsed
  PROVE  RingInv'
<1>1. \A id : Top(id)' = Top(id)
  BY TopSame
<1>2. RingsExact'
  BY <1>1 DEF RingInv, RingsExact, RingShape
<1>3. StatsExact'
  BY <1>1 DEF RingInv, StatsExact, Working
<1>4. Pending' = {}
  BY DEF Pending
<1> QED BY <1>2, <1>3, <1>4 DEF RingInv, LoopTimes, Working, PendingOrdered, PendingComplete,
                                 PendingBounded

\* A call begins with the committed counters and nothing pending.
LEMMA RingBegin ==
  ASSUME TypeInv, RingInv, pc = "idle", pc' \in {"spawn", "tick"},
         UNCHANGED <<state, history, stats>>,
         batch' = StageReceptions(state.stations), LoopTimes'
  PROVE  RingInv'
<1>1. \A id : Top(id)' = Top(id)
  BY TopSame
<1>2. /\ StationIDs' = StationIDs /\ Working' /\ loop'.applied = 0
      /\ batch'.records = <<>>
      /\ \A i \in DOMAIN state.stations : batch'.stats[i] = stats[state.stations[i].id]
  BY DEF StationIDs, StageReceptions, LoopTimes, Working
<1>3. Pending' = {}
  BY <1>2 DEF Pending
<1>4. RingsExact'
  BY <1>1, <1>2 DEF RingInv, RingsExact, RingShape
<1>5. \A i \in DOMAIN state.stations :
        LET st == stats[state.stations[i].id]
        IN st.outcome["received"] = st.lastReception /\ st.lastReception = Top(state.stations[i].id)
  BY StationFacts DEF RingInv, StatsExact
<1>6. StatsExact'
  BY <1>1, <1>2, <1>5 DEF RingInv, StatsExact
<1>7. PendingComplete'
  <2> SUFFICES ASSUME NEW i \in DOMAIN state.stations
               PROVE  /\ Top(state.stations[i].id)' <= StagedLast(i)'
                      /\ (Top(state.stations[i].id)' + 1)..StagedLast(i)' = {}
    BY <1>3 DEF PendingComplete
  <2>1. StagedLast(i)' = Top(state.stations[i].id)
    BY <1>2, <1>5 DEF StagedLast
  <2>2. Top(state.stations[i].id) \in Nat
    <3>1. stats[state.stations[i].id] \in Stats
      BY StationFacts DEF TypeInv, TypeOK, StatsTypeOK
    <3>2. stats[state.stations[i].id].lastReception \in Nat
      BY <3>1 DEF Stats
    <3> QED BY <1>5, <3>2
  <2> QED BY <1>1, <2>1, <2>2
<1>8. PendingOrdered' /\ PendingBounded'
  BY <1>3 DEF PendingOrdered, PendingBounded
<1> QED BY <1>4, <1>6, <1>7, <1>8 DEF RingInv

\* A step within the loops of a call that stages no reception.
LEMMA RingWorking ==
  ASSUME RingInv, Working, Working', UNCHANGED <<state, history, stats>>,
         batch'.records = batch.records,
         \A i \in DOMAIN state.stations :
           /\ batch'.stats[i].lastReception = batch.stats[i].lastReception
           /\ batch'.stats[i].outcome["received"] = batch.stats[i].outcome["received"],
         LoopTimes', PendingBounded'
  PROVE  RingInv'
<1>1. \A id : Top(id)' = Top(id)
  BY TopSame
<1>2. loop.applied = 0 /\ loop'.applied = 0 /\ StationIDs' = StationIDs
  BY DEF RingInv, LoopTimes, StationIDs
<1>3. Pending' = Pending
  BY <1>2 DEF Pending, Working
<1>4. RingsExact'
  BY <1>1, <1>2 DEF RingInv, RingsExact, RingShape
<1>5. StatsExact'
  BY <1>1, <1>2 DEF RingInv, StatsExact, Working
<1>6. PendingOrdered'
  BY <1>3 DEF RingInv, PendingOrdered
<1>7. \A i \in DOMAIN state.stations : StagedLast(i)' = StagedLast(i)
  BY DEF StagedLast
<1>8. PendingComplete'
  BY <1>1, <1>3, <1>7 DEF RingInv, PendingComplete, Working
<1> QED BY <1>4, <1>5, <1>6, <1>8 DEF RingInv

-----------------------------------------------------------------------------
(***************************************************************************)
(* Rings: receiving, publishing and storing                                *)
(***************************************************************************)
\* The fields of a reception.
LEMMA ReceptionFields ==
  ASSUME NEW r \in ReceptionRecord
  PROVE  /\ r.station \in Nat /\ r.sequence \in Nat /\ r.transmission \in Nat
         /\ r.mmsi \in Nat /\ r.timestamp \in Nat
BY DEF ReceptionRecord

\* What is pending are receptions.
LEMMA PendingFacts ==
  ASSUME TypeInv
  PROVE  /\ batch.records \in Seq(ReceptionRecord) /\ Len(batch.records) \in Nat
         /\ DOMAIN batch.records = 1..Len(batch.records) /\ loop.applied \in Nat
         /\ \A k \in Pending : k \in DOMAIN batch.records /\ k \in Nat
         /\ \A k \in DOMAIN batch.records : batch.records[k] \in ReceptionRecord
<1>1. batch.records \in Seq(ReceptionRecord) /\ loop.applied \in Nat
  BY DEF TypeInv, TypeOK, BatchTypeOK, ControlTypeOK, LoopRecord
<1>2. Len(batch.records) \in Nat /\ DOMAIN batch.records = 1..Len(batch.records)
  BY <1>1, LenProperties
<1>3. \A k \in Pending : k \in DOMAIN batch.records /\ k \in Nat
  BY <1>1, <1>2 DEF Pending
<1> QED BY <1>1, <1>2, <1>3, ElementOfSeq

\* Rings hold receptions, and counters are naturals.
LEMMA RingFacts ==
  ASSUME TypeInv
  PROVE  /\ \A id \in StationIDs :
              /\ history[id] \in Seq(ReceptionRecord) /\ Len(history[id]) \in Nat
              /\ DOMAIN history[id] = 1..Len(history[id])
              /\ \A n \in DOMAIN history[id] : history[id][n] \in ReceptionRecord
              /\ Top(id) \in Nat /\ stats[id].lastReception \in Nat
         /\ \A i \in DOMAIN state.stations : StagedLast(i) \in Nat
         /\ Working => \A i \in DOMAIN state.stations : batch.stats[i] \in Stats
<1>1. ASSUME NEW id \in StationIDs
      PROVE  /\ history[id] \in Seq(ReceptionRecord) /\ Len(history[id]) \in Nat
             /\ DOMAIN history[id] = 1..Len(history[id])
             /\ \A n \in DOMAIN history[id] : history[id][n] \in ReceptionRecord
             /\ Top(id) \in Nat /\ stats[id].lastReception \in Nat
  <2> DEFINE h == history[id]
  <2>1. h \in Seq(ReceptionRecord) /\ stats[id] \in Stats
    BY DEF TypeInv, TypeOK, StatsTypeOK
  <2> HIDE DEF h
  <2>2. Len(h) \in Nat /\ DOMAIN h = 1..Len(h)
    BY <2>1, LenProperties
  <2>3. \A n \in DOMAIN h : h[n] \in ReceptionRecord
    BY <2>1, <2>2, ElementOfSeq
  <2>4. h # <<>> => h[Len(h)].sequence \in Nat
    <3> SUFFICES ASSUME h # <<>> PROVE h[Len(h)].sequence \in Nat
      OBVIOUS
    <3>1. Len(h) \in DOMAIN h
      BY <2>1, <2>2
    <3> QED BY <2>3, <3>1, ReceptionFields
  <2>5. Top(id) \in Nat
    BY <2>4 DEF Top, h
  <2>6. stats[id].lastReception \in Nat
    BY <2>1 DEF Stats
  <2> QED BY <2>1, <2>2, <2>3, <2>5, <2>6 DEF h
<1>2. ASSUME Working, NEW i \in DOMAIN state.stations PROVE batch.stats[i] \in Stats
  <2>1. batch.stats \in Seq(Stats) /\ Len(batch.stats) = Len(state.stations)
    BY <1>2 DEF TypeInv, TypeOK, BatchTypeOK, StagedShape
  <2> QED BY <2>1, StationFacts, ElementOfSeq
<1>3. ASSUME NEW i \in DOMAIN state.stations PROVE StagedLast(i) \in Nat
  <2>1. CASE Working
    <3>1. batch.stats[i].lastReception \in Nat
      BY <1>2, <2>1 DEF Stats
    <3> QED BY <2>1, <3>1 DEF StagedLast
  <2>2. CASE ~Working
    BY <1>1, <2>2, StationFacts DEF StagedLast
  <2> QED BY <2>1, <2>2
<1> QED BY <1>1, <1>2, <1>3

\* count adds one to the outcome, and to the sequence if it is a reception.
LEMMA CountReceived ==
  ASSUME NEW st \in Stats, NEW outcome \in Outcomes, NEW channel, NEW second
  PROVE  LET new == Count(st, outcome, channel, second)
         IN /\ new.lastReception = st.lastReception + Bump(outcome = "received")
            /\ new.outcome["received"] = st.outcome["received"] + Bump(outcome = "received")
<1> DEFINE new == Count(st, outcome, channel, second)
<1>1. st.outcome \in [Outcomes -> Nat] /\ "received" \in Outcomes
  BY DEF Stats, Outcomes
<1>2. /\ new.lastReception = st.lastReception + Bump(outcome = "received")
      /\ new.outcome = [st.outcome EXCEPT ![outcome] = @ + 1]
  BY DEF Count, Stats
<1> HIDE DEF new
<1>3. CASE outcome = "received"
  BY <1>1, <1>2, <1>3 DEF Bump, new
<1>4. CASE outcome # "received"
  <2>1. new.outcome["received"] = st.outcome["received"] /\ Bump(outcome = "received") = 0
    BY <1>1, <1>2, <1>4 DEF Bump
  <2>2. st.outcome["received"] \in Nat
    BY <1>1
  <2> QED BY <1>2, <2>1, <2>2 DEF new
<1> QED BY <1>3, <1>4

\* commit publishes counters, sequence and instant; the rings catch up later.
LEMMA RingCommit ==
  ASSUME TypeInv, HistoryInv, ClockInv, RingInv, Commit
  PROVE  RingInv'
<1>1. /\ Working /\ ~Working' /\ pc' = "apply" /\ pc # "idle"
      /\ UNCHANGED <<history, batch, loop>>
      /\ stats' = [id \in StationIDs |-> batch.stats[StationIndex(id)]]
  BY DEF Commit, Working
<1>2. /\ next \in StateRecord /\ loop \in LoopRecord /\ next.stations = state.stations
  BY <1>1 DEF TypeInv, TypeOK, StateTypeOK, ControlTypeOK, StagedShape, SameStations
<1>3. /\ state'.stations = state.stations /\ state'.elapsed = loop.target
      /\ state'.sequence = next.sequence
  BY <1>2 DEF Commit, StateRecord
<1>4. /\ loop.target \in Nat /\ state.elapsed \in Nat /\ loop.target >= state.elapsed
      /\ state.sequence \in Nat /\ next.sequence \in Nat /\ next.sequence >= state.sequence
  <2>1. loop.target \in Nat /\ loop.target >= state.elapsed
    BY <1>1, <1>2 DEF ClockInv, StagedClock, LoopRecord
  <2>2. next.sequence = state.sequence + Len(reports) /\ Len(reports) \in Nat
    BY <1>1, LenProperties DEF HistoryInv, StagedReports, TypeInv, TypeOK, StateTypeOK
  <2> QED BY <2>1, <2>2, StateFields
<1>5. StationIDs' = StationIDs
  BY <1>3 DEF StationIDs
<1>6. \A id : Top(id)' = Top(id)
  BY <1>1, TopSame
<1>7. Pending' = Pending
  BY <1>1 DEF Pending
<1>8. ASSUME NEW i \in DOMAIN state.stations
      PROVE  stats'[state.stations[i].id] = batch.stats[i]
  <2> DEFINE id == state.stations[i].id
  <2>1. id \in StationIDs
    BY StationFacts
  <2>2. StationIndex(id) \in DOMAIN state.stations /\ state.stations[StationIndex(id)].id = id
    BY <2>1, StationIndexType
  <2>3. StationIndex(id) = i
    BY <2>2, StationFacts
  <2> HIDE DEF id
  <2> QED BY <1>1, <2>1, <2>3 DEF id
<1>9. RingsExact'
  <2> SUFFICES ASSUME NEW id \in StationIDs
               PROVE  RingShape(id)'
    BY <1>5 DEF RingsExact
  <2> DEFINE h == history[id]
  <2>1. /\ Len(h) = Minimum(Top(id), ReceptionHistoryLimit)
        /\ \A n \in DOMAIN h :
             /\ h[n].sequence = Top(id) - Len(h) + n
             /\ h[n].transmission <= state.sequence /\ h[n].timestamp <= state.elapsed
             /\ h[n] \in ReceptionRecord
        /\ \A n, o \in DOMAIN h :
             n < o => h[n].transmission < h[o].transmission /\ h[n].timestamp <= h[o].timestamp
    BY RingFacts DEF RingInv, RingsExact, RingShape
  <2> HIDE DEF h
  <2>2. ASSUME NEW n \in DOMAIN h
        PROVE  h[n].transmission <= next.sequence /\ h[n].timestamp <= loop.target
    <3>1. h[n].transmission \in Nat /\ h[n].timestamp \in Nat
      BY <2>1, ReceptionFields
    <3> QED BY <1>4, <2>1, <3>1
  <2> QED BY <1>1, <1>3, <1>6, <2>1, <2>2 DEF RingShape, h
<1>10. StatsExact'
  <2> SUFFICES ASSUME NEW id \in StationIDs
               PROVE  stats'[id].outcome["received"] = stats'[id].lastReception
    BY <1>1, <1>5 DEF StatsExact
  <2>1. PICK i \in DOMAIN state.stations : state.stations[i].id = id
    BY DEF StationIDs
  <2> QED BY <1>1, <1>8, <2>1 DEF RingInv, StatsExact
<1>11. PendingOrdered'
  BY <1>1, <1>7 DEF RingInv, PendingOrdered
<1>12. PendingComplete'
  <2>1. \A i \in DOMAIN state.stations : StagedLast(i)' = StagedLast(i)
    BY <1>1, <1>3, <1>8 DEF StagedLast
  <2> QED BY <1>1, <1>3, <1>6, <1>7, <2>1 DEF RingInv, PendingComplete
<1>13. PendingBounded'
  BY <1>1, <1>3, <1>7 DEF RingInv, PendingBounded
<1>14. LoopTimes'
  BY <1>1 DEF LoopTimes
<1> QED BY <1>9, <1>10, <1>11, <1>12, <1>13, <1>14 DEF RingInv

\* When nothing is pending, the rings have caught up with the counters.
LEMMA RingFinish ==
  ASSUME TypeInv, RingInv, Finish
  PROVE  RingInv'
<1>1. /\ pc = "apply" /\ pc' = "idle" /\ UNCHANGED <<state, history, stats>>
      /\ loop.applied = Len(batch.records)
  BY DEF Finish, Drop
<1>2. Pending = {} /\ Pending' = {}
  BY <1>1, PendingFacts DEF Pending
<1>3. StationIDs' = StationIDs /\ \A id : Top(id)' = Top(id)
  BY <1>1, TopSame DEF StationIDs
<1>4. RingsExact'
  BY <1>1, <1>3 DEF RingInv, RingsExact, RingShape
<1>5. StatsExact'
  <2> SUFFICES ASSUME NEW id \in StationIDs
               PROVE  /\ stats[id].outcome["received"] = stats[id].lastReception
                      /\ stats[id].lastReception = Top(id)
    BY <1>1, <1>3 DEF StatsExact, Working
  <2>1. PICK i \in DOMAIN state.stations : state.stations[i].id = id
    BY DEF StationIDs
  <2>2. StagedLast(i) = stats[id].lastReception
    BY <1>1, <2>1 DEF StagedLast, Working
  <2>3. Top(id) <= stats[id].lastReception /\ (Top(id) + 1)..stats[id].lastReception = {}
    BY <1>1, <1>2, <2>1, <2>2 DEF RingInv, PendingComplete
  <2>4. stats[id].lastReception = Top(id)
    BY <2>3, RingFacts
  <2> QED BY <2>4 DEF RingInv, StatsExact
<1> QED BY <1>1, <1>2, <1>4, <1>5 DEF RingInv, LoopTimes, Working, PendingOrdered,
                                     PendingComplete, PendingBounded

\* The report in progress is newer than all that was committed, and no report of
\* the call is later than the call.
LEMMA ReportFacts ==
  ASSUME TypeInv, HistoryInv, ClockInv, CoherentInv, RingInv, pc = "receive"
  PROVE  LET t == Last(reports)
         IN /\ t \in Message /\ t.sequence = next.sequence /\ t.timestamp = Now
            /\ next.sequence \in Nat /\ state.sequence \in Nat /\ state.sequence < next.sequence
            /\ Now \in Nat /\ state.elapsed \in Nat /\ loop.target \in Nat
            /\ state.elapsed <= Now /\ Now <= loop.target
<1> DEFINE t == Last(reports)
<1>1. Working
  BY DEF Working
<1>2. /\ reports \in Seq(Message) /\ reports # <<>> /\ loop \in LoopRecord
      /\ state.sequence \in Nat /\ state.elapsed \in Nat
      /\ loop.target \in Nat /\ loop.tick \in Nat /\ loop.last \in Nat
  BY StateFields DEF TypeInv, TypeOK, StateTypeOK, ControlTypeOK, StagedShape, LoopRecord
<1>3. Len(reports) \in Nat \ {0} /\ Len(reports) \in 1..Len(reports)
  BY <1>2
<1>4. t \in Message /\ t = reports[Len(reports)]
  BY <1>2 DEF Last
<1>5. next.sequence = state.sequence + Len(reports) /\ t.sequence = next.sequence
  BY <1>1, <1>3, <1>4 DEF HistoryInv, StagedReports
<1>6. t.timestamp = Now /\ t.timestamp >= state.elapsed
  BY <1>1 DEF RingInv, LoopTimes, CoherentInv, ReportsLate
<1> HIDE DEF t
<1>7. Now \in Nat
  BY <1>4, <1>6 DEF Message
<1>8. Now <= loop.target
  <2>1. CASE loop.kind = "count"
    BY <1>1, <1>2, <2>1 DEF RingInv, LoopTimes, Now
  <2>2. CASE loop.kind # "count"
    <3>1. loop.kind = "advance"
      BY <2>2 DEF CoherentInv, ReportsLate
    <3>2. /\ loop.tick <= loop.last /\ loop.last * TickInterval <= loop.target
          /\ Now = loop.tick * TickInterval
      BY <1>1, <3>1 DEF RingInv, LoopTimes, Now
    <3>3. TickInterval \in Nat
      BY LimitsAssumption
    <3> DEFINE a == loop.tick
               b == loop.last
    <3>4. a * TickInterval <= b * TickInterval
      <4>1. a \in Nat /\ b \in Nat /\ a <= b
        BY <1>2, <3>2
      <4> HIDE DEF a, b
      <4>2. PICK c \in Nat : b = a + c
        <5>1. b - a \in Nat /\ b = a + (b - a)
          BY <4>1
        <5> QED BY <5>1
      <4>3. b * TickInterval = a * TickInterval + c * TickInterval
        BY <3>3, <4>1, <4>2
      <4>4. a * TickInterval \in Nat /\ c * TickInterval \in Nat
        BY <3>3, <4>1, <4>2
      <4> QED BY <4>3, <4>4
    <3>5. b * TickInterval \in Nat
      BY <1>2, <3>3
    <3> QED BY <1>2, <1>7, <3>2, <3>4, <3>5
  <2> QED BY <2>1, <2>2
<1>9. state.sequence < next.sequence /\ next.sequence \in Nat
  BY <1>2, <1>3, <1>5
<1> QED BY <1>2, <1>4, <1>5, <1>6, <1>7, <1>8, <1>9 DEF t

\* One opportunity: a reception continues the staged counters of its station.
LEMMA RingReceive ==
  ASSUME TypeInv, HistoryInv, ClockInv, CoherentInv, RingInv,
         NEW outcome \in Outcomes, Receive(outcome)
  PROVE  RingInv'
<1>1. /\ pc = "receive" /\ pc' = pc /\ UNCHANGED <<state, history, stats, next, reports>>
      /\ Working /\ Working' /\ loop.station <= Len(next.stations)
  BY DEF Receive, Working
<1>2. /\ next.stations = state.stations
      /\ \E i \in DOMAIN state.stations : i = loop.station /\ i \in Nat
  <2>1. loop \in LoopRecord /\ next.stations = state.stations /\ loop.station >= 1
    BY <1>1 DEF TypeInv, TypeOK, ControlTypeOK, StagedShape, SameStations
  <2>2. loop.station \in Nat
    BY <2>1 DEF LoopRecord
  <2> QED BY <1>1, <2>1, <2>2, StationFacts
<1>a. PICK i \in DOMAIN state.stations : i = loop.station /\ i \in Nat
  BY <1>2
<1> DEFINE t == Last(reports)
           old == batch.stats[i]
           counted == Count(old, outcome, t.channel, t.timestamp \div TickInterval)
           got == outcome = "received"
           r == Reception(state.stations[i], counted.lastReception, t)
           l == Len(batch.records)
<1>3. /\ batch \in BatchRecord /\ batch.stats \in Seq(Stats)
      /\ Len(batch.stats) = Len(state.stations) /\ DOMAIN batch.stats = DOMAIN state.stations
  <2>1. /\ batch \in BatchRecord /\ batch.stats \in Seq(Stats)
        /\ Len(batch.stats) = Len(state.stations)
    BY <1>1 DEF TypeInv, TypeOK, BatchTypeOK, StagedShape, BatchRecord
  <2> QED BY <2>1, StationFacts, LenProperties
<1>4. loop'.applied = 0 /\ loop.applied = 0 /\ loop'.station = i + 1
      /\ loop'.kind = loop.kind /\ loop'.target = loop.target /\ loop'.tick = loop.tick
      /\ loop'.last = loop.last
  BY <1>1, <1>a DEF Receive, TypeInv, TypeOK, ControlTypeOK, LoopRecord, RingInv, LoopTimes
<1>5. Now' = Now
  BY <1>1, <1>4 DEF Now
<1>6. LoopTimes'
  BY <1>1, <1>4, <1>5 DEF RingInv, LoopTimes
<1>7. old \in Stats
  BY <1>1, RingFacts
<1>8. /\ counted.lastReception = old.lastReception + Bump(got)
      /\ counted.outcome["received"] = old.outcome["received"] + Bump(got)
  BY <1>7, CountReceived
<1> HIDE DEF counted
<1>9. /\ \A j \in DOMAIN state.stations :
           batch'.stats[j] = IF j = i THEN counted ELSE batch.stats[j]
      /\ batch'.records = IF got THEN Append(batch.records, r) ELSE batch.records
  BY <1>2, <1>3, <1>a DEF Receive, BatchRecord, counted
<1>11. old.lastReception \in Nat /\ old.outcome["received"] = old.lastReception
       /\ old.outcome["received"] \in Nat
  <2>1. old.lastReception \in Nat
    BY <1>7 DEF Stats
  <2>2. old.outcome["received"] = old.lastReception
    BY <1>1 DEF RingInv, StatsExact
  <2> QED BY <2>1, <2>2
<1>12. CASE ~got
  <2>1. /\ \A j \in DOMAIN state.stations :
             /\ batch'.stats[j].lastReception = batch.stats[j].lastReception
             /\ batch'.stats[j].outcome["received"] = batch.stats[j].outcome["received"]
        /\ batch'.records = batch.records
    <3>1. Bump(got) = 0
      BY <1>12 DEF Bump
    <3>2. counted.lastReception = old.lastReception
          /\ counted.outcome["received"] = old.outcome["received"]
      BY <1>8, <1>11, <3>1
    <3> HIDE DEF got
    <3> QED BY <1>9, <1>12, <3>2
  <2>2. Pending' = Pending
    BY <1>1, <1>4, <2>1 DEF Pending
  <2>3. PendingBounded'
    <3>1. \A j \in DOMAIN state.stations : j >= i + 1 => j >= i
      BY <1>a, StationFacts
    <3> QED BY <1>1, <1>4, <1>5, <1>a, <2>1, <2>2, <3>1 DEF RingInv, PendingBounded
  <2> QED BY <1>1, <1>6, <2>1, <2>3, RingWorking
<1>13. CASE got
  <2>1. /\ counted.lastReception = old.lastReception + 1
        /\ counted.outcome["received"] = counted.lastReception
    <3>1. Bump(got) = 1
      BY <1>13 DEF Bump
    <3> HIDE DEF got
    <3> QED BY <1>8, <1>11, <3>1
  <2> DEFINE id == state.stations[i].id
  <2>2. /\ t \in Message /\ t.sequence = next.sequence /\ t.timestamp = Now
        /\ next.sequence \in Nat /\ state.sequence \in Nat /\ state.sequence < next.sequence
        /\ Now \in Nat /\ state.elapsed \in Nat /\ loop.target \in Nat
        /\ state.elapsed <= Now /\ Now <= loop.target
    BY <1>1, ReportFacts
  <2> HIDE DEF t
  <2>3. /\ r.station = id /\ r.sequence = old.lastReception + 1
        /\ r.transmission = next.sequence /\ r.timestamp = Now
    BY <2>1, <2>2 DEF Reception
  <2> HIDE DEF r
  <2>4. /\ batch'.records = Append(batch.records, r)
        /\ l \in Nat /\ Pending = 1..l /\ Pending' = 1..(l + 1)
        /\ batch'.records[l + 1] = r
        /\ \A k \in 1..l : batch'.records[k] = batch.records[k]
    <3> DEFINE T == ReceptionRecord \cup {r}
               b == batch.records
               a == Append(b, r)
    <3>1. b \in Seq(T) /\ r \in T /\ l \in Nat
      BY SeqMonotonic, PendingFacts
    <3>2. batch'.records = a
      BY <1>9, <1>13
    <3> HIDE DEF T, b
    <3>3. /\ Len(a) = l + 1 /\ a[l + 1] = r
          /\ \A k \in 1..l : a[k] = b[k]
      BY <3>1, AppendProperties DEF b
    <3> HIDE DEF a
    <3>4. Pending = 1..l
      BY <1>1, <1>4 DEF Pending
    <3>5. Pending' = 1..(l + 1)
      BY <1>1, <1>4, <3>2, <3>3 DEF Pending
    <3> QED BY <3>1, <3>2, <3>3, <3>4, <3>5 DEF a, b
  <2>a. \A k \in 1..(l + 1) : k \in 1..l \/ k = l + 1
    BY <2>4
  <2>b. l + 1 \in 1..(l + 1) /\ \A k \in 1..l : k \in 1..(l + 1)
    BY <2>4
  <2>5. /\ StagedLast(i)' = old.lastReception + 1 /\ StagedLast(i) = old.lastReception
        /\ \A j \in DOMAIN state.stations \ {i} : StagedLast(j)' = StagedLast(j)
    BY <1>1, <1>9, <2>1 DEF StagedLast
  <2>6. /\ StationIDs' = StationIDs /\ id \in StationIDs
        /\ \A x : Top(x)' = Top(x)
        /\ \A j \in DOMAIN state.stations : state.stations[j].id = id => j = i
    BY <1>1, TopSame, StationFacts DEF StationIDs
  <2>7. /\ \A k \in 1..l : batch.records[k] \in ReceptionRecord
        /\ \A n \in DOMAIN history[id] : history[id][n] \in ReceptionRecord
        /\ Top(id) \in Nat
    BY <2>6, PendingFacts, RingFacts
  <2>8. ASSUME NEW k \in 1..l
        PROVE  LET b == batch.records[k]
               IN /\ b.transmission \in Nat /\ b.timestamp \in Nat /\ b.sequence \in Nat
                  /\ b.transmission <= next.sequence
                  /\ b.timestamp <= Now /\ b.timestamp <= loop.target
                  /\ b.station = id => /\ b.transmission < next.sequence
                                       /\ b.sequence <= old.lastReception
                                       /\ Top(id) < b.sequence
    <3>1. k \in Pending
      BY <2>4
    <3>2. i >= loop.station
      BY <1>a
    <3> QED BY <1>1, <1>a, <2>4, <2>5, <2>7, <3>1, <3>2, ReceptionFields
            DEF RingInv, PendingBounded, PendingComplete
  <2> DEFINE bs == batch'.records
  <2>c. /\ bs[l + 1] = r
        /\ \A k \in 1..l : bs[k] = batch.records[k]
    BY <2>4
  <2> HIDE DEF old, l, id, got, bs
  <2>9. RingsExact'
    BY <1>1, <2>6 DEF RingInv, RingsExact, RingShape
  <2>10. StatsExact'
    BY <1>1, <1>9, <2>1, <2>6 DEF RingInv, StatsExact
  <2>11. PendingOrdered'
    <3>1. ASSUME NEW j \in 1..(l + 1), NEW k \in 1..(l + 1), j < k
          PROVE  LET a == bs[j]
                     b == bs[k]
                 IN /\ a.timestamp <= b.timestamp
                    /\ a.station = b.station => /\ a.sequence < b.sequence
                                                /\ a.transmission < b.transmission
      <4>1. j \in 1..l
        BY <2>4, <3>1
      <4>2. CASE k \in 1..l
        BY <2>4, <2>c, <3>1, <4>1, <4>2 DEF RingInv, PendingOrdered
      <4>3. CASE k = l + 1
        BY <1>11, <2>2, <2>3, <2>c, <2>8, <4>1, <4>3
      <4> QED BY <2>a, <4>2, <4>3
    <3>2. ASSUME NEW k \in 1..(l + 1), NEW n \in DOMAIN history[bs[k].station]
          PROVE  LET b == bs[k]
                 IN /\ history[b.station][n].transmission < b.transmission
                    /\ history[b.station][n].timestamp <= b.timestamp
      <4>1. CASE k \in 1..l
        BY <2>4, <2>c, <4>1 DEF RingInv, PendingOrdered
      <4>2. CASE k = l + 1
        <5>1. bs[k] = r /\ n \in DOMAIN history[id]
          BY <2>3, <2>c, <4>2
        <5>2. /\ history[id][n].transmission <= state.sequence
              /\ history[id][n].timestamp <= state.elapsed
          BY <2>6, <5>1 DEF RingInv, RingsExact, RingShape
        <5>3. history[id][n].transmission \in Nat /\ history[id][n].timestamp \in Nat
          BY <2>7, <5>1, ReceptionFields
        <5> QED BY <2>2, <2>3, <5>1, <5>2, <5>3
      <4> QED BY <2>a, <4>1, <4>2
    <3> QED BY <1>1, <2>4, <3>1, <3>2 DEF PendingOrdered, bs
  <2>12. PendingComplete'
    <3> SUFFICES ASSUME NEW j \in DOMAIN state.stations
                 PROVE  LET x == state.stations[j].id
                        IN /\ Top(x) <= StagedLast(j)'
                           /\ \A k \in 1..(l + 1) :
                                bs[k].station = x =>
                                  /\ Top(x) < bs[k].sequence
                                  /\ bs[k].sequence <= StagedLast(j)'
                           /\ \A q \in (Top(x) + 1)..StagedLast(j)' :
                                \E k \in 1..(l + 1) :
                                  bs[k].station = x /\ bs[k].sequence = q
      <4> DEFINE P == 1..(l + 1)
      <4>1. Pending' = P
        BY <2>4
      <4> HIDE DEF P
      <4>2. ASSUME NEW j \in DOMAIN state.stations
            PROVE  LET x == state.stations[j].id
                   IN /\ Top(x) <= StagedLast(j)'
                      /\ \A k \in P :
                           bs[k].station = x =>
                             Top(x) < bs[k].sequence /\ bs[k].sequence <= StagedLast(j)'
                      /\ \A q \in (Top(x) + 1)..StagedLast(j)' :
                           \E k \in P : bs[k].station = x /\ bs[k].sequence = q
        BY DEF P
      <4> QED BY <1>1, <2>6, <4>1, <4>2 DEF PendingComplete, bs
    <3>1. LET x == state.stations[j].id
          IN /\ Top(x) <= StagedLast(j)
             /\ \A k \in 1..l :
                  batch.records[k].station = x => /\ Top(x) < batch.records[k].sequence
                                                  /\ batch.records[k].sequence <= StagedLast(j)
             /\ \A q \in (Top(x) + 1)..StagedLast(j) :
                  \E k \in 1..l : batch.records[k].station = x /\ batch.records[k].sequence = q
      BY <1>1, <2>4 DEF RingInv, PendingComplete
    <3>2. CASE j # i
      <4>1. state.stations[j].id # r.station /\ StagedLast(j)' = StagedLast(j)
        BY <2>3, <2>5, <2>6, <3>2
      <4> QED BY <2>a, <2>b, <2>c, <3>1, <4>1
    <3>3. CASE j = i
      <4>1. state.stations[j].id = id /\ StagedLast(j) = old.lastReception
            /\ StagedLast(j)' = old.lastReception + 1
        BY <2>5, <3>3 DEF id
      <4>2. Top(id) <= old.lastReception + 1
        BY <1>11, <2>7, <3>1, <4>1
      <4>3. ASSUME NEW k \in 1..(l + 1), bs[k].station = id
            PROVE  /\ Top(id) < bs[k].sequence
                   /\ bs[k].sequence <= old.lastReception + 1
        <5>1. CASE k \in 1..l
          BY <1>11, <2>c, <2>8, <4>3, <5>1
        <5>2. CASE k = l + 1
          BY <1>11, <2>3, <2>c, <2>7, <3>1, <4>1, <5>2
        <5> QED BY <2>a, <5>1, <5>2
      <4>4. ASSUME NEW q \in (Top(id) + 1)..(old.lastReception + 1)
            PROVE  \E k \in 1..(l + 1) :
                     bs[k].station = id /\ bs[k].sequence = q
        <5>1. CASE q = old.lastReception + 1
          BY <2>3, <2>b, <2>c, <5>1
        <5>2. CASE q # old.lastReception + 1
          <6>1. q \in (Top(id) + 1)..old.lastReception
            BY <1>11, <2>7, <5>2
          <6>2. PICK k \in 1..l : batch.records[k].station = id /\ batch.records[k].sequence = q
            BY <3>1, <4>1, <6>1
          <6> QED BY <2>b, <2>c, <6>2
        <5> QED BY <5>1, <5>2
      <4> QED BY <4>1, <4>2, <4>3, <4>4
    <3> QED BY <3>2, <3>3
  <2>13. PendingBounded'
    <3> SUFFICES ASSUME NEW k \in 1..(l + 1)
                 PROVE  LET b == bs[k]
                        IN /\ b.transmission <= next.sequence
                           /\ b.timestamp <= Now /\ b.timestamp <= loop.target
                           /\ \A j \in DOMAIN state.stations :
                                j >= i + 1 /\ b.station = state.stations[j].id =>
                                  b.transmission < next.sequence
      BY <1>1, <1>4, <1>5, <2>4 DEF PendingBounded, bs
    <3>1. CASE k \in 1..l
      <4>1. ASSUME NEW j \in DOMAIN state.stations, j >= i + 1,
                   batch.records[k].station = state.stations[j].id
            PROVE  batch.records[k].transmission < next.sequence
        <5>1. j >= loop.station /\ k \in Pending
          BY <1>a, <2>4, <3>1, <4>1, StationFacts
        <5> QED BY <1>1, <4>1, <5>1 DEF RingInv, PendingBounded
      <4> QED BY <2>c, <2>8, <3>1, <4>1
    <3>2. CASE k = l + 1
      <4>1. ASSUME NEW j \in DOMAIN state.stations, j >= i + 1 PROVE r.station # state.stations[j].id
        <5>1. j # i
          BY <1>a, <4>1
        <5> QED BY <2>3, <2>6, <5>1
      <4> QED BY <2>2, <2>3, <2>c, <3>2, <4>1
    <3> QED BY <2>a, <3>1, <3>2
  <2> QED BY <1>6, <2>9, <2>10, <2>11, <2>12, <2>13 DEF RingInv
<1> QED BY <1>12, <1>13

\* All but the last of p are the newest of h.
Shifts(p, h) ==
  \A n \in 1..(Len(p) - 1) :
    /\ n + (Len(h) + 1 - Len(p)) \in DOMAIN h
    /\ p[n] = h[n + (Len(h) + 1 - Len(p))]

\* push keeps the newest receptions, in order, with the new one last.
LEMMA PushShape ==
  ASSUME NEW S, NEW h \in Seq(S), NEW r \in S, Len(h) <= ReceptionHistoryLimit,
         NEW p, p = Push(h, r)
  PROVE  /\ p \in Seq(S) /\ Len(p) \in Nat \ {0} /\ DOMAIN p = 1..Len(p)
         /\ Len(p) = Minimum(Len(h) + 1, ReceptionHistoryLimit)
         /\ p[Len(p)] = r /\ Shifts(p, h)
<1>1. /\ Len(h) \in Nat /\ DOMAIN h = 1..Len(h) /\ ReceptionHistoryLimit \in Nat \ {0}
      /\ p \in Seq(S)
  BY LenProperties, LimitsAssumption, PushType
<1>2. CASE Len(h) < ReceptionHistoryLimit
  <2>1. p = Append(h, r)
    BY <1>2 DEF Push
  <2>2. Len(p) = Len(h) + 1 /\ p[Len(h) + 1] = r /\ \A n \in 1..Len(h) : p[n] = h[n]
    BY <2>1, AppendProperties
  <2>3. Len(p) = Minimum(Len(h) + 1, ReceptionHistoryLimit)
    BY <1>1, <1>2, <2>2 DEF Minimum
  <2>4. DOMAIN p = 1..Len(p)
    BY <1>1, LenProperties
  <2> QED BY <1>1, <2>2, <2>3, <2>4 DEF Shifts
<1>3. CASE ~(Len(h) < ReceptionHistoryLimit)
  <2> DEFINE tl == Tail(h)
  <2>a. h # <<>>
    BY <1>3, LimitsAssumption
  <2>b. Len(h) = ReceptionHistoryLimit
    <3>1. Len(h) \in Nat /\ ReceptionHistoryLimit \in Nat
      BY <1>1
    <3> QED BY <1>3, <3>1
  <2>1. h # <<>> /\ Len(h) = ReceptionHistoryLimit
    BY <2>a, <2>b
  <2>2. tl \in Seq(S) /\ Len(tl) = Len(h) - 1 /\ \A n \in 1..(Len(h) - 1) : tl[n] = h[n + 1]
    BY <2>1, HeadTailProperties
  <2>3. p = Append(tl, r)
    BY <1>3 DEF Push
  <2> HIDE DEF tl
  <2>4. Len(p) = Len(tl) + 1 /\ p[Len(tl) + 1] = r /\ \A n \in 1..Len(tl) : p[n] = tl[n]
    BY <2>2, <2>3, AppendProperties
  <2>5. Len(p) = Len(h) /\ Len(p) = Minimum(Len(h) + 1, ReceptionHistoryLimit)
    BY <1>1, <2>1, <2>2, <2>4 DEF Minimum
  <2>6. DOMAIN p = 1..Len(p)
    BY <1>1, LenProperties
  <2>7. \A n \in 1..(Len(p) - 1) : n + 1 \in DOMAIN h /\ p[n] = h[n + 1]
    BY <1>1, <2>2, <2>4, <2>5
  <2> QED BY <1>1, <2>1, <2>2, <2>4, <2>5, <2>6, <2>7 DEF Shifts
<1> QED BY <1>2, <1>3

\* What is stored next continues the ring of its station by one.
LEMMA NextPending ==
  ASSUME TypeInv, CoherentInv, RingInv, ApplyRecord
  PROVE  LET k == loop.applied + 1
             r == batch.records[k]
         IN /\ k \in Pending /\ k \in Nat /\ r \in ReceptionRecord
            /\ Pending' = Pending \ {k} /\ \A j \in Pending : j >= k
            /\ r.station \in StationIDs /\ r.sequence = Top(r.station) + 1
            /\ r.transmission <= state.sequence /\ r.timestamp <= state.elapsed
<1> DEFINE k == loop.applied + 1
           r == batch.records[k]
           id == r.station
<1>1. /\ pc = "apply" /\ pc' = "apply" /\ batch' = batch /\ ~Working
      /\ loop.applied < Len(batch.records) /\ loop'.applied = loop.applied + 1
  BY DEF ApplyRecord, Working, TypeInv, TypeOK, ControlTypeOK, LoopRecord
<1>2. /\ k \in Nat /\ k \in Pending /\ \A j \in Pending : j >= k /\ j \in Nat
      /\ Pending' = Pending \ {k}
  BY <1>1, PendingFacts DEF Pending
<1>3. \A j \in Pending : j \in DOMAIN batch.records /\ batch.records[j] \in ReceptionRecord
  BY PendingFacts
<1>4. PICK i \in DOMAIN state.stations : Fits(r, state.stations[i])
  BY <1>1, <1>2, <1>3 DEF CoherentInv, BatchFits
<1> HIDE DEF k, r
<1>5. id = state.stations[i].id /\ id \in StationIDs /\ StagedLast(i) \in Nat /\ Top(id) \in Nat
  BY <1>4, StationFacts, RingFacts DEF Fits
<1>6. /\ Top(id) < r.sequence /\ r.sequence <= StagedLast(i) /\ r.sequence \in Nat
      /\ \A q \in (Top(id) + 1)..StagedLast(i) :
           \E j \in Pending : batch.records[j].station = id /\ batch.records[j].sequence = q
  <2>1. r.sequence \in Nat
    BY <1>2, <1>3, ReceptionFields DEF r
  <2>2. /\ \A j \in Pending :
             batch.records[j].station = state.stations[i].id =>
               /\ Top(state.stations[i].id) < batch.records[j].sequence
               /\ batch.records[j].sequence <= StagedLast(i)
        /\ \A q \in (Top(state.stations[i].id) + 1)..StagedLast(i) :
             \E j \in Pending : batch.records[j].station = state.stations[i].id
                                /\ batch.records[j].sequence = q
    BY <1>1 DEF RingInv, PendingComplete
  <2>3. Top(id) < r.sequence /\ r.sequence <= StagedLast(i)
    BY <1>2, <1>5, <2>2 DEF r
  <2> HIDE DEF id
  <2> QED BY <1>5, <2>1, <2>2, <2>3
<1>7. r.sequence = Top(id) + 1
  <2>1. Top(id) + 1 \in (Top(id) + 1)..StagedLast(i)
    BY <1>5, <1>6
  <2>2. PICK j \in Pending : batch.records[j].station = id /\ batch.records[j].sequence = Top(id) + 1
    BY <1>6, <2>1
  <2>3. CASE j = k
    BY <2>2, <2>3 DEF r
  <2>4. CASE j # k
    <3>1. k < j
      BY <1>2, <2>4
    <3>2. r.sequence < batch.records[j].sequence
      BY <1>2, <2>2, <3>1 DEF RingInv, PendingOrdered, r
    <3> QED BY <1>5, <1>6, <2>2, <3>2
  <2> QED BY <2>3, <2>4
<1>8. r.transmission <= state.sequence /\ r.timestamp <= state.elapsed
  BY <1>1, <1>2 DEF RingInv, PendingBounded, r
<1> QED BY <1>2, <1>3, <1>5, <1>7, <1>8 DEF k, r

\* One record stored: its ring grows by it, the others stay.
LEMMA RingApply ==
  ASSUME TypeInv, CoherentInv, RingInv, ApplyRecord
  PROVE  RingInv'
<1>k. PICK k : k = loop.applied + 1
  OBVIOUS
<1>r. PICK r : r = batch.records[k]
  OBVIOUS
<1>i. PICK id : id = r.station
  OBVIOUS
<1>h. PICK h : h = history[id]
  OBVIOUS
<1>p. PICK p : p = Push(h, r)
  OBVIOUS
<1>1. /\ pc = "apply" /\ pc' = "apply" /\ batch' = batch /\ ~Working /\ ~Working'
      /\ UNCHANGED <<state, stats>>
      /\ history' = [history EXCEPT ![id] = p]
  BY <1>k, <1>r, <1>i, <1>h, <1>p DEF ApplyRecord, Working
<1>2. /\ k \in Pending /\ k \in Nat /\ r \in ReceptionRecord
      /\ Pending' = Pending \ {k} /\ \A j \in Pending : j >= k
      /\ id \in StationIDs /\ r.sequence = Top(id) + 1
      /\ r.transmission <= state.sequence /\ r.timestamp <= state.elapsed
  BY <1>k, <1>r, <1>i, NextPending
<1>3. /\ \A j \in Pending : j \in Nat /\ batch.records[j] \in ReceptionRecord
      /\ \A x \in StationIDs : Top(x) \in Nat
      /\ h \in Seq(ReceptionRecord) /\ Len(h) \in Nat /\ DOMAIN h = 1..Len(h)
      /\ \A n \in DOMAIN h : h[n] \in ReceptionRecord
      /\ DOMAIN history = StationIDs
  BY <1>2, <1>h, PendingFacts, RingFacts, StationFacts
<1>4. /\ Len(h) = Minimum(Top(id), ReceptionHistoryLimit)
      /\ \A n \in DOMAIN h :
           /\ h[n].sequence = Top(id) - Len(h) + n
           /\ h[n].transmission <= state.sequence /\ h[n].timestamp <= state.elapsed
           /\ h[n].transmission < r.transmission /\ h[n].timestamp <= r.timestamp
      /\ \A n, o \in DOMAIN h :
           n < o => h[n].transmission < h[o].transmission /\ h[n].timestamp <= h[o].timestamp
  <2>1. RingShape(id)
    BY <1>2 DEF RingInv, RingsExact
  <2>2. \A n \in DOMAIN h : h[n].transmission < r.transmission /\ h[n].timestamp <= r.timestamp
    <3>1. PendingOrdered
      BY DEF RingInv
    <3> QED BY <3>1, <1>2, <1>r, <1>i, <1>h DEF PendingOrdered
  <2>3. /\ Len(h) = Minimum(Top(id), ReceptionHistoryLimit)
        /\ \A n \in DOMAIN h :
             /\ h[n].sequence = Top(id) - Len(h) + n
             /\ h[n].transmission <= state.sequence /\ h[n].timestamp <= state.elapsed
        /\ \A n, o \in DOMAIN h :
             n < o => h[n].transmission < h[o].transmission /\ h[n].timestamp <= h[o].timestamp
    BY <2>1, <1>h DEF RingShape
  <2> QED BY <2>2, <2>3
<1>5. /\ StationIDs' = StationIDs
      /\ history'[id] = p
      /\ \A x \in StationIDs : x # id => history'[x] = history[x]
  <2>1. StationIDs' = StationIDs
    BY <1>1 DEF StationIDs
  <2>2. /\ history' = [history EXCEPT ![id] = p]
        /\ id \in DOMAIN history /\ DOMAIN history = StationIDs
    BY <1>1, <1>2, <1>3
  <2>3. history'[id] = p
    BY <2>2
  <2>4. \A x \in StationIDs : x # id => history'[x] = history[x]
    BY <2>2
  <2> QED BY <2>1, <2>3, <2>4
<1>6. ReceptionHistoryLimit \in Nat \ {0} /\ Len(h) <= ReceptionHistoryLimit
  <2>1. ReceptionHistoryLimit \in Nat \ {0}
    BY LimitsAssumption
  <2>2. Len(h) = Minimum(Top(id), ReceptionHistoryLimit) /\ Top(id) \in Nat
    BY <1>2, <1>3, <1>4
  <2> QED BY <2>1, <2>2 DEF Minimum
<1>7. /\ Len(p) \in Nat \ {0} /\ DOMAIN p = 1..Len(p)
      /\ Len(p) = Minimum(Len(h) + 1, ReceptionHistoryLimit)
      /\ p[Len(p)] = r
      /\ \A n \in 1..(Len(p) - 1) :
           /\ n + (Len(h) + 1 - Len(p)) \in DOMAIN h
           /\ p[n] = h[n + (Len(h) + 1 - Len(p))]
  <2>1. /\ h \in Seq(ReceptionRecord) /\ r \in ReceptionRecord
        /\ Len(h) <= ReceptionHistoryLimit
    BY <1>2, <1>3, <1>6
  <2>2. /\ Len(p) \in Nat \ {0} /\ DOMAIN p = 1..Len(p)
        /\ Len(p) = Minimum(Len(h) + 1, ReceptionHistoryLimit)
        /\ p[Len(p)] = r /\ Shifts(p, h)
    BY <1>p, <2>1, PushShape
  <2> QED BY <2>2 DEF Shifts
<1>8. /\ \A n \in DOMAIN p : n \in Nat /\ (n = Len(p) \/ n \in 1..(Len(p) - 1))
      /\ Len(p) \in DOMAIN p /\ p # <<>>
  <2>1. \A n \in DOMAIN p : n \in Nat /\ (n = Len(p) \/ n \in 1..(Len(p) - 1))
    BY <1>7
  <2>2. Len(p) \in DOMAIN p
    BY <1>7
  <2>3. DOMAIN <<>> = {}
    OBVIOUS
  <2> QED BY <2>1, <2>2, <2>3
<1>9. Top(id)' = r.sequence /\ \A x \in StationIDs : x # id => Top(x)' = Top(x)
  <2>1. Top(id)' = p[Len(p)].sequence
    BY <1>5, <1>8 DEF Top
  <2>2. \A x \in StationIDs : x # id => Top(x)' = Top(x)
    BY <1>5, TopSame
  <2> QED BY <1>7, <2>1, <2>2
<1>10. /\ r.sequence \in Nat /\ r.transmission \in Nat /\ r.timestamp \in Nat
       /\ \A n \in DOMAIN h : h[n].transmission \in Nat /\ h[n].timestamp \in Nat
  <2>1. \A n \in DOMAIN h : h[n].transmission \in Nat /\ h[n].timestamp \in Nat
    BY <1>3, ReceptionFields
  <2> QED BY <1>2, <2>1, ReceptionFields
<1>11. RingsExact'
  <2>1. ASSUME NEW x \in StationIDs, x # id PROVE RingShape(x)'
    BY <1>1, <1>5, <1>9, <2>1 DEF RingInv, RingsExact, RingShape
  <2>2. RingShape(id)'
    <3>1. Len(p) = Minimum(Top(id) + 1, ReceptionHistoryLimit)
      BY <1>2, <1>3, <1>4, <1>6, <1>7 DEF Minimum
    <3>2. ASSUME NEW n \in DOMAIN p
          PROVE  /\ p[n].sequence = Top(id) + 1 - Len(p) + n
                 /\ p[n].transmission <= state.sequence /\ p[n].timestamp <= state.elapsed
      <4>1. CASE n = Len(p)
        BY <1>2, <1>3, <1>7, <4>1
      <4>2. CASE n \in 1..(Len(p) - 1)
        <5> DEFINE m == n + (Len(h) + 1 - Len(p))
        <5>1. m \in DOMAIN h /\ p[n] = h[m]
          BY <1>7, <4>2
        <5>2. p[n].sequence = Top(id) - Len(h) + m
          BY <1>4, <5>1
        <5>3. Top(id) - Len(h) + m = Top(id) + 1 - Len(p) + n
          BY <1>2, <1>3, <1>7, <1>8
        <5> HIDE DEF m
        <5> QED BY <1>4, <5>1, <5>2, <5>3
      <4> QED BY <1>8, <4>1, <4>2
    <3>3. ASSUME NEW n \in DOMAIN p, NEW o \in DOMAIN p, n < o
          PROVE  p[n].transmission < p[o].transmission /\ p[n].timestamp <= p[o].timestamp
      <4> DEFINE m == n + (Len(h) + 1 - Len(p))
                 w == o + (Len(h) + 1 - Len(p))
      <4>1. m \in DOMAIN h /\ p[n] = h[m]
        <5>1. n \in 1..(Len(p) - 1)
          BY <1>7, <3>3
        <5> QED BY <1>7, <5>1
      <4>2. CASE o = Len(p)
        <5> HIDE DEF m
        <5> QED BY <1>4, <1>7, <4>1, <4>2
      <4>3. CASE o \in 1..(Len(p) - 1)
        <5>1. w \in DOMAIN h /\ p[o] = h[w]
          BY <1>7, <4>3
        <5>2. m < w
          BY <1>3, <1>7, <1>8, <3>3
        <5> HIDE DEF m, w
        <5> QED BY <1>4, <4>1, <5>1, <5>2
      <4> QED BY <1>8, <4>2, <4>3
    <3>4. Top(id)' = Top(id) + 1
      BY <1>2, <1>9
    <3>5. Len(p) = Minimum(Top(id)', ReceptionHistoryLimit)
      BY <3>1, <3>4
    <3>6. \A n \in DOMAIN p :
            /\ p[n].sequence = Top(id)' - Len(p) + n
            /\ p[n].transmission <= state'.sequence /\ p[n].timestamp <= state'.elapsed
      <4>1. state' = state
        BY <1>1
      <4>2. ASSUME NEW n \in DOMAIN p
            PROVE  p[n].sequence = Top(id)' - Len(p) + n
        <5>1. Top(id) \in Nat /\ Len(p) \in Nat /\ n \in Nat
          BY <1>2, <1>3, <1>7, <1>8
        <5>2. p[n].sequence = Top(id) + 1 - Len(p) + n
          BY <3>2
        <5> QED BY <3>4, <5>1, <5>2
      <4> QED BY <3>2, <4>1, <4>2
    <3>7. \A n, o \in DOMAIN p :
            n < o => p[n].transmission < p[o].transmission /\ p[n].timestamp <= p[o].timestamp
      BY <3>3
    <3> QED BY <1>5, <3>5, <3>6, <3>7 DEF RingShape
  <2> QED BY <1>5, <2>1, <2>2 DEF RingsExact
<1>12. StatsExact'
  BY <1>1, <1>5 DEF RingInv, StatsExact
<1>13. PendingOrdered'
  <2>1. ASSUME NEW j \in Pending \ {k}, NEW n \in DOMAIN history'[batch.records[j].station]
        PROVE  LET b == batch.records[j]
               IN /\ history'[b.station][n].transmission < b.transmission
                  /\ history'[b.station][n].timestamp <= b.timestamp
    <3>1. CASE batch.records[j].station = id
      <4>1. n \in DOMAIN p /\ history'[id][n] = p[n] /\ k < j
        BY <1>2, <1>3, <1>5, <3>1
      <4>2. CASE n = Len(p)
        BY <1>2, <1>7, <1>i, <1>r, <3>1, <4>1, <4>2 DEF RingInv, PendingOrdered
      <4>3. CASE n \in 1..(Len(p) - 1)
        <5> DEFINE m == n + (Len(h) + 1 - Len(p))
        <5>1. m \in DOMAIN h /\ p[n] = h[m]
          BY <1>7, <4>3
        <5> HIDE DEF m
        <5> QED BY <1>h, <3>1, <4>1, <5>1 DEF RingInv, PendingOrdered
      <4> QED BY <1>8, <4>1, <4>2, <4>3
    <3>2. CASE batch.records[j].station # id
      <4>1. batch.records[j].station \in StationIDs
        <5>1. j \in DOMAIN batch.records
          BY PendingFacts
        <5>2. PICK i \in DOMAIN state.stations : Fits(batch.records[j], state.stations[i])
          BY <1>1, <5>1 DEF CoherentInv, BatchFits
        <5> QED BY <5>2, StationFacts DEF Fits
      <4> QED BY <1>5, <3>2, <4>1 DEF RingInv, PendingOrdered
    <3> QED BY <3>1, <3>2
  <2> QED BY <1>1, <1>2, <2>1 DEF RingInv, PendingOrdered
<1>14. PendingComplete'
  <2>1. \A i \in DOMAIN state.stations : StagedLast(i)' = StagedLast(i)
    BY <1>1 DEF StagedLast
  <2>2. ASSUME NEW i \in DOMAIN state.stations, NEW x, x = state.stations[i].id
        PROVE  /\ Top(x)' <= StagedLast(i)
               /\ \A j \in Pending \ {k} :
                    batch.records[j].station = x =>
                      /\ Top(x)' < batch.records[j].sequence
                      /\ batch.records[j].sequence <= StagedLast(i)
               /\ \A q \in (Top(x)' + 1)..StagedLast(i) :
                    \E j \in Pending \ {k} :
                      batch.records[j].station = x /\ batch.records[j].sequence = q
    <3>1. x \in StationIDs /\ StagedLast(i) \in Nat
      BY <2>2, StationFacts, RingFacts
    <3>2. /\ Top(x) <= StagedLast(i)
          /\ \A j \in Pending :
               batch.records[j].station = x =>
                 Top(x) < batch.records[j].sequence /\ batch.records[j].sequence <= StagedLast(i)
          /\ \A q \in (Top(x) + 1)..StagedLast(i) :
               \E j \in Pending : batch.records[j].station = x /\ batch.records[j].sequence = q
      BY <1>1, <2>2 DEF RingInv, PendingComplete
    <3>3. CASE x = id
      <4>1. Top(x)' = Top(x) + 1 /\ Top(x) \in Nat /\ r.sequence = Top(x) + 1
        BY <1>2, <1>3, <1>9, <3>3
      <4>2. r.sequence <= StagedLast(i)
        BY <1>2, <1>i, <1>r, <3>2, <3>3
      <4>3. ASSUME NEW j \in Pending \ {k}, batch.records[j].station = x
            PROVE  r.sequence < batch.records[j].sequence
        <5>1. k < j
          BY <1>2, <1>3
        <5> QED BY <1>2, <1>i, <1>r, <3>3, <4>3, <5>1 DEF RingInv, PendingOrdered
      <4>4. ASSUME NEW q \in (Top(x)' + 1)..StagedLast(i)
            PROVE  \E j \in Pending \ {k} :
                     batch.records[j].station = x /\ batch.records[j].sequence = q
        <5>1. q \in (Top(x) + 1)..StagedLast(i) /\ q # r.sequence
          BY <3>1, <4>1
        <5>2. PICK j \in Pending : batch.records[j].station = x /\ batch.records[j].sequence = q
          BY <3>2, <5>1
        <5>3. j # k
          BY <1>r, <5>1, <5>2
        <5> QED BY <5>2, <5>3
      <4> QED BY <1>9, <3>2, <3>3, <4>2, <4>3, <4>4
    <3>4. CASE x # id
      <4>1. Top(x)' = Top(x) /\ batch.records[k].station # x
        BY <1>9, <1>i, <1>r, <3>1, <3>4
      <4> QED BY <3>2, <4>1
    <3> QED BY <3>3, <3>4
  <2>3. \A i \in DOMAIN state.stations :
          LET x == state.stations[i].id
          IN /\ Top(x)' <= StagedLast(i)
             /\ \A j \in Pending \ {k} :
                  batch.records[j].station = x =>
                    /\ Top(x)' < batch.records[j].sequence
                    /\ batch.records[j].sequence <= StagedLast(i)
             /\ \A q \in (Top(x)' + 1)..StagedLast(i) :
                  \E j \in Pending \ {k} :
                    batch.records[j].station = x /\ batch.records[j].sequence = q
    BY <1>1, <2>2
  <2> QED BY <1>1, <1>2, <2>1, <2>3 DEF PendingComplete
<1>15. PendingBounded'
  BY <1>1, <1>2 DEF RingInv, PendingBounded
<1>16. LoopTimes'
  BY <1>1 DEF LoopTimes
<1> QED BY <1>11, <1>12, <1>13, <1>14, <1>15, <1>16 DEF RingInv

-----------------------------------------------------------------------------
(***************************************************************************)
(* Rings: the other steps                                                  *)
(***************************************************************************)
\* An edit between calls leaves a ring and its counters alone, or they are new.
LEMMA RingEdit ==
  ASSUME RingInv, Idle, pc' = pc,
         state'.sequence = state.sequence, state'.elapsed = state.elapsed,
         \A x \in StationIDs' :
           \/ x \in StationIDs /\ history'[x] = history[x] /\ stats'[x] = stats[x]
           \/ history'[x] = <<>> /\ stats'[x] = NewStats
  PROVE  RingInv'
<1>1. pc = "idle" /\ pc' = "idle"
  BY DEF Idle
<1>2. Pending' = {}
  BY <1>1 DEF Pending
<1>3. ASSUME NEW x \in StationIDs'
      PROVE  RingShape(x)' /\ stats'[x].outcome["received"] = stats'[x].lastReception
             /\ stats'[x].lastReception = Top(x)'
  <2>1. CASE x \in StationIDs /\ history'[x] = history[x] /\ stats'[x] = stats[x]
    <3>1. Top(x)' = Top(x)
      BY <2>1, TopSame
    <3>2. RingShape(x)'
      BY <2>1, <3>1 DEF RingInv, RingsExact, RingShape
    <3> QED BY <1>1, <2>1, <3>1, <3>2 DEF RingInv, StatsExact
  <2>2. CASE history'[x] = <<>> /\ stats'[x] = NewStats
    <3>1. Top(x)' = 0
      BY <2>2 DEF Top
    <3>2. RingShape(x)'
      <4>1. ReceptionHistoryLimit \in Nat
        BY LimitsAssumption
      <4> QED BY <2>2, <3>1, <4>1 DEF RingShape, Minimum
    <3> QED BY <2>2, <3>1, <3>2 DEF NewStats, Outcomes
  <2> QED BY <1>3, <2>1, <2>2
<1>4. RingsExact' /\ StatsExact'
  BY <1>1, <1>3 DEF RingsExact, StatsExact, Working
<1> QED BY <1>1, <1>2, <1>4 DEF RingInv, LoopTimes, Working, PendingOrdered,
                                PendingComplete, PendingBounded

\* A report is sent at the instant of its tick, and is newer than what is staged.
LEMMA RingSend ==
  ASSUME TypeInv, CoherentInv, RingInv, Spawn \/ TickVessel
  PROVE  RingInv'
<1>1. /\ Working /\ Working' /\ pc' = "receive" /\ next'.sequence = next.sequence + 1
      /\ next'.elapsed = next.elapsed /\ UNCHANGED <<state, history, stats, batch>>
      /\ loop'.target = loop.target
  BY SendShape DEF Working, Spawn, TickVessel, Send
<1>2. /\ loop'.kind = loop.kind /\ loop'.tick = loop.tick /\ loop'.last = loop.last
      /\ loop'.applied = loop.applied /\ loop.tick \in Nat
  BY DEF Spawn, TickVessel, Send, TypeInv, TypeOK, ControlTypeOK, LoopRecord
<1>3. Now' = Now
  BY <1>1, <1>2 DEF Now
<1>4. Last(reports').timestamp = Now /\ (loop.kind = "advance" => loop.tick <= loop.last)
  <2>1. CASE Spawn
    <3>1. pc = "spawn" /\ loop.kind = "count" /\ next.elapsed = state.elapsed
      BY <1>1, <2>1 DEF Spawn, CoherentInv, ReportsLate
    <3> QED BY <3>1, ReportInstant DEF Now
  <2>2. CASE TickVessel
    <3>1. pc = "tick" /\ loop.kind = "advance" /\ loop.tick <= loop.last
      BY <2>2 DEF TickVessel, CoherentInv, ReportsLate
    <3> QED BY <3>1, ReportInstant DEF Now
  <2> QED BY <2>1, <2>2
<1>5. LoopTimes'
  BY <1>1, <1>2, <1>3, <1>4 DEF RingInv, LoopTimes
<1>6. Pending' = Pending
  BY <1>1, <1>2 DEF Pending, Working
<1>7. PendingBounded'
  <2>1. next.sequence \in Nat
    BY DEF TypeInv, TypeOK, StateTypeOK, StateRecord
  <2>2. ASSUME NEW k \in Pending
        PROVE  /\ batch.records[k].transmission <= next.sequence
               /\ batch.records[k].transmission \in Nat
               /\ batch.records[k].timestamp <= Now /\ batch.records[k].timestamp <= loop.target
    <3>1. batch.records[k] \in ReceptionRecord
      BY PendingFacts
    <3> QED BY <1>1, <3>1, ReceptionFields DEF RingInv, PendingBounded
  <2>3. ASSUME NEW k \in Pending
        PROVE  batch.records[k].transmission < next.sequence + 1
               /\ batch.records[k].transmission <= next.sequence + 1
    BY <2>1, <2>2
  <2> QED BY <1>1, <1>3, <1>6, <2>2, <2>3 DEF PendingBounded
<1> QED BY <1>1, <1>5, <1>7, RingWorking

\* The next tick is later than all that is staged.
LEMMA RingTickEnd ==
  ASSUME TypeInv, CoherentInv, RingInv, TickEnd
  PROVE  RingInv'
<1>1. /\ pc = "tick" /\ pc' = "tick" /\ Working /\ Working'
      /\ UNCHANGED <<state, history, stats, batch>>
      /\ next'.sequence = next.sequence
      /\ loop'.kind = loop.kind /\ loop'.tick = loop.tick + 1 /\ loop'.last = loop.last
      /\ loop'.applied = loop.applied /\ loop'.target = loop.target
      /\ loop.tick \in Nat /\ loop.kind = "advance"
  BY DEF TickEnd, Working, TypeInv, TypeOK, StateTypeOK, ControlTypeOK, StateRecord,
         LoopRecord, CoherentInv, ReportsLate
<1>2. LoopTimes'
  BY <1>1 DEF RingInv, LoopTimes
<1>3. Pending' = Pending
  BY <1>1 DEF Pending
<1>4. /\ Now \in Nat /\ Now' \in Nat /\ Now <= Now'
  <2>1. TickInterval \in Nat
    BY LimitsAssumption
  <2>2. (loop.tick + 1) * TickInterval = loop.tick * TickInterval + TickInterval
        /\ loop.tick * TickInterval \in Nat
    BY <1>1, <2>1
  <2>3. Now = loop.tick * TickInterval /\ Now' = (loop.tick + 1) * TickInterval
    BY <1>1 DEF Now
  <2> QED BY <2>1, <2>2, <2>3
<1>5. ASSUME NEW k \in Pending
      PROVE  /\ batch.records[k].transmission <= next.sequence
             /\ batch.records[k].timestamp <= loop.target /\ batch.records[k].timestamp <= Now'
  <2>1. batch.records[k].timestamp \in Nat
    BY PendingFacts, ReceptionFields
  <2>2. /\ batch.records[k].transmission <= next.sequence
        /\ batch.records[k].timestamp <= loop.target /\ batch.records[k].timestamp <= Now
    BY <1>1 DEF RingInv, PendingBounded
  <2> QED BY <1>4, <2>1, <2>2
<1>6. PendingBounded'
  BY <1>1, <1>3, <1>5 DEF PendingBounded
<1> QED BY <1>1, <1>2, <1>6, RingWorking

\* No station is left to be asked about the report.
LEMMA RingReceiveEnd ==
  ASSUME TypeInv, RingInv, ReceiveEnd
  PROVE  RingInv'
<1>1. /\ pc = "receive" /\ pc' \in {"spawn", "tick"} /\ Working /\ Working'
      /\ UNCHANGED <<state, history, stats, next>>
      /\ batch'.records = batch.records /\ batch'.stats = batch.stats
      /\ loop'.kind = loop.kind /\ loop'.tick = loop.tick /\ loop'.last = loop.last
      /\ loop'.applied = loop.applied /\ loop'.target = loop.target
  BY DEF ReceiveEnd, Working, TypeInv, TypeOK, ControlTypeOK, BatchTypeOK, LoopRecord
<1>2. LoopTimes'
  BY <1>1 DEF RingInv, LoopTimes
<1>3. Pending' = Pending /\ Now' = Now
  BY <1>1 DEF Pending, Now
<1>4. PendingBounded'
  BY <1>1, <1>3 DEF RingInv, PendingBounded
<1> QED BY <1>1, <1>2, <1>4, RingWorking

\* advance ends no earlier than its last tick.
LEMMA RingAdvance ==
  ASSUME TypeInv, RingInv, NEW n \in StateRecord, NEW delta \in Nat, NEW credit,
         n.elapsed = state.elapsed, n.stations = state.stations,
         StartAdvance(n, delta, credit)
  PROVE  RingInv'
<1> DEFINE target == state.elapsed + delta
           last == target \div TickInterval
<1>1. /\ pc = "idle" /\ pc' = "tick" /\ UNCHANGED <<state, history, stats>>
      /\ batch' = StageReceptions(state.stations)
      /\ loop'.kind = "advance" /\ loop'.applied = 0
      /\ loop'.last = last /\ loop'.target = target
  BY DEF StartAdvance, NoLoop, Idle
<1>2. last * TickInterval <= target
  <2>1. target \in Nat /\ TickInterval \in Nat \ {0}
    <3>1. state.elapsed \in Nat
      BY StateFields
    <3>2. TickInterval \in Nat \ {0}
      BY LimitsAssumption
    <3> QED BY <3>1, <3>2
  <2> HIDE DEF target
  <2>2. /\ target = TickInterval * last + (target % TickInterval)
        /\ target % TickInterval \in Nat /\ last \in Nat
    BY <2>1, DivMod
  <2> HIDE DEF last
  <2>3. last * TickInterval = TickInterval * last /\ TickInterval * last \in Nat
    BY <2>1, <2>2
  <2> QED BY <2>1, <2>2, <2>3
<1>3. LoopTimes'
  BY <1>1, <1>2 DEF LoopTimes
<1> QED BY <1>1, <1>3, RingBegin

\* Every step keeps the rings, the counters and what is pending consistent.
LEMMA RingStep ==
  TypeInv /\ TypeInv' /\ HistoryInv /\ ClockInv /\ CoherentInv /\ RingInv /\ [Next]_vars => RingInv'
<1> SUFFICES ASSUME TypeInv, TypeInv', HistoryInv, ClockInv, CoherentInv, RingInv, [Next]_vars
             PROVE  RingInv'
  OBVIOUS
<1>0. /\ state \in StateRecord /\ DOMAIN stats = StationIDs /\ DOMAIN history = StationIDs
      /\ DOMAIN stats' = StationIDs' /\ DOMAIN history' = StationIDs'
  BY DEF TypeInv, TypeOK, StateTypeOK, StatsTypeOK
<1>1. ASSUME NEW count \in 0..MaxVessels, BeginSetCount(count) PROVE RingInv'
  <2>1. /\ pc = "idle" /\ pc' = "spawn" /\ UNCHANGED <<state, history, stats>>
        /\ batch' = StageReceptions(state.stations)
        /\ loop'.kind = "count" /\ loop'.applied = 0 /\ loop'.target = state.elapsed
    BY <1>1 DEF BeginSetCount, NoLoop, Idle
  <2>2. LoopTimes'
    BY <2>1 DEF LoopTimes
  <2> QED BY <2>1, <2>2, RingBegin
<1>2. ASSUME NEW delta \in VirtualDeltas, BeginAdvance(delta) PROVE RingInv'
  <2>1. delta \in Nat
    BY InputsAssumption
  <2> QED BY <1>0, <1>2, <2>1, RingAdvance DEF BeginAdvance
<1>3. ASSUME NEW delta \in RealDeltas, BeginElapse(delta) PROVE RingInv'
  <2> DEFINE scaled == delta * state.speed + state.remainder
             n == [state EXCEPT !.remainder = scaled % SpeedScale]
  <2>1. scaled % SpeedScale \in Nat /\ scaled \div SpeedScale \in Nat
    <3>1. delta * state.speed \in Nat /\ state.remainder \in Nat /\ SpeedScale \in Nat \ {0}
      <4>1. delta \in Nat /\ state.speed \in Nat /\ state.remainder \in Nat
        BY StateFields, InputsAssumption
      <4> QED BY <4>1, LimitsAssumption
    <3>2. scaled \in Nat
      BY <3>1
    <3> HIDE DEF scaled
    <3> QED BY <3>1, <3>2, DivMod
  <2>2. StartAdvance(n, scaled \div SpeedScale, delta * state.speed)
    BY <1>3 DEF BeginElapse
  <2> HIDE DEF scaled
  <2>3. n \in StateRecord /\ n.elapsed = state.elapsed /\ n.stations = state.stations
    BY <1>0, <2>1 DEF StateRecord
  <2> HIDE DEF n
  <2> QED BY <2>1, <2>2, <2>3, RingAdvance
<1>4. ASSUME NEW speed \in Speeds, SetSpeed(speed) PROVE RingInv'
  <2>1. /\ state'.sequence = state.sequence /\ state'.elapsed = state.elapsed
        /\ state'.stations = state.stations /\ UNCHANGED <<history, stats, pc>> /\ Idle
    BY <1>0, <1>4 DEF SetSpeed, StateRecord
  <2> QED BY <2>1, RingEdit DEF StationIDs
<1>5. ASSUME NEW expected \in FirstRevision..MaxRevision, NEW d \in Definitions,
             AddStation(expected, d)
      PROVE  RingInv'
  <2> DEFINE id == state.lastStationID + 1
  <2>1. /\ state'.sequence = state.sequence /\ state'.elapsed = state.elapsed
        /\ Idle /\ pc' = pc
        /\ stats' = [k \in DOMAIN stats \cup {id} |-> IF k = id THEN NewStats ELSE stats[k]]
        /\ history' = [k \in DOMAIN history \cup {id} |-> IF k = id THEN <<>> ELSE history[k]]
    BY <1>0, <1>5 DEF AddStation, NextStationID, StateRecord
  <2> HIDE DEF id
  <2>2. ASSUME NEW x \in StationIDs'
        PROVE  \/ x \in StationIDs /\ history'[x] = history[x] /\ stats'[x] = stats[x]
               \/ history'[x] = <<>> /\ stats'[x] = NewStats
    <3>1. x \in StationIDs \cup {id}
      BY <1>0, <2>1, <2>2
    <3>2. CASE x = id
      BY <1>0, <2>1, <3>2
    <3>3. CASE x # id
      BY <1>0, <2>1, <3>1, <3>3
    <3> QED BY <3>2, <3>3
  <2> QED BY <2>1, <2>2, RingEdit
<1>6. ASSUME NEW expected \in FirstRevision..MaxRevision, NEW id \in StationIDs,
             NEW d \in Definitions, UpdateStation(expected, id, d)
      PROVE  RingInv'
  <2>1. /\ state'.sequence = state.sequence /\ state'.elapsed = state.elapsed
        /\ Idle /\ pc' = pc /\ UNCHANGED <<history, stats>>
    BY <1>0, <1>6 DEF UpdateStation, StateRecord
  <2>2. StationIDs' = StationIDs
    BY <1>0, <2>1
  <2> QED BY <2>1, <2>2, RingEdit
<1>7. ASSUME NEW expected \in FirstRevision..MaxRevision, NEW id \in StationIDs,
             RemoveStation(expected, id)
      PROVE  RingInv'
  <2>1. /\ state'.sequence = state.sequence /\ state'.elapsed = state.elapsed
        /\ Idle /\ pc' = pc
        /\ stats' = [k \in DOMAIN stats \ {id} |-> stats[k]]
        /\ history' = [k \in DOMAIN history \ {id} |-> history[k]]
    BY <1>0, <1>7 DEF RemoveStation, Without, StateRecord
  <2>2. \A x \in StationIDs' :
          x \in StationIDs /\ history'[x] = history[x] /\ stats'[x] = stats[x]
    BY <1>0, <2>1
  <2> QED BY <2>1, <2>2, RingEdit
<1>8. CASE Spawn \/ TickVessel
  BY <1>8, RingSend
<1>9. CASE TickEnd
  BY <1>9, RingTickEnd
<1>10. CASE SpawnFails \/ Cancel \/ ReceiveFails
  <2>1. state' = state /\ UNCHANGED <<history, stats>> /\ pc' = "idle" /\ pc # "apply"
    BY <1>10 DEF SpawnFails, Cancel, ReceiveFails, Drop
  <2> QED BY <2>1, RingIdle DEF StationIDs
<1>11. ASSUME NEW outcome \in Outcomes, Receive(outcome) PROVE RingInv'
  BY <1>11, RingReceive
<1>12. CASE ReceiveEnd
  BY <1>12, RingReceiveEnd
<1>13. CASE Commit
  BY <1>13, RingCommit
<1>14. CASE ApplyRecord
  BY <1>14, RingApply
<1>15. CASE Finish
  BY <1>15, RingFinish
<1>16. CASE UNCHANGED vars
  <2>1. UNCHANGED <<state, history, stats, pc, next, reports, batch, loop>>
    BY <1>16 DEF vars
  <2>2. Pending' = Pending /\ Now' = Now /\ StationIDs' = StationIDs /\ Working' = Working
        /\ \A x : Top(x)' = Top(x)
    BY <2>1, TopSame DEF Pending, Now, StationIDs, Working
  <2>3. \A i : StagedLast(i)' = StagedLast(i)
    BY <2>1, <2>2 DEF StagedLast
  <2>4. RingsExact' /\ StatsExact' /\ LoopTimes'
    BY <2>1, <2>2 DEF RingInv, RingsExact, RingShape, StatsExact, LoopTimes
  <2>5. PendingOrdered' /\ PendingBounded'
    BY <2>1, <2>2 DEF RingInv, PendingOrdered, PendingBounded
  <2>6. PendingComplete'
    BY <2>1, <2>2, <2>3 DEF RingInv, PendingComplete
  <2> QED BY <2>4, <2>5, <2>6 DEF RingInv
<1> QED BY <1>1, <1>2, <1>3, <1>4, <1>5, <1>6, <1>7, <1>8, <1>9, <1>10, <1>11, <1>12,
           <1>13, <1>14, <1>15, <1>16 DEF Next

-----------------------------------------------------------------------------
(***************************************************************************)
(* Observations: what removing and recording do                            *)
(***************************************************************************)
\* evict finds a target: a smallest set of targets without one could lose a target.
LEMMA VictimExists ==
  ASSUME NEW ts, TargetsType(ts), IsFiniteSet(DOMAIN ts), DOMAIN ts # {}
  PROVE  Victim(ts) \in DOMAIN ts
<1> DEFINE Before(m, n) == \/ ts[m].receivedAt < ts[n].receivedAt
                           \/ (ts[m].receivedAt = ts[n].receivedAt /\ m < n)
           HasFirst(T) == \E m \in T : \A n \in T \ {m} : Before(m, n)
           Bad == {T \in SUBSET DOMAIN ts : T # {} /\ ~HasFirst(T)}
<1>1. \A m \in DOMAIN ts : m \in Nat /\ ts[m].receivedAt \in Nat
  BY DEF TargetsType, TargetRecord
<1>2. \A m, n \in DOMAIN ts : m # n => Before(m, n) \/ Before(n, m)
  BY <1>1
<1>3. \A m, n, o \in DOMAIN ts : Before(m, n) /\ Before(n, o) => Before(m, o)
  BY <1>1
<1> HIDE DEF Before
<1>4. Bad = {}
  <2> SUFFICES ASSUME Bad # {} PROVE FALSE
    OBVIOUS
  <2>1. Bad \subseteq FiniteSubsetsOf(DOMAIN ts)
    BY FS_FiniteSubsetsOfFinite
  <2> HIDE DEF Bad
  <2>2. PICK T \in Bad : \A U \in Bad : <<U, T>> \notin StrictSubsetOrdering(DOMAIN ts)
    BY <2>1, WFMin, FS_StrictSubsetOrderingWellFounded
  <2>3. T \subseteq DOMAIN ts /\ T # {} /\ ~HasFirst(T)
    BY DEF Bad
  <2>4. PICK x \in T : TRUE
    BY <2>3
  <2>5. T \ {x} \notin Bad
    BY <2>2, <2>3, <2>4 DEF StrictSubsetOrdering
  <2>6. CASE T \ {x} = {}
    BY <2>3, <2>4, <2>6
  <2>7. CASE HasFirst(T \ {x})
    <3>1. PICK m \in T \ {x} : \A n \in (T \ {x}) \ {m} : Before(m, n)
      BY <2>7
    <3>2. CASE Before(m, x)
      <4>1. \A n \in T \ {m} : Before(m, n)
        BY <3>1, <3>2
      <4> QED BY <2>3, <3>1, <4>1
    <3>3. CASE Before(x, m)
      <4>1. \A n \in T \ {x} : Before(x, n)
        BY <1>3, <2>3, <3>1, <3>3
      <4> QED BY <2>3, <4>1
    <3>4. m # x /\ m \in DOMAIN ts /\ x \in DOMAIN ts
      BY <2>3, <3>1
    <3> QED BY <1>2, <3>2, <3>3, <3>4
  <2> QED BY <2>3, <2>5, <2>6, <2>7 DEF Bad
<1>5. HasFirst(DOMAIN ts)
  BY <1>4
<1> QED BY <1>5 DEF Victim, Before

\* removeObservations removes those and no others, and stays sound.
LEMMA RemoveFits ==
  ASSUME NEW ts, NEW gone, NEW at, TargetsType(ts), TargetsFit(ts, at)
  PROVE  /\ TargetsFit(RemoveObservations(ts, gone), at)
         /\ AllObservations(RemoveObservations(ts, gone)) = AllObservations(ts) \ gone
<1> DEFINE rs == RemoveObservations(ts, gone)
           kept(m) == ts[m].observations \ gone
<1>1. DOMAIN rs = {m \in DOMAIN ts : kept(m) # {}}
  BY DEF RemoveObservations
<1>2. IsFiniteSet(DOMAIN rs) /\ Cardinality(DOMAIN rs) <= TargetLimit
  <2>1. DOMAIN rs \in SUBSET DOMAIN ts
    BY <1>1
  <2> HIDE DEF rs
  <2>2. /\ IsFiniteSet(DOMAIN rs) /\ Cardinality(DOMAIN rs) <= Cardinality(DOMAIN ts)
        /\ IsFiniteSet(DOMAIN ts) /\ Cardinality(DOMAIN ts) <= TargetLimit
    BY <2>1, FS_Subset DEF TargetsFit
  <2>3. /\ Cardinality(DOMAIN rs) \in Nat /\ Cardinality(DOMAIN ts) \in Nat
        /\ TargetLimit \in Nat
    BY <2>2, FS_CardinalityType, LimitsAssumption
  <2> QED BY <2>2, <2>3
<1>3. ASSUME NEW m \in DOMAIN rs
      PROVE  rs[m].observations = kept(m) /\ TargetSound(m, rs[m], at)
  <2>1. m \in DOMAIN ts /\ kept(m) # {}
    BY <1>1
  <2>2. /\ ts[m] \in TargetRecord /\ IsFiniteSet(ts[m].observations) /\ TargetSound(m, ts[m], at)
    BY <2>1 DEF TargetsType, TargetsFit
  <2>3. CASE kept(m) = ts[m].observations
    BY <1>1, <2>1, <2>2, <2>3 DEF RemoveObservations
  <2>4. CASE kept(m) # ts[m].observations
    <3> DEFINE K == kept(m)
               x == Max(Timestamps(K))
    <3>1. rs[m] = [observations |-> K, receivedAt |-> x]
      BY <2>1, <2>4 DEF RemoveObservations
    <3>2. K \in SUBSET ReceptionRecord /\ IsFiniteSet(K) /\ K \subseteq ts[m].observations /\ K # {}
      BY <2>1, <2>2, FS_Difference DEF TargetRecord
    <3> HIDE DEF K
    <3>3. Timestamps(K) # {}
      BY <3>2 DEF Timestamps
    <3>4. x \in Timestamps(K) /\ \A y \in Timestamps(K) : y <= x
      BY <3>2, <3>3, TimestampsFinite, FiniteMax
    <3> HIDE DEF x
    <3>5. /\ \E r \in K : r.timestamp = x
          /\ \A r \in K : r.timestamp <= x
      BY <3>4 DEF Timestamps
    <3>6. rs[m].observations = K /\ rs[m].receivedAt = x
      BY <3>1
    <3>7. TargetSound(m, rs[m], at)
      BY <2>2, <3>2, <3>5, <3>6 DEF TargetSound
    <3> QED BY <3>6, <3>7 DEF K
  <2> QED BY <2>3, <2>4
<1>4. AllObservations(rs) = AllObservations(ts) \ gone
  <2>1. ASSUME NEW r \in AllObservations(rs) PROVE r \in AllObservations(ts) \ gone
    <3>1. PICK m \in DOMAIN rs : r \in rs[m].observations
      BY DEF AllObservations
    <3>2. m \in DOMAIN ts /\ r \in ts[m].observations \ gone
      BY <1>1, <1>3, <3>1
    <3> QED BY <3>2 DEF AllObservations
  <2>2. ASSUME NEW r \in AllObservations(ts) \ gone PROVE r \in AllObservations(rs)
    <3>1. PICK m \in DOMAIN ts : r \in ts[m].observations
      BY DEF AllObservations
    <3>2. m \in DOMAIN rs /\ r \in rs[m].observations
      BY <1>1, <1>3, <3>1
    <3> QED BY <3>2 DEF AllObservations
  <2> HIDE DEF rs
  <2> QED BY <2>1, <2>2
<1> HIDE DEF rs
<1>5. TargetsFit(rs, at)
  BY <1>2, <1>3 DEF TargetsFit
<1> QED BY <1>4, <1>5 DEF rs

\* Two receptions of one MMSI at one station: the later replaces the earlier.
Replaces(r, o) == o.mmsi = r.mmsi /\ o.station = r.station

\* record stays bounded and sound, and forgets nothing but the reception that r
\* replaces unless it evicts.
LEMMA RecordFits ==
  ASSUME NEW ts, NEW r \in ReceptionRecord, NEW at,
         TargetsType(ts), TargetsFit(ts, at), r.timestamp <= at,
         \A o \in AllObservations(ts) : o.timestamp <= r.timestamp
  PROVE  LET obs == AllObservations(Record(ts, r))
         IN /\ TargetsFit(Record(ts, r), at)
            /\ r \in obs
            /\ \A o \in obs : o = r \/ (o \in AllObservations(ts) /\ ~Replaces(r, o))
            /\ ~MustEvict(ts, r) =>
                 \A o \in AllObservations(ts) : Replaces(r, o) \/ o \in obs
<1> DEFINE rs == Record(ts, r)
           room == IF MustEvict(ts, r) THEN DOMAIN ts \ {Victim(ts)} ELSE DOMAIN ts
           new == Others(ts, r) \cup {r}
<1>1. /\ DOMAIN rs = room \cup {r.mmsi}
      /\ rs[r.mmsi].observations = new /\ rs[r.mmsi].receivedAt = r.timestamp
      /\ \A m \in room : m # r.mmsi => rs[m] = ts[m]
  BY DEF Record
<1>2. /\ IsFiniteSet(DOMAIN ts) /\ Cardinality(DOMAIN ts) \in Nat
      /\ Cardinality(DOMAIN ts) <= TargetLimit /\ TargetLimit \in Nat \ {0}
  <2>1. TargetLimit \in Nat \ {0}
    BY LimitsAssumption
  <2> QED BY <2>1, FS_CardinalityType DEF TargetsFit
<1> HIDE DEF rs
<1>3. IsFiniteSet(DOMAIN rs) /\ Cardinality(DOMAIN rs) <= TargetLimit
  <2>1. CASE MustEvict(ts, r)
    <3>1. /\ r.mmsi \notin DOMAIN ts /\ Cardinality(DOMAIN ts) = TargetLimit
      BY <1>2, <2>1 DEF MustEvict
    <3>2. DOMAIN ts # {}
      BY <1>2, <3>1, FS_EmptySet
    <3>3. Victim(ts) \in DOMAIN ts
      BY <1>2, <3>2, VictimExists
    <3>4. /\ IsFiniteSet(DOMAIN ts \ {Victim(ts)})
          /\ Cardinality(DOMAIN ts \ {Victim(ts)}) = TargetLimit - 1
      BY <1>2, <3>1, <3>3, FS_RemoveElement
    <3>5. DOMAIN rs = (DOMAIN ts \ {Victim(ts)}) \cup {r.mmsi}
      BY <1>1, <2>1
    <3>6. /\ IsFiniteSet(DOMAIN rs) /\ Cardinality(DOMAIN rs) = TargetLimit - 1 + 1
      BY <3>1, <3>4, <3>5, FS_AddElement
    <3> QED BY <1>2, <3>6
  <2>2. CASE ~MustEvict(ts, r)
    <3>1. DOMAIN rs = DOMAIN ts \cup {r.mmsi}
      BY <1>1, <2>2
    <3>2. /\ IsFiniteSet(DOMAIN rs)
          /\ Cardinality(DOMAIN rs) = IF r.mmsi \in DOMAIN ts THEN Cardinality(DOMAIN ts)
                                                              ELSE Cardinality(DOMAIN ts) + 1
      BY <1>2, <3>1, FS_AddElement
    <3> QED BY <1>2, <2>2, <3>2 DEF MustEvict
  <2> QED BY <2>1, <2>2
<1>4. \A o \in Others(ts, r) :
        /\ r.mmsi \in DOMAIN ts /\ o \in ts[r.mmsi].observations /\ o.station # r.station
        /\ o.mmsi = r.mmsi /\ o.timestamp <= r.timestamp /\ o.timestamp <= at
        /\ o \in AllObservations(ts)
  <2> SUFFICES ASSUME NEW o \in Others(ts, r)
               PROVE  /\ r.mmsi \in DOMAIN ts /\ o \in ts[r.mmsi].observations
                      /\ o.station # r.station
                      /\ o.mmsi = r.mmsi /\ o.timestamp <= r.timestamp /\ o.timestamp <= at
                      /\ o \in AllObservations(ts)
    OBVIOUS
  <2>1. r.mmsi \in DOMAIN ts /\ o \in ts[r.mmsi].observations /\ o.station # r.station
    BY DEF Others
  <2>2. o \in AllObservations(ts)
    BY <2>1 DEF AllObservations
  <2> QED BY <2>1, <2>2 DEF TargetsFit, TargetSound
<1>5. TargetSound(r.mmsi, rs[r.mmsi], at)
  <2>1. r.timestamp <= r.timestamp
    BY ReceptionFields
  <2>2. ASSUME NEW o \in new, NEW q \in new, o.station = q.station PROVE o = q
    BY <1>4, <2>2 DEF TargetsFit, TargetSound
  <2> QED BY <1>1, <1>4, <2>1, <2>2 DEF TargetSound
<1>6. TargetsFit(rs, at)
  <2>1. ASSUME NEW m \in DOMAIN rs, m # r.mmsi PROVE TargetSound(m, rs[m], at)
    BY <1>1, <2>1 DEF TargetsFit
  <2> QED BY <1>3, <1>5, <2>1 DEF TargetsFit
<1>7. r \in AllObservations(rs)
  BY <1>1 DEF AllObservations
<1>8. ASSUME NEW o \in AllObservations(rs)
      PROVE  o = r \/ (o \in AllObservations(ts) /\ ~Replaces(r, o))
  <2>1. PICK m \in DOMAIN rs : o \in rs[m].observations
    BY DEF AllObservations
  <2>2. CASE m = r.mmsi
    BY <1>1, <1>4, <2>1, <2>2 DEF Replaces
  <2>3. CASE m # r.mmsi
    <3>1. m \in DOMAIN ts /\ o \in ts[m].observations
      BY <1>1, <2>1, <2>3
    <3>2. o.mmsi = m
      BY <3>1 DEF TargetsFit, TargetSound
    <3> QED BY <2>3, <3>1, <3>2 DEF AllObservations, Replaces
  <2> QED BY <2>2, <2>3
<1>9. ASSUME ~MustEvict(ts, r), NEW o \in AllObservations(ts), ~Replaces(r, o)
      PROVE  o \in AllObservations(rs)
  <2>1. PICK m \in DOMAIN ts : o \in ts[m].observations
    BY DEF AllObservations
  <2>2. o.mmsi = m /\ m \in DOMAIN rs
    BY <1>1, <1>9, <2>1 DEF TargetsFit, TargetSound
  <2>3. o \in rs[m].observations
    <3>1. CASE m = r.mmsi
      <4>1. o \in Others(ts, r)
        BY <1>9, <2>1, <2>2, <3>1 DEF Others, Replaces
      <4> QED BY <1>1, <3>1, <4>1
    <3>2. CASE m # r.mmsi
      BY <1>1, <1>9, <2>1, <3>2
    <3> QED BY <3>1, <3>2
  <2> QED BY <2>2, <2>3 DEF AllObservations
<1> QED BY <1>6, <1>7, <1>8, <1>9 DEF rs

-----------------------------------------------------------------------------
(***************************************************************************)
(* Observations: the steps                                                 *)
(***************************************************************************)
\* An observation is a reception, of the committed instant at the latest.
LEMMA ObservationFacts ==
  ASSUME TypeInv, ObservationsInv
  PROVE  /\ TargetsType(targets) /\ state.elapsed \in Nat
         /\ \A o \in AllObservations(targets) :
              o \in ReceptionRecord /\ o.timestamp \in Nat /\ o.timestamp <= state.elapsed
<1>1. TargetsType(targets) /\ state.elapsed \in Nat
  BY TargetsTypeEquiv, StateFields DEF TypeInv, TypeOK
<1>2. ASSUME NEW o \in AllObservations(targets)
      PROVE  o \in ReceptionRecord /\ o.timestamp \in Nat /\ o.timestamp <= state.elapsed
  <2>1. PICK m \in DOMAIN targets : o \in targets[m].observations
    BY DEF AllObservations
  <2>2. o \in ReceptionRecord
    BY <1>1, <2>1 DEF TargetsType, TargetRecord
  <2>3. o.timestamp <= state.elapsed
    BY <2>1 DEF ObservationsInv, TargetsFit, TargetSound
  <2> QED BY <2>2, <2>3, ReceptionFields
<1> QED BY <1>1, <1>2

\* A step that neither records nor removes an observation.
LEMMA ObservationsKept ==
  ASSUME TypeInv, ObservationsInv, targets' = targets, StationIDs \subseteq StationIDs',
         state'.elapsed \in Nat, state'.elapsed >= state.elapsed,
         pc' = "apply" \/ (pc # "apply" /\ state'.elapsed = state.elapsed),
         \A k \in Pending' : \A o \in AllObservations(targets) :
           o.timestamp <= batch'.records[k].timestamp
  PROVE  ObservationsInv'
<1>1. TargetsFit(targets, state'.elapsed)
  <2>1. ASSUME NEW m \in DOMAIN targets PROVE TargetSound(m, targets[m], state'.elapsed)
    <3>1. TargetSound(m, targets[m], state.elapsed)
      BY DEF ObservationsInv, TargetsFit
    <3>2. \A o \in targets[m].observations : o.timestamp <= state'.elapsed
      <4> SUFFICES ASSUME NEW o \in targets[m].observations PROVE o.timestamp <= state'.elapsed
        OBVIOUS
      <4>1. o \in AllObservations(targets)
        BY DEF AllObservations
      <4> QED BY <4>1, ObservationFacts
    <3> QED BY <3>1, <3>2 DEF TargetSound
  <2> QED BY <2>1 DEF ObservationsInv, TargetsFit
<1>2. ASSUME NEW o \in AllObservations(targets)
      PROVE  /\ o.station \in StationIDs'
             /\ pc' # "apply" => state'.elapsed - o.timestamp < ExpiryAge
  BY DEF ObservationsInv
<1> QED BY <1>1, <1>2 DEF ObservationsInv

\* What one opportunity stages carries the instant of the report.
LEMMA ReceiveShape ==
  ASSUME TypeInv, RingInv, NEW outcome, Receive(outcome)
  PROVE  \A k \in Pending' : \/ k \in Pending /\ batch'.records[k] = batch.records[k]
                             \/ batch'.records[k].timestamp = Now
<1> DEFINE t == Last(reports)
           st == next.stations[loop.station]
           counted == Count(batch.stats[loop.station], outcome, t.channel,
                            t.timestamp \div TickInterval)
           r == Reception(st, counted.lastReception, t)
           b == batch.records
           l == Len(b)
<1>1. /\ pc = "receive" /\ pc' = pc /\ Working /\ loop.applied = 0 /\ loop'.applied = 0
      /\ t.timestamp = Now
  BY DEF Receive, Working, RingInv, LoopTimes, TypeInv, TypeOK, ControlTypeOK, LoopRecord
<1>2. r.timestamp = Now
  BY <1>1 DEF Reception
<1> HIDE DEF counted
<1>3. batch'.records = IF outcome = "received" THEN Append(b, r) ELSE b
  BY DEF Receive, TypeInv, TypeOK, BatchTypeOK, counted
<1> HIDE DEF t, r
<1>4. CASE outcome = "received"
  <2> DEFINE T == ReceptionRecord \cup {r}
             a == Append(b, r)
  <2>1. b \in Seq(T) /\ r \in T /\ l \in Nat
    BY SeqMonotonic, PendingFacts
  <2>2. batch'.records = a
    BY <1>3, <1>4
  <2> HIDE DEF T, b
  <2>3. /\ Len(a) = l + 1 /\ a[l + 1] = r
        /\ \A k \in 1..l : a[k] = b[k]
    BY <2>1, AppendProperties
  <2> HIDE DEF a
  <2>4. Pending = 1..l
    BY <1>1 DEF Pending, b
  <2>5. Pending' = 1..(l + 1)
    BY <1>1, <2>2, <2>3 DEF Pending
  <2>6. \A k \in 1..(l + 1) : k \in 1..l \/ k = l + 1
    BY <2>1
  <2> QED BY <1>2, <2>2, <2>3, <2>4, <2>5, <2>6 DEF b
<1>5. CASE outcome # "received"
  BY <1>1, <1>3, <1>5 DEF Pending
<1> QED BY <1>4, <1>5

\* What is left before r is recorded.
LEMMA CurrentFacts ==
  ASSUME TypeInv, ObservationsInv, NEW r
  PROVE  LET current == ExpiredBefore(r)
         IN /\ TargetsType(current) /\ TargetsFit(current, state.elapsed)
            /\ AllObservations(current) \subseteq AllObservations(targets)
            /\ \A o \in AllObservations(targets) :
                 r.timestamp - o.timestamp >= ExpiryAge \/ o \in AllObservations(current)
<1> DEFINE at == r.timestamp
           gone == {o \in AllObservations(targets) : at - o.timestamp >= ExpiryAge}
<1>1. TargetsType(targets) /\ TargetsFit(targets, state.elapsed)
  BY ObservationFacts DEF ObservationsInv
<1>2. Expire(targets, at) = RemoveObservations(targets, gone)
  BY DEF Expire
<1>3. CASE r.timestamp > loop.expired
  <2> HIDE DEF at
  <2>1. ExpiredBefore(r) = RemoveObservations(targets, gone)
    BY <1>2, <1>3 DEF ExpiredBefore, at
  <2>2. \A o \in AllObservations(targets) : o \in gone => at - o.timestamp >= ExpiryAge
    OBVIOUS
  <2> HIDE DEF gone
  <2>3. /\ TargetsType(RemoveObservations(targets, gone))
        /\ TargetsFit(RemoveObservations(targets, gone), state.elapsed)
        /\ AllObservations(RemoveObservations(targets, gone)) = AllObservations(targets) \ gone
    BY <1>1, RemoveObservationsType, RemoveFits
  <2> QED BY <2>1, <2>2, <2>3 DEF at
<1>4. CASE ~(r.timestamp > loop.expired)
  <2>1. ExpiredBefore(r) = targets
    BY <1>4 DEF ExpiredBefore
  <2> QED BY <1>1, <2>1
<1> QED BY <1>3, <1>4

\* One record applied: it is observed, what it replaces and what has expired are not.
LEMMA ApplyShape ==
  ASSUME TypeInv, CoherentInv, RingInv, ObservationsInv, ApplyRecord,
         NEW r, r = batch.records[loop.applied + 1]
  PROVE  /\ TargetsFit(targets', state.elapsed)
         /\ r \in AllObservations(targets')
         /\ \A o \in AllObservations(targets') :
              o = r \/ (o \in AllObservations(targets) /\ ~Replaces(r, o))
         /\ totals'.evictions = 0 =>
              /\ totals.evictions = 0
              /\ \A o \in AllObservations(targets) :
                   \/ Replaces(r, o)
                   \/ r.timestamp - o.timestamp >= ExpiryAge
                   \/ o \in AllObservations(targets')
<1> DEFINE current == ExpiredBefore(r)
<1>1. /\ targets' = Record(current, r)
      /\ totals'.evictions = totals.evictions + Bump(MustEvict(current, r))
      /\ totals.evictions \in Nat
  BY DEF ApplyRecord, TypeInv, TypeOK, ControlTypeOK
<1>2. /\ TargetsType(current) /\ TargetsFit(current, state.elapsed)
      /\ AllObservations(current) \subseteq AllObservations(targets)
      /\ \A o \in AllObservations(targets) :
           r.timestamp - o.timestamp >= ExpiryAge \/ o \in AllObservations(current)
  BY CurrentFacts
<1> HIDE DEF current
<1>3. /\ r \in ReceptionRecord /\ r.timestamp <= state.elapsed
      /\ loop.applied + 1 \in Pending
  BY NextPending
<1>4. \A o \in AllObservations(current) : o.timestamp <= r.timestamp
  BY <1>2, <1>3 DEF ObservationsInv
<1>5. /\ TargetsFit(targets', state.elapsed)
      /\ r \in AllObservations(targets')
      /\ \A o \in AllObservations(targets') :
           o = r \/ (o \in AllObservations(current) /\ ~Replaces(r, o))
      /\ ~MustEvict(current, r) =>
           \A o \in AllObservations(current) : Replaces(r, o) \/ o \in AllObservations(targets')
  BY <1>1, <1>2, <1>3, <1>4, RecordFits
<1>6. totals'.evictions = 0 => totals.evictions = 0 /\ ~MustEvict(current, r)
  BY <1>1 DEF Bump
<1> QED BY <1>2, <1>5, <1>6

\* A new run has observed nothing.
LEMMA ObservationsInit == Init => ObservationsInv /\ CompleteInv
<1> SUFFICES ASSUME Init PROVE ObservationsInv /\ CompleteInv
  OBVIOUS
<1>1. DOMAIN targets = {}
  BY DEF Init
<1>2. TargetLimit \in Nat \ {0}
  BY LimitsAssumption
<1>3. TargetsFit(targets, state.elapsed) /\ AllObservations(targets) = {}
  BY <1>1, <1>2, FS_EmptySet DEF TargetsFit, AllObservations
<1>4. ASSUME NEW id \in StationIDs PROVE DOMAIN history[id] = {}
  <2>1. /\ DOMAIN state.stations = DOMAIN InitialStations
        /\ \A i \in DOMAIN InitialStations : state.stations[i].id = i
    BY DEF Init, NewStation
  <2>2. id \in DOMAIN InitialStations
    BY <2>1 DEF StationIDs
  <2>3. history[id] = <<>>
    BY <2>2 DEF Init
  <2> QED BY <2>3
<1> QED BY <1>3, <1>4 DEF ObservationsInv, CompleteInv

\* A step that begins a call has nothing pending.
LEMMA BeginShape ==
  ASSUME TypeInv, \/ \E count \in 0..MaxVessels : BeginSetCount(count)
                  \/ \E delta \in VirtualDeltas : BeginAdvance(delta)
                  \/ \E delta \in RealDeltas : BeginElapse(delta)
  PROVE  /\ pc = "idle" /\ pc' \in {"spawn", "tick"} /\ Pending' = {}
         /\ UNCHANGED <<state, history, targets, totals>>
<1>1. /\ pc = "idle" /\ pc' \in {"spawn", "tick"} /\ UNCHANGED <<state, history, targets, totals>>
      /\ loop'.applied = 0 /\ batch'.records = <<>>
  <2>1. ASSUME NEW n, NEW delta, NEW credit, StartAdvance(n, delta, credit)
        PROVE  /\ pc = "idle" /\ pc' = "tick" /\ UNCHANGED <<state, history, targets, totals>>
               /\ loop'.applied = 0 /\ batch'.records = <<>>
    BY <2>1 DEF StartAdvance, Idle, NoLoop, StageReceptions
  <2>2. ASSUME NEW count, BeginSetCount(count)
        PROVE  /\ pc = "idle" /\ pc' = "spawn" /\ UNCHANGED <<state, history, targets, totals>>
               /\ loop'.applied = 0 /\ batch'.records = <<>>
    BY <2>2 DEF BeginSetCount, Idle, NoLoop, StageReceptions
  <2>3. CASE \E count \in 0..MaxVessels : BeginSetCount(count)
    BY <2>2, <2>3
  <2>4. CASE \E delta \in VirtualDeltas : BeginAdvance(delta)
    BY <2>1, <2>4 DEF BeginAdvance
  <2>5. CASE \E delta \in RealDeltas : BeginElapse(delta)
    <3>1. PICK delta \in RealDeltas : BeginElapse(delta)
      BY <2>5
    <3> QED BY <2>1, <3>1 DEF BeginElapse
  <2> QED BY <2>3, <2>4, <2>5
<1> QED BY <1>1 DEF Pending

\* No step makes an observation outlive its station or its age, or a pending
\* reception older than an observation.
LEMMA ObservationsStep ==
  TypeInv /\ TypeInv' /\ HistoryInv /\ ClockInv /\ CoherentInv /\ RingInv /\ ObservationsInv
    /\ [Next]_vars => ObservationsInv'
<1> SUFFICES ASSUME TypeInv, TypeInv', HistoryInv, ClockInv, CoherentInv, RingInv,
                    ObservationsInv, [Next]_vars
             PROVE  ObservationsInv'
  OBVIOUS
<1>0. /\ state \in StateRecord /\ state.elapsed \in Nat /\ state'.elapsed \in Nat
      /\ DOMAIN stats = StationIDs /\ DOMAIN stats' = StationIDs'
      /\ next \in StateRecord /\ loop \in LoopRecord /\ batch \in BatchRecord
  BY StateFields DEF TypeInv, TypeOK, StateTypeOK, StatsTypeOK, StateRecord, ControlTypeOK,
                     BatchTypeOK, BatchRecord
<1>1. CASE \/ \E count \in 0..MaxVessels : BeginSetCount(count)
           \/ \E delta \in VirtualDeltas : BeginAdvance(delta)
           \/ \E delta \in RealDeltas : BeginElapse(delta)
  BY <1>0, <1>1, BeginShape, ObservationsKept DEF StationIDs
<1>2. ASSUME NEW speed \in Speeds, SetSpeed(speed) PROVE ObservationsInv'
  <2>1. /\ state'.elapsed = state.elapsed /\ state'.stations = state.stations
        /\ targets' = targets /\ pc = "idle" /\ pc' = "idle"
    BY <1>0, <1>2 DEF SetSpeed, StateRecord, Idle
  <2> QED BY <1>0, <2>1, ObservationsKept DEF StationIDs, Pending
<1>3. ASSUME NEW expected \in FirstRevision..MaxRevision, NEW d \in Definitions,
             AddStation(expected, d)
      PROVE  ObservationsInv'
  <2>1. /\ state'.elapsed = state.elapsed /\ targets' = targets /\ pc = "idle" /\ pc' = "idle"
        /\ DOMAIN stats \subseteq DOMAIN stats'
    BY <1>0, <1>3 DEF AddStation, NextStationID, StateRecord, Idle
  <2> QED BY <1>0, <2>1, ObservationsKept DEF Pending
<1>4. ASSUME NEW expected \in FirstRevision..MaxRevision, NEW id \in StationIDs,
             NEW d \in Definitions, UpdateStation(expected, id, d)
      PROVE  ObservationsInv'
  <2>1. /\ state'.elapsed = state.elapsed /\ targets' = targets /\ stats' = stats
        /\ pc = "idle" /\ pc' = "idle"
    BY <1>0, <1>4 DEF UpdateStation, StateRecord, Idle
  <2> QED BY <1>0, <2>1, ObservationsKept DEF Pending
<1>5. ASSUME NEW expected \in FirstRevision..MaxRevision, NEW id \in StationIDs,
             RemoveStation(expected, id)
      PROVE  ObservationsInv'
  <2> DEFINE gone == {r \in AllObservations(targets) : r.station = id}
  <2>1. /\ state'.elapsed = state.elapsed /\ pc = "idle" /\ pc' = "idle"
        /\ DOMAIN stats' = DOMAIN stats \ {id}
        /\ targets' = RemoveObservations(targets, gone)
    BY <1>0, <1>5 DEF RemoveStation, Without, StateRecord, Idle
  <2>2. \A r \in AllObservations(targets) : r \notin gone => r.station # id
    OBVIOUS
  <2> HIDE DEF gone
  <2>3. /\ TargetsFit(targets', state.elapsed)
        /\ AllObservations(targets') = AllObservations(targets) \ gone
    BY <2>1, ObservationFacts, RemoveFits DEF ObservationsInv
  <2>4. \A r \in AllObservations(targets') :
          r.station \in StationIDs' /\ state.elapsed - r.timestamp < ExpiryAge
    BY <1>0, <2>1, <2>2, <2>3 DEF ObservationsInv
  <2> QED BY <2>1, <2>3, <2>4 DEF ObservationsInv, Pending
<1>6. CASE Spawn \/ TickVessel \/ TickEnd \/ ReceiveEnd
  <2>1. /\ UNCHANGED <<state, targets>> /\ batch'.records = batch.records
        /\ loop'.applied = loop.applied
        /\ pc # "idle" /\ pc' # "idle" /\ pc # "apply"
    BY <1>0, <1>6 DEF Spawn, TickVessel, Send, TickEnd, ReceiveEnd, LoopRecord, BatchRecord
  <2>2. Pending' = Pending
    BY <2>1 DEF Pending
  <2>3. \A k \in Pending : \A o \in AllObservations(targets) :
          o.timestamp <= batch.records[k].timestamp
    BY DEF ObservationsInv
  <2> QED BY <1>0, <2>1, <2>2, <2>3, ObservationsKept DEF StationIDs
<1>7. CASE SpawnFails \/ Cancel \/ ReceiveFails
  <2>1. UNCHANGED <<state, targets>> /\ pc' = "idle" /\ pc # "apply"
    BY <1>7 DEF SpawnFails, Cancel, ReceiveFails, Drop
  <2> QED BY <1>0, <2>1, ObservationsKept DEF StationIDs, Pending
<1>8. ASSUME NEW outcome \in Outcomes, Receive(outcome) PROVE ObservationsInv'
  <2>1. UNCHANGED <<state, targets>> /\ pc = "receive" /\ pc' = pc
    BY <1>8 DEF Receive
  <2>2. Now \in Nat /\ state.elapsed <= Now
    BY <2>1, ReportFacts
  <2>3. ASSUME NEW k \in Pending', NEW o \in AllObservations(targets)
        PROVE  o.timestamp <= batch'.records[k].timestamp
    <3>1. \/ k \in Pending /\ batch'.records[k] = batch.records[k]
          \/ batch'.records[k].timestamp = Now
      BY <1>8, ReceiveShape
    <3>2. CASE k \in Pending /\ batch'.records[k] = batch.records[k]
      BY <3>2 DEF ObservationsInv
    <3>3. CASE batch'.records[k].timestamp = Now
      <4>1. o.timestamp \in Nat /\ o.timestamp <= state.elapsed
        BY ObservationFacts
      <4> QED BY <1>0, <2>2, <3>3, <4>1
    <3> QED BY <3>1, <3>2, <3>3
  <2> QED BY <1>0, <2>1, <2>3, ObservationsKept DEF StationIDs
<1>9. CASE Commit
  <2>1. /\ targets' = targets /\ UNCHANGED <<batch, loop>> /\ pc # "idle" /\ pc' = "apply"
        /\ Working /\ state'.elapsed = loop.target /\ state'.stations = next.stations
    BY <1>0, <1>9 DEF Commit, Working, StateRecord
  <2>2. loop.target >= state.elapsed /\ next.stations = state.stations
    BY <2>1 DEF ClockInv, StagedClock, TypeInv, StagedShape, SameStations
  <2>3. Pending' = Pending
    BY <2>1 DEF Pending
  <2>4. \A k \in Pending : \A o \in AllObservations(targets) :
          o.timestamp <= batch.records[k].timestamp
    BY DEF ObservationsInv
  <2> QED BY <1>0, <2>1, <2>2, <2>3, <2>4, ObservationsKept DEF StationIDs
<1>10. CASE ApplyRecord
  <2>1. PICK r : r = batch.records[loop.applied + 1]
    OBVIOUS
  <2>2. /\ TargetsFit(targets', state.elapsed)
        /\ \A o \in AllObservations(targets') : o = r \/ o \in AllObservations(targets)
    BY <1>10, <2>1, ApplyShape
  <2>3. PICK k : k = loop.applied + 1
    OBVIOUS
  <2>4. /\ k \in Pending /\ Pending' = Pending \ {k} /\ \A j \in Pending : j >= k /\ j \in Nat
        /\ k \in Nat /\ r.station \in StationIDs
    BY <1>10, <2>1, <2>3, NextPending, PendingFacts
  <2>5. \A j \in Pending \ {k} : r.timestamp <= batch.records[j].timestamp
    BY <2>1, <2>3, <2>4 DEF RingInv, PendingOrdered
  <2>6. UNCHANGED <<state, batch>> /\ pc' = "apply"
    BY <1>10 DEF ApplyRecord
  <2>7. ASSUME NEW o \in AllObservations(targets')
        PROVE  /\ o.station \in StationIDs
               /\ \A j \in Pending \ {k} : o.timestamp <= batch.records[j].timestamp
    BY <2>2, <2>4, <2>5 DEF ObservationsInv
  <2> QED BY <2>2, <2>4, <2>6, <2>7 DEF ObservationsInv, StationIDs
<1>11. CASE Finish
  <2> DEFINE gone == {r \in AllObservations(targets) : state.elapsed - r.timestamp >= ExpiryAge}
  <2>1. /\ state' = state /\ pc' = "idle" /\ targets' = RemoveObservations(targets, gone)
    BY <1>11 DEF Finish, Drop, Expire
  <2>2. \A r \in AllObservations(targets) :
          r \notin gone => state.elapsed - r.timestamp < ExpiryAge
    <3> SUFFICES ASSUME NEW r \in AllObservations(targets), r \notin gone
                 PROVE  state.elapsed - r.timestamp < ExpiryAge
      OBVIOUS
    <3>1. r.timestamp \in Nat /\ ExpiryAge \in Nat
      BY ObservationFacts, LimitsAssumption
    <3>2. ~(state.elapsed - r.timestamp >= ExpiryAge)
      OBVIOUS
    <3> QED BY <1>0, <3>1, <3>2
  <2> HIDE DEF gone
  <2>3. /\ TargetsFit(targets', state.elapsed)
        /\ AllObservations(targets') = AllObservations(targets) \ gone
    BY <2>1, ObservationFacts, RemoveFits DEF ObservationsInv
  <2>4. \A r \in AllObservations(targets') :
          r.station \in StationIDs /\ state.elapsed - r.timestamp < ExpiryAge
    BY <2>2, <2>3 DEF ObservationsInv
  <2> QED BY <2>1, <2>3, <2>4 DEF ObservationsInv, Pending, StationIDs
<1>12. CASE UNCHANGED vars
  <2>1. UNCHANGED <<state, targets, pc, batch, loop>>
    BY <1>12 DEF vars
  <2> QED BY <2>1 DEF ObservationsInv, Pending, StationIDs
<1> QED BY <1>1, <1>2, <1>3, <1>4, <1>5, <1>6, <1>7, <1>8, <1>9, <1>10, <1>11, <1>12 DEF Next

-----------------------------------------------------------------------------
(***************************************************************************)
(* What is retained and what is observed                                   *)
(***************************************************************************)
\* A ring holds receptions of its station.
LEMMA HistoryFacts ==
  ASSUME TypeInv, CoherentInv, NEW id \in StationIDs, NEW n \in DOMAIN history[id]
  PROVE  /\ history[id][n] \in ReceptionRecord /\ history[id][n].station = id
         /\ history[id][n].timestamp \in Nat
<1>1. PICK i \in DOMAIN state.stations : state.stations[i].id = id
  BY DEF StationIDs
<1>2. history[id][n].station = id
  BY <1>1 DEF CoherentInv, HistoryFits, Fits
<1>3. history[id][n] \in ReceptionRecord
  BY RingFacts
<1> QED BY <1>2, <1>3, ReceptionFields

\* A step that stores nothing: every ring stays or is new, and observations only go
\* with their station or with their age.
LEMMA CompleteKept ==
  ASSUME TypeInv, CoherentInv, CompleteInv,
         state'.elapsed \in Nat, state'.elapsed >= state.elapsed,
         totals'.evictions = totals.evictions,
         AllObservations(targets') \subseteq AllObservations(targets),
         \A x \in StationIDs' :
           \/ history'[x] = <<>>
           \/ /\ x \in StationIDs /\ history'[x] = history[x]
              /\ \A q \in AllObservations(targets) :
                   q.station = x /\ state'.elapsed - q.timestamp < ExpiryAge =>
                     q \in AllObservations(targets')
  PROVE  CompleteInv'
<1> SUFFICES ASSUME NEW x \in StationIDs', NEW n \in DOMAIN history'[x], NEW q,
                    q = history'[x][n]
             PROVE  /\ q \in AllObservations(targets') => ~Newer(history'[x], n)
                    /\ ~Newer(history'[x], n) /\ state'.elapsed - q.timestamp < ExpiryAge
                       /\ totals'.evictions = 0 => q \in AllObservations(targets')
  BY DEF CompleteInv
<1>1. history'[x] # <<>>
  OBVIOUS
<1>2. /\ x \in StationIDs /\ history'[x] = history[x]
      /\ \A o \in AllObservations(targets) :
           o.station = x /\ state'.elapsed - o.timestamp < ExpiryAge =>
             o \in AllObservations(targets')
  BY <1>1
<1>3. n \in DOMAIN history[x] /\ q = history[x][n]
  BY <1>2
<1>4. q.station = x /\ q.timestamp \in Nat
  BY <1>2, <1>3, HistoryFacts
<1>5. /\ q \in AllObservations(targets) => ~Newer(history[x], n)
      /\ ~Newer(history[x], n) /\ state.elapsed - q.timestamp < ExpiryAge
         /\ totals.evictions = 0 => q \in AllObservations(targets)
  BY <1>2, <1>3 DEF CompleteInv
<1>6. ASSUME state'.elapsed - q.timestamp < ExpiryAge
      PROVE  state.elapsed - q.timestamp < ExpiryAge
  <2>1. state.elapsed \in Nat /\ ExpiryAge \in Nat
    BY StateFields, LimitsAssumption
  <2> QED BY <1>4, <1>6, <2>1
<1> QED BY <1>2, <1>4, <1>5, <1>6

\* One record stored: it is the newest of its MMSI, and observed.
LEMMA CompleteApply ==
  ASSUME TypeInv, CoherentInv, RingInv, ObservationsInv, CompleteInv, ApplyRecord
  PROVE  CompleteInv'
<1>k. PICK k : k = loop.applied + 1
  OBVIOUS
<1>r. PICK r : r = batch.records[k]
  OBVIOUS
<1>i. PICK id : id = r.station
  OBVIOUS
<1>h. PICK h : h = history[id]
  OBVIOUS
<1>p. PICK p : p = Push(h, r)
  OBVIOUS
<1>1. /\ UNCHANGED state /\ history' = [history EXCEPT ![id] = p]
  BY <1>k, <1>r, <1>i, <1>h, <1>p DEF ApplyRecord
<1>2. /\ k \in Pending /\ r \in ReceptionRecord /\ id \in StationIDs /\ r.timestamp <= state.elapsed
  BY <1>k, <1>r, <1>i, NextPending
<1>3. /\ r \in AllObservations(targets')
      /\ \A o \in AllObservations(targets') :
           o = r \/ (o \in AllObservations(targets) /\ ~Replaces(r, o))
      /\ totals'.evictions = 0 =>
           /\ totals.evictions = 0
           /\ \A o \in AllObservations(targets) :
                \/ Replaces(r, o)
                \/ r.timestamp - o.timestamp >= ExpiryAge
                \/ o \in AllObservations(targets')
  BY <1>k, <1>r, ApplyShape
<1>4. /\ StationIDs' = StationIDs /\ history'[id] = p
      /\ \A x \in StationIDs : x # id => history'[x] = history[x]
  BY <1>1, <1>2, StationFacts DEF StationIDs
<1>5. h \in Seq(ReceptionRecord) /\ Len(h) \in Nat /\ DOMAIN h = 1..Len(h)
      /\ Len(h) <= ReceptionHistoryLimit /\ r.timestamp \in Nat
  <2>1. h \in Seq(ReceptionRecord) /\ Len(h) \in Nat /\ DOMAIN h = 1..Len(h) /\ Top(id) \in Nat
    BY <1>2, <1>h, RingFacts
  <2>2. Len(h) = Minimum(Top(id), ReceptionHistoryLimit) /\ ReceptionHistoryLimit \in Nat
    BY <1>2, <1>h, LimitsAssumption DEF RingInv, RingsExact, RingShape
  <2>3. Len(h) <= ReceptionHistoryLimit
    BY <2>1, <2>2 DEF Minimum
  <2> QED BY <1>2, <2>1, <2>3, ReceptionFields
<1>6. /\ Len(p) \in Nat \ {0} /\ DOMAIN p = 1..Len(p) /\ p[Len(p)] = r /\ Shifts(p, h)
      /\ Len(p) = Minimum(Len(h) + 1, ReceptionHistoryLimit)
  BY <1>2, <1>5, <1>p, PushShape
\* What was retained before and how it was observed.
<1>7. ASSUME NEW x \in StationIDs, NEW m \in DOMAIN history[x], NEW q, q = history[x][m]
      PROVE  /\ q.station = x /\ q # r
             /\ q \in AllObservations(targets') => ~Newer(history[x], m) /\ ~Replaces(r, q)
             /\ ~Newer(history[x], m) /\ state.elapsed - q.timestamp < ExpiryAge
                /\ totals'.evictions = 0 /\ ~Replaces(r, q) => q \in AllObservations(targets')
  <2>1. q.station = x /\ q.timestamp \in Nat /\ q \in ReceptionRecord
    BY <1>7, HistoryFacts
  <2>2. q # r
    <3>1. CASE x = id
      <4>1. history[r.station][m].transmission < r.transmission
        BY <1>2, <1>r, <1>i, <1>7, <3>1 DEF RingInv, PendingOrdered
      <4>2. r.transmission \in Nat
        BY <1>2, ReceptionFields
      <4> QED BY <1>7, <1>i, <3>1, <4>1, <4>2
    <3>2. CASE x # id
      BY <1>i, <2>1, <3>2
    <3> QED BY <3>1, <3>2
  <2>3. /\ q \in AllObservations(targets) => ~Newer(history[x], m)
        /\ ~Newer(history[x], m) /\ state.elapsed - q.timestamp < ExpiryAge
           /\ totals.evictions = 0 => q \in AllObservations(targets)
    BY <1>7 DEF CompleteInv
  <2>4. ASSUME state.elapsed - q.timestamp < ExpiryAge
        PROVE  ~(r.timestamp - q.timestamp >= ExpiryAge)
    <3>1. state.elapsed \in Nat /\ ExpiryAge \in Nat
      BY StateFields, LimitsAssumption
    <3> QED BY <1>2, <1>5, <2>1, <2>4, <3>1
  <2> QED BY <1>3, <2>1, <2>2, <2>3, <2>4
<1>8. ASSUME NEW x \in StationIDs, x # id, NEW n \in DOMAIN history'[x], NEW q, q = history'[x][n]
      PROVE  /\ q \in AllObservations(targets') => ~Newer(history'[x], n)
             /\ ~Newer(history'[x], n) /\ state.elapsed - q.timestamp < ExpiryAge
                /\ totals'.evictions = 0 => q \in AllObservations(targets')
  <2>1. history'[x] = history[x]
    BY <1>4, <1>8
  <2>2. n \in DOMAIN history[x] /\ q = history[x][n]
    BY <1>8, <2>1
  <2>3. q.station = x /\ ~Replaces(r, q)
    BY <1>i, <1>7, <1>8, <2>2 DEF Replaces
  <2> QED BY <1>7, <2>1, <2>2, <2>3
<1>9. ASSUME NEW n \in DOMAIN p, NEW q, q = p[n]
      PROVE  /\ q \in AllObservations(targets') => ~Newer(p, n)
             /\ ~Newer(p, n) /\ state.elapsed - q.timestamp < ExpiryAge
                /\ totals'.evictions = 0 => q \in AllObservations(targets')
  <2>1. n \in Nat /\ (n = Len(p) \/ n \in 1..(Len(p) - 1))
    BY <1>6
  <2>2. CASE n = Len(p)
    <3>1. (n + 1)..Len(p) = {}
      BY <1>6, <2>2
    <3> QED BY <1>3, <1>6, <1>9, <2>2, <3>1 DEF Newer
  <2>3. CASE n \in 1..(Len(p) - 1)
    <3>s. PICK s : s = Len(h) + 1 - Len(p)
      OBVIOUS
    <3>1. n + s \in DOMAIN h /\ q = h[n + s] /\ s \in Nat
      <4>1. n + s \in DOMAIN h /\ q = h[n + s]
        BY <1>6, <1>9, <2>3, <3>s DEF Shifts
      <4>2. ReceptionHistoryLimit \in Nat
        BY LimitsAssumption
      <4>3. s \in Nat
        BY <1>5, <1>6, <3>s, <4>2 DEF Minimum
      <4> QED BY <4>1, <4>3
    <3>a. PICK l : l = Len(p)
      OBVIOUS
    <3>b. l \in Nat /\ Len(h) = l - 1 + s
      BY <1>5, <1>6, <3>1, <3>s, <3>a
    <3>2. \A o \in (n + 1)..(Len(p) - 1) : o \in 1..(Len(p) - 1) /\ p[o] = h[o + s]
      BY <1>6, <2>1, <2>3, <3>s DEF Shifts
    <3>3. Newer(p, n) <=> Newer(h, n + s) \/ q.mmsi = r.mmsi
      <4>1. ASSUME Newer(p, n) PROVE Newer(h, n + s) \/ q.mmsi = r.mmsi
        <5>1. PICK o \in (n + 1)..Len(p) : p[o].mmsi = q.mmsi
          BY <1>9, <4>1 DEF Newer
        <5>2. CASE o = Len(p)
          BY <1>6, <5>1, <5>2
        <5>3. CASE o # Len(p)
          <6>1. o \in (n + 1)..(Len(p) - 1)
            BY <1>6, <2>1, <5>3
          <6>2. o + s \in (n + s + 1)..Len(h)
            BY <2>1, <3>1, <3>a, <3>b, <6>1
          <6> QED BY <3>1, <3>2, <5>1, <6>1, <6>2 DEF Newer
        <5> QED BY <5>2, <5>3
      <4>2. ASSUME Newer(h, n + s) PROVE Newer(p, n)
        <5>1. PICK o \in (n + s + 1)..Len(h) : h[o].mmsi = h[n + s].mmsi
          BY <4>2 DEF Newer
        <5>2. o - s \in (n + 1)..(Len(p) - 1) /\ o - s \in (n + 1)..Len(p) /\ (o - s) + s = o
          <6>1. o \in (n + s + 1)..(l - 1 + s)
            BY <3>b, <5>1
          <6>2. o - s \in (n + 1)..(l - 1) /\ o - s \in (n + 1)..l /\ (o - s) + s = o
            BY <2>1, <3>1, <3>b, <6>1
          <6> QED BY <3>a, <6>2
        <5>3. p[o - s] = h[o]
          BY <3>2, <5>2
        <5> QED BY <1>9, <3>1, <5>1, <5>2, <5>3 DEF Newer
      <4>3. ASSUME q.mmsi = r.mmsi PROVE Newer(p, n)
        <5>1. Len(p) \in (n + 1)..Len(p)
          BY <1>6, <2>1, <2>3
        <5> QED BY <1>6, <1>9, <4>3, <5>1 DEF Newer
      <4> QED BY <4>1, <4>2, <4>3
    <3>4. q.station = id /\ (Replaces(r, q) <=> q.mmsi = r.mmsi)
      BY <1>2, <1>7, <1>h, <1>i, <3>1 DEF Replaces
    <3> QED BY <1>2, <1>7, <1>h, <3>1, <3>3, <3>4
  <2> QED BY <2>1, <2>2, <2>3
<1>10. ASSUME NEW x \in StationIDs, NEW n \in DOMAIN history'[x], NEW q, q = history'[x][n]
       PROVE  /\ q \in AllObservations(targets') => ~Newer(history'[x], n)
              /\ ~Newer(history'[x], n) /\ state.elapsed - q.timestamp < ExpiryAge
                 /\ totals'.evictions = 0 => q \in AllObservations(targets')
  <2>1. CASE x = id
    BY <1>4, <1>9, <1>10, <2>1
  <2>2. CASE x # id
    BY <1>8, <1>10, <2>2
  <2> QED BY <2>1, <2>2
<1> QED BY <1>1, <1>4, <1>10 DEF CompleteInv

\* Every step keeps what is retained and what is observed in agreement.
LEMMA CompleteStep ==
  TypeInv /\ TypeInv' /\ ClockInv /\ CoherentInv /\ RingInv /\ ObservationsInv /\ CompleteInv
    /\ [Next]_vars => CompleteInv'
<1> SUFFICES ASSUME TypeInv, TypeInv', ClockInv, CoherentInv, RingInv, ObservationsInv,
                    CompleteInv, [Next]_vars
             PROVE  CompleteInv'
  OBVIOUS
<1>0. /\ state \in StateRecord /\ state.elapsed \in Nat /\ state'.elapsed \in Nat
      /\ DOMAIN history = StationIDs /\ DOMAIN history' = StationIDs'
      /\ next \in StateRecord /\ TargetsType(targets) /\ TargetsFit(targets, state.elapsed)
      /\ totals \in [receptions : Nat, receivedTransmissions : Nat, evictions : Nat]
  BY StateFields, ObservationFacts DEF TypeInv, TypeOK, StateTypeOK, StatsTypeOK, StateRecord,
     ControlTypeOK, ObservationsInv
<1>1. ASSUME UNCHANGED <<history, targets>>, totals'.evictions = totals.evictions,
             state'.elapsed >= state.elapsed
      PROVE  CompleteInv'
  <2>1. StationIDs' = StationIDs
    BY <1>0, <1>1
  <2> QED BY <1>0, <1>1, <2>1, CompleteKept
<1>2. CASE \/ \E count \in 0..MaxVessels : BeginSetCount(count)
           \/ \E delta \in VirtualDeltas : BeginAdvance(delta)
           \/ \E delta \in RealDeltas : BeginElapse(delta)
  BY <1>0, <1>1, <1>2, BeginShape
<1>3. ASSUME NEW speed \in Speeds, SetSpeed(speed) PROVE CompleteInv'
  <2>1. state'.elapsed = state.elapsed /\ UNCHANGED <<history, targets, totals>>
    BY <1>0, <1>3 DEF SetSpeed, StateRecord
  <2> QED BY <1>0, <1>1, <2>1
<1>4. ASSUME NEW expected \in FirstRevision..MaxRevision, NEW d \in Definitions,
             AddStation(expected, d)
      PROVE  CompleteInv'
  <2> DEFINE id == state.lastStationID + 1
  <2>1. /\ state'.elapsed = state.elapsed /\ UNCHANGED <<targets, totals>>
        /\ history' = [k \in DOMAIN history \cup {id} |-> IF k = id THEN <<>> ELSE history[k]]
    BY <1>0, <1>4 DEF AddStation, NextStationID, StateRecord
  <2> HIDE DEF id
  <2>2. ASSUME NEW x \in StationIDs'
        PROVE  history'[x] = <<>> \/ (x \in StationIDs /\ history'[x] = history[x])
    <3>1. x \in StationIDs \cup {id}
      BY <1>0, <2>1, <2>2
    <3>2. CASE x = id
      BY <1>0, <2>1, <3>2
    <3>3. CASE x # id
      BY <1>0, <2>1, <3>1, <3>3
    <3> QED BY <3>2, <3>3
  <2> QED BY <1>0, <2>1, <2>2, CompleteKept
<1>5. ASSUME NEW expected \in FirstRevision..MaxRevision, NEW id \in StationIDs,
             NEW d \in Definitions, UpdateStation(expected, id, d)
      PROVE  CompleteInv'
  <2>1. state'.elapsed = state.elapsed /\ UNCHANGED <<history, targets, totals>>
    BY <1>0, <1>5 DEF UpdateStation, StateRecord
  <2> QED BY <1>0, <1>1, <2>1
<1>6. ASSUME NEW expected \in FirstRevision..MaxRevision, NEW id \in StationIDs,
             RemoveStation(expected, id)
      PROVE  CompleteInv'
  <2> DEFINE gone == {r \in AllObservations(targets) : r.station = id}
  <2>1. /\ state'.elapsed = state.elapsed /\ totals' = totals
        /\ history' = [k \in DOMAIN history \ {id} |-> history[k]]
        /\ targets' = RemoveObservations(targets, gone)
    BY <1>0, <1>6 DEF RemoveStation, Without, StateRecord
  <2>2. \A q \in gone : q.station = id
    OBVIOUS
  <2> HIDE DEF gone
  <2>3. AllObservations(targets') = AllObservations(targets) \ gone
    BY <1>0, <2>1, RemoveFits
  <2>4. \A x \in StationIDs' : x # id /\ x \in StationIDs /\ history'[x] = history[x]
    BY <1>0, <2>1
  <2> QED BY <1>0, <2>1, <2>2, <2>3, <2>4, CompleteKept
<1>7. CASE Spawn \/ TickVessel \/ TickEnd \/ ReceiveEnd \/ SpawnFails \/ Cancel \/ ReceiveFails
  <2>1. UNCHANGED <<state, history, targets, totals>>
    BY <1>7 DEF Spawn, TickVessel, Send, TickEnd, ReceiveEnd, SpawnFails, Cancel, ReceiveFails
  <2> QED BY <1>0, <1>1, <2>1
<1>8. ASSUME NEW outcome \in Outcomes, Receive(outcome) PROVE CompleteInv'
  <2>1. UNCHANGED <<state, history, targets, totals>>
    BY <1>8 DEF Receive
  <2> QED BY <1>0, <1>1, <2>1
<1>9. CASE Commit
  <2>1. UNCHANGED <<history, targets, totals>> /\ Working /\ state'.elapsed = loop.target
    BY <1>0, <1>9 DEF Commit, Working, StateRecord
  <2>2. loop.target >= state.elapsed
    BY <2>1 DEF ClockInv, StagedClock
  <2> QED BY <1>0, <1>1, <2>1, <2>2
<1>10. CASE ApplyRecord
  BY <1>10, CompleteApply
<1>11. CASE Finish
  <2> DEFINE gone == {r \in AllObservations(targets) : state.elapsed - r.timestamp >= ExpiryAge}
  <2>1. /\ UNCHANGED <<state, history>> /\ totals'.evictions = totals.evictions
        /\ targets' = RemoveObservations(targets, gone)
    BY <1>0, <1>11 DEF Finish, Drop, Expire
  <2>2. ASSUME NEW q \in AllObservations(targets), state.elapsed - q.timestamp < ExpiryAge
        PROVE  q \notin gone
    <3>1. q.timestamp \in Nat /\ ExpiryAge \in Nat
      BY ObservationFacts, LimitsAssumption
    <3>2. ~(state.elapsed - q.timestamp >= ExpiryAge)
      BY <1>0, <2>2, <3>1
    <3> QED BY <3>2
  <2> HIDE DEF gone
  <2>3. AllObservations(targets') = AllObservations(targets) \ gone
    BY <1>0, <2>1, RemoveFits
  <2>4. StationIDs' = StationIDs
    BY <2>1 DEF StationIDs
  <2> QED BY <1>0, <2>1, <2>2, <2>3, <2>4, CompleteKept
<1>12. CASE UNCHANGED vars
  <2>1. UNCHANGED <<state, history, targets, totals>>
    BY <1>12 DEF vars
  <2> QED BY <1>0, <1>1, <2>1
<1> QED BY <1>2, <1>3, <1>4, <1>5, <1>6, <1>7, <1>8, <1>9, <1>10, <1>11, <1>12 DEF Next

\* Between calls the invariant is what readers rely on.
LEMMA StoreReads == TypeInv /\ StoreInv => StoreExact
<1> SUFFICES ASSUME TypeInv, StoreInv, pc = "idle" PROVE StoreExact
  BY DEF StoreExact, ReceptionsContiguous, TargetsSound, TargetsComplete, Idle
<1>1. ReceptionsContiguous
  <2> SUFFICES ASSUME NEW id \in StationIDs, NEW h, h = history[id]
               PROVE  /\ Len(h) = Minimum(stats[id].lastReception, ReceptionHistoryLimit)
                      /\ \A i \in DOMAIN h : h[i].sequence = stats[id].lastReception - Len(h) + i
                      /\ \A i, j \in DOMAIN h :
                           i < j => /\ h[i].transmission < h[j].transmission
                                    /\ h[i].timestamp <= h[j].timestamp
                      /\ stats[id].outcome["received"] = stats[id].lastReception
    BY DEF ReceptionsContiguous
  <2>1. /\ stats[id].lastReception = Top(id)
        /\ stats[id].outcome["received"] = stats[id].lastReception
    BY DEF StoreInv, RingInv, StatsExact
  <2> QED BY <2>1 DEF StoreInv, RingInv, RingsExact, RingShape
<1>2. TargetsSound
  <2>1. ASSUME NEW m \in DOMAIN targets, NEW r \in targets[m].observations
        PROVE  r.station \in StationIDs /\ state.elapsed - r.timestamp \in 0..(ExpiryAge - 1)
    <3>1. r \in AllObservations(targets)
      BY DEF AllObservations
    <3>2. /\ r.timestamp \in Nat /\ r.timestamp <= state.elapsed /\ state.elapsed \in Nat
          /\ state.elapsed - r.timestamp < ExpiryAge /\ r.station \in StationIDs
      BY <3>1, ObservationFacts DEF StoreInv, ObservationsInv
    <3>3. ExpiryAge \in Nat
      BY LimitsAssumption
    <3> QED BY <3>2, <3>3
  <2> QED BY <2>1 DEF StoreInv, ObservationsInv, TargetsFit, TargetSound, TargetsSound
<1>3. TargetsComplete
  BY DEF StoreInv, CompleteInv, Newer, TargetsComplete
<1> QED BY <1>1, <1>2, <1>3 DEF StoreExact

\* Everything that the proofs below use of a reachable state.
EngineInv == TypeInv /\ HistoryInv /\ ClockInv /\ CoherentInv /\ StoreInv

LEMMA StoreAlways == Spec => []EngineInv
<1>1. Init => StoreInv
  BY RingInit, ObservationsInit DEF StoreInv
<1>2. TypeInv /\ TypeInv' /\ HistoryInv /\ ClockInv /\ CoherentInv /\ StoreInv /\ [Next]_vars
        => StoreInv'
  BY RingStep, ObservationsStep, CompleteStep DEF StoreInv
<1> QED BY <1>1, <1>2, TypeInvariance, HistoryInit, HistoryStep, ClockInit, ClockStep,
           CoherentInit, CoherentStep, PTL DEF Spec, EngineInv

\* For every configuration, every link budget and every history of calls, failures
\* and station edits, the rings, the counters and the observation store hold
\* exactly what was received.
THEOREM StoreCorrect == Spec => []StoreExact
BY StoreAlways, StoreReads, PTL DEF EngineInv

-----------------------------------------------------------------------------
(***************************************************************************)
(* The observation store does not depend on how calls split virtual time   *)
(***************************************************************************)
\* The observations of a target that are not expired at an instant.
Young(ts, m, at) == {r \in ts[m].observations : at - r.timestamp < ExpiryAge}

\* What is left of a target of which observations were removed.
Shrunk(t, left) ==
  IF left = t.observations THEN t
  ELSE [observations |-> left, receivedAt |-> Max(Timestamps(left))]

\* Expiry leaves the observations that are young.
LEMMA ExpireShape ==
  ASSUME NEW ts, NEW at \in Int, \A r \in AllObservations(ts) : r.timestamp \in Int
  PROVE  Expire(ts, at) = [m \in {n \in DOMAIN ts : Young(ts, n, at) # {}} |->
                             Shrunk(ts[m], Young(ts, m, at))]
<1> DEFINE gone == {r \in AllObservations(ts) : at - r.timestamp >= ExpiryAge}
<1>1. ASSUME NEW m \in DOMAIN ts PROVE ts[m].observations \ gone = Young(ts, m, at)
  <2>1. \A r \in ts[m].observations : r \in AllObservations(ts) /\ r.timestamp \in Int
    BY DEF AllObservations
  <2>2. \A r \in ts[m].observations : at - r.timestamp >= ExpiryAge <=> ~(at - r.timestamp < ExpiryAge)
    BY <2>1, LimitsAssumption
  <2> QED BY <2>1, <2>2 DEF Young
<1>2. Expire(ts, at) = RemoveObservations(ts, gone)
  BY DEF Expire
<1> HIDE DEF gone
<1> QED BY <1>1, <1>2 DEF RemoveObservations, Shrunk

\* Expiring at two instants is expiring at the later one.
LEMMA ExpireTwice ==
  ASSUME NEW ts, NEW s \in Int, NEW t \in Int, s <= t,
         \A r \in AllObservations(ts) : r.timestamp \in Int
  PROVE  Expire(Expire(ts, s), t) = Expire(ts, t)
<1> DEFINE us == Expire(ts, s)
<1>1. us = [m \in {n \in DOMAIN ts : Young(ts, n, s) # {}} |-> Shrunk(ts[m], Young(ts, m, s))]
  BY ExpireShape
<1>2. ASSUME NEW m \in DOMAIN us
      PROVE  /\ m \in DOMAIN ts /\ us[m] = Shrunk(ts[m], Young(ts, m, s))
             /\ us[m].observations = Young(ts, m, s)
  BY <1>1 DEF Shrunk
<1>3. ASSUME NEW m \in DOMAIN ts
      PROVE  /\ \A r \in ts[m].observations : r.timestamp \in Int
             /\ Young(ts, m, t) = {r \in Young(ts, m, s) : t - r.timestamp < ExpiryAge}
             /\ Young(ts, m, t) \subseteq Young(ts, m, s)
             /\ Young(ts, m, s) \subseteq ts[m].observations
  <2>1. \A r \in ts[m].observations : r.timestamp \in Int
    BY DEF AllObservations
  <2>2. \A r \in ts[m].observations : t - r.timestamp < ExpiryAge => s - r.timestamp < ExpiryAge
    BY <2>1, LimitsAssumption
  <2> QED BY <2>1, <2>2 DEF Young
<1>4. \A r \in AllObservations(us) : r.timestamp \in Int
  BY <1>2, <1>3 DEF AllObservations
<1> HIDE DEF us
<1>5. Expire(us, t) = [m \in {n \in DOMAIN us : Young(us, n, t) # {}} |->
                         Shrunk(us[m], Young(us, m, t))]
  BY <1>4, ExpireShape
<1>6. ASSUME NEW m \in DOMAIN us PROVE Young(us, m, t) = Young(ts, m, t)
  BY <1>2, <1>3 DEF Young
<1>7. ASSUME NEW m \in DOMAIN us
      PROVE  Shrunk(us[m], Young(ts, m, t)) = Shrunk(ts[m], Young(ts, m, t))
  <2>1. /\ us[m] = Shrunk(ts[m], Young(ts, m, s)) /\ us[m].observations = Young(ts, m, s)
        /\ Young(ts, m, t) \subseteq Young(ts, m, s)
        /\ Young(ts, m, s) \subseteq ts[m].observations
    BY <1>2, <1>3, <1>7
  <2>2. CASE Young(ts, m, s) = ts[m].observations
    BY <2>1, <2>2 DEF Shrunk
  <2>3. CASE Young(ts, m, s) # ts[m].observations
    <3>1. us[m] = [observations |-> Young(ts, m, s),
                   receivedAt |-> Max(Timestamps(Young(ts, m, s)))]
      BY <2>1, <2>3 DEF Shrunk
    <3>2. Young(ts, m, t) # ts[m].observations
      BY <2>1, <2>3
    <3>3. CASE Young(ts, m, t) = Young(ts, m, s)
      BY <2>3, <3>1, <3>3 DEF Shrunk
    <3>4. CASE Young(ts, m, t) # Young(ts, m, s)
      BY <2>1, <3>2, <3>4 DEF Shrunk
    <3> QED BY <3>3, <3>4
  <2> QED BY <2>2, <2>3
<1>8. {n \in DOMAIN us : Young(us, n, t) # {}} = {n \in DOMAIN ts : Young(ts, n, t) # {}}
  <2>1. \A n \in DOMAIN ts : Young(ts, n, t) # {} => n \in DOMAIN us
    BY <1>1, <1>3
  <2> QED BY <1>2, <1>6, <2>1
<1>9. Expire(ts, t) = [m \in {n \in DOMAIN ts : Young(ts, n, t) # {}} |->
                         Shrunk(ts[m], Young(ts, m, t))]
  BY ExpireShape
<1> QED BY <1>2, <1>5, <1>6, <1>7, <1>8, <1>9, Zenon DEF us

\* Nothing changes while nothing is old enough.
LEMMA ExpireNothing ==
  ASSUME NEW ts, NEW at \in Int, ts = [m \in DOMAIN ts |-> ts[m]],
         \A m \in DOMAIN ts : ts[m].observations # {},
         \A r \in AllObservations(ts) : r.timestamp \in Int /\ at - r.timestamp < ExpiryAge
  PROVE  Expire(ts, at) = ts
<1>1. ASSUME NEW m \in DOMAIN ts PROVE Young(ts, m, at) = ts[m].observations
  BY DEF Young, AllObservations
<1>2. Expire(ts, at) = [m \in {n \in DOMAIN ts : Young(ts, n, at) # {}} |->
                          Shrunk(ts[m], Young(ts, m, at))]
  BY ExpireShape
<1>3. {n \in DOMAIN ts : Young(ts, n, at) # {}} = DOMAIN ts
  BY <1>1
<1>4. \A m \in DOMAIN ts : Shrunk(ts[m], Young(ts, m, at)) = ts[m]
  BY <1>1 DEF Shrunk
<1> QED BY <1>2, <1>3, <1>4

\* A store from which nothing is removed stays as it is.
LEMMA RemoveNothing ==
  ASSUME NEW ts, ts = [m \in DOMAIN ts |-> ts[m]],
         \A m \in DOMAIN ts : ts[m].observations # {}
  PROVE  RemoveObservations(ts, {}) = ts
BY DEF RemoveObservations

\* Expiring at every instant from the reference's clock on is expiring at the last.
LEMMA EachExpired ==
  ASSUME NEW ts, NEW at \in Nat, refClock \in Nat, refClock <= at,
         \A r \in AllObservations(ts) : r.timestamp \in Int
  PROVE  ExpireEach(ts, at) = IF refClock < at THEN Expire(ts, at) ELSE ts
<1> DEFINE seq == [i \in 1..(at - refClock) |-> refClock + i]
           S == DOMAIN seq
           IsFold(f) == f = [s \in SUBSET S |->
                               IF s = {} THEN ts ELSE Expire(f[s \ {Max(s)}], seq[Max(s)])]
           iter == CHOOSE f : IsFold(f)
           g == [s \in SUBSET S |-> IF s = {} THEN ts ELSE Expire(ts, seq[Max(s)])]
<1>1. ExpireEach(ts, at) = iter[S]
  BY DEF ExpireEach, FoldLeft, MapThenFoldSet
<1>2. /\ at - refClock \in Nat /\ S = 1..(at - refClock)
      /\ \A i \in S : i \in Nat /\ seq[i] = refClock + i /\ seq[i] \in Int
  OBVIOUS
<1>3. ASSUME NEW s \in SUBSET S, s # {}
      PROVE  Max(s) \in s /\ \A y \in s : y <= Max(s)
  <2>1. s \in SUBSET (1..(at - refClock)) /\ s \in SUBSET Nat
    BY <1>2
  <2>2. at - refClock \in Int /\ 1 \in Int
    BY <1>2
  <2>3. IsFiniteSet(1..(at - refClock))
    BY <2>2, FS_Interval
  <2>4. IsFiniteSet(s)
    BY <2>1, <2>3, FS_Subset
  <2> QED BY <1>3, <2>1, <2>4, FiniteMax
<1> HIDE DEF seq
<1>4. IsFold(g)
  <2>1. ASSUME NEW s \in SUBSET S, s # {}
        PROVE  g[s] = Expire(g[s \ {Max(s)}], seq[Max(s)])
    <3> DEFINE left == s \ {Max(s)}
    <3>1. g[s] = Expire(ts, seq[Max(s)]) /\ left \in SUBSET S /\ seq[Max(s)] \in Int
      BY <1>2, <1>3, <2>1
    <3>2. CASE left = {}
      BY <3>1, <3>2
    <3>3. CASE left # {}
      <4>1. Max(left) \in left /\ Max(left) <= Max(s) /\ Max(s) \in s /\ Max(left) \in S
        BY <1>3, <2>1, <3>1, <3>3
      <4>2. seq[Max(left)] \in Int /\ seq[Max(left)] <= seq[Max(s)]
        BY <1>2, <4>1
      <4>3. g[left] = Expire(ts, seq[Max(left)])
        BY <3>1, <3>3
      <4> HIDE DEF g, left
      <4> QED BY <3>1, <4>2, <4>3, ExpireTwice DEF left
    <3> QED BY <3>2, <3>3
  <2>2. \A s \in SUBSET S : g[s] = IF s = {} THEN ts ELSE Expire(g[s \ {Max(s)}], seq[Max(s)])
    BY <2>1
  <2>3. g = [s \in SUBSET S |-> g[s]]
    OBVIOUS
  <2> HIDE DEF g
  <2> QED BY <2>2, <2>3
<1>5. IsFold(iter)
  <2> HIDE DEF g, IsFold
  <2> QED BY <1>4
<1>6. /\ iter[{}] = ts
      /\ \A n \in Nat \ {0} : n <= at - refClock =>
           iter[1..n] = Expire(iter[1..(n - 1)], seq[n])
  <2>1. ASSUME NEW n \in Nat \ {0}, n <= at - refClock
        PROVE  /\ 1..n \in SUBSET S /\ 1..n # {} /\ Max(1..n) = n
               /\ (1..n) \ {n} = 1..(n - 1)
    <3>1. 1..n \in SUBSET S /\ n \in 1..n /\ (1..n) \ {n} = 1..(n - 1)
      BY <1>2, <2>1
    <3>2. Max(1..n) \in 1..n /\ n <= Max(1..n)
      BY <1>3, <3>1
    <3> QED BY <3>1, <3>2
  <2>2. ASSUME NEW s \in SUBSET S
        PROVE  iter[s] = IF s = {} THEN ts ELSE Expire(iter[s \ {Max(s)}], seq[Max(s)])
    <3> HIDE DEF iter
    <3> QED BY <1>5
  <2> HIDE DEF iter
  <2> QED BY <2>1, <2>2
<1> HIDE DEF iter, IsFold, g
<1> DEFINE Wrong == {n \in Nat : n > 0 /\ n <= at - refClock /\ iter[1..n] # Expire(ts, seq[n])}
<1>7. Wrong = {}
  <2> SUFFICES ASSUME Wrong # {} PROVE FALSE
    OBVIOUS
  <2>1. PICK n \in Wrong : \A k \in Nat : k < n => k \notin Wrong
    <3>1. PICK n \in Wrong : \A k \in Wrong : ~(<<k, n>> \in OpToRel(<, Nat))
      BY NatLessThanWellFounded, WFMin
    <3> QED BY <3>1 DEF OpToRel
  <2>2. /\ n \in Nat \ {0} /\ n <= at - refClock /\ n \in S
        /\ iter[1..n] = Expire(iter[1..(n - 1)], seq[n])
    BY <1>2, <1>6
  <2>3. CASE n = 1
    <3>1. 1..(n - 1) = {}
      BY <2>3
    <3> QED BY <1>6, <2>1, <2>2, <3>1
  <2>4. CASE n # 1
    <3>1. n - 1 \in Nat /\ n - 1 \in S /\ n - 1 \notin Wrong
      BY <1>2, <2>1, <2>2, <2>4
    <3>2. iter[1..(n - 1)] = Expire(ts, seq[n - 1])
      BY <1>2, <2>2, <2>4, <3>1
    <3>3. seq[n - 1] \in Int /\ seq[n] \in Int /\ seq[n - 1] <= seq[n]
      BY <1>2, <2>2, <3>1
    <3>4. Expire(Expire(ts, seq[n - 1]), seq[n]) = Expire(ts, seq[n])
      BY <3>3, ExpireTwice
    <3> QED BY <2>1, <2>2, <3>2, <3>4
  <2> QED BY <2>3, <2>4
<1>8. CASE refClock < at
  <2>1. at - refClock \in Nat \ {0} /\ at - refClock \in S /\ seq[at - refClock] = at
    BY <1>2, <1>8
  <2>2. iter[1..(at - refClock)] = Expire(ts, seq[at - refClock])
    BY <1>7, <2>1
  <2> QED BY <1>1, <1>2, <1>8, <2>1, <2>2
<1>9. CASE refClock = at
  <2>1. S = {}
    BY <1>2, <1>9
  <2> QED BY <1>1, <1>6, <1>9, <2>1
<1> QED BY <1>8, <1>9

\* The engine's store and the reference agree, also inside a call.
SplitInv ==
  /\ ref = [targets |-> targets, evictions |-> totals.evictions]
  /\ targets = [m \in DOMAIN targets |-> targets[m]]
  /\ refClock \in Nat /\ loop.expired <= refClock /\ refClock <= state.elapsed
  /\ pc # "apply" => refClock = state.elapsed
  /\ \A k \in Pending : refClock <= batch.records[k].timestamp
  /\ \A r \in AllObservations(targets) : refClock - r.timestamp < ExpiryAge

\* A new run and a reference that has seen nothing.
LEMMA SplitStarts == SplitInit => SplitInv
<1> SUFFICES ASSUME SplitInit PROVE SplitInv
  OBVIOUS
<1>1. /\ targets = [m \in {} |-> {}] /\ totals.evictions = 0 /\ state.elapsed = 0
      /\ loop.expired = -1 /\ loop.applied = 0 /\ batch.records = <<>> /\ pc = "spawn"
      /\ ref = [targets |-> targets, evictions |-> 0] /\ refClock = 0
  BY DEF SplitInit, Init, NoLoop, StageReceptions
<1>2. Pending = {} /\ AllObservations(targets) = {}
  BY <1>1 DEF Pending, AllObservations
<1> QED BY <1>1, <1>2 DEF SplitInv

\* The observations are the store's, and none is empty.
LEMMA StoreShape ==
  ASSUME TypeInv, ObservationsInv
  PROVE  /\ \A m \in DOMAIN targets : targets[m].observations # {}
         /\ \A r \in AllObservations(targets) : r.timestamp \in Int
         /\ state.elapsed \in Nat
<1>1. \A m \in DOMAIN targets : targets[m].observations # {}
  BY DEF ObservationsInv, TargetsFit, TargetSound
<1>2. \A r \in AllObservations(targets) : r.timestamp \in Nat
  BY ObservationFacts
<1> QED BY <1>1, <1>2, StateFields

\* What the reference expires up to an instant is what the engine expires at it.
LEMMA ReferenceExpires ==
  ASSUME TypeInv, ObservationsInv, SplitInv, NEW at \in Nat, refClock <= at
  PROVE  /\ ExpireEach(ref.targets, at) = Expire(targets, at)
         /\ refClock = at => Expire(targets, at) = targets
<1>1. /\ ref.targets = targets /\ targets = [m \in DOMAIN targets |-> targets[m]]
      /\ \A m \in DOMAIN targets : targets[m].observations # {}
      /\ \A r \in AllObservations(targets) :
           r.timestamp \in Int /\ refClock - r.timestamp < ExpiryAge
      /\ refClock \in Nat
  BY StoreShape DEF SplitInv
<1>2. refClock = at => Expire(targets, at) = targets
  BY <1>1, ExpireNothing
<1>3. ExpireEach(targets, at) = IF refClock < at THEN Expire(targets, at) ELSE targets
  BY <1>1, EachExpired
<1> QED BY <1>1, <1>2, <1>3

\* A step that leaves the store alone leaves the reference alone.
LEMMA SplitSame ==
  ASSUME TypeInv, ObservationsInv', SplitInv, UNCHANGED <<targets, totals, ref, refClock>>,
         state'.elapsed = state.elapsed \/ (pc' = "apply" /\ state'.elapsed >= state.elapsed),
         pc # "apply" \/ (pc' = "apply" /\ state'.elapsed = state.elapsed),
         state'.elapsed \in Nat, loop'.expired \in {-1, loop.expired},
         \A k \in Pending' : refClock <= batch'.records[k].timestamp
  PROVE  SplitInv'
<1>1. /\ refClock' = refClock /\ refClock \in Nat /\ loop.expired <= refClock
      /\ refClock <= state.elapsed /\ state.elapsed \in Nat
  BY StateFields DEF SplitInv
<1>2. /\ loop'.expired <= refClock' /\ refClock' <= state'.elapsed
      /\ (pc' # "apply" => refClock' = state'.elapsed)
  BY <1>1 DEF SplitInv
<1>3. ref' = [targets |-> targets', evictions |-> totals'.evictions]
      /\ targets' = [m \in DOMAIN targets' |-> targets'[m]]
  BY DEF SplitInv
<1>4. AllObservations(targets') = AllObservations(targets)
  OBVIOUS
<1>5. \A r \in AllObservations(targets') : refClock' - r.timestamp < ExpiryAge
  BY <1>1, <1>4 DEF SplitInv
<1> QED BY <1>1, <1>2, <1>3, <1>5 DEF SplitInv

\* Between two calls the reference drops what was observed by a station that is gone.
LEMMA EditFollowed ==
  ASSUME TypeInv, TypeInv', ObservationsInv, ObservationsInv', SplitInv, SplitFollow,
         pc = "idle", pc' # "apply", state'.elapsed = state.elapsed, totals' = totals,
         loop'.expired \in {-1, loop.expired}, Pending' = {},
         \/ targets' = targets /\ DOMAIN stats \subseteq DOMAIN stats'
         \/ \E id \in StationIDs :
              /\ DOMAIN stats' = DOMAIN stats \ {id}
              /\ targets' = RemoveObservations(targets,
                              {r \in AllObservations(targets) : r.station = id})
  PROVE  SplitInv'
<1> DEFINE Lost(ts) == {o \in AllObservations(ts) : o.station \in StationIDs \ DOMAIN stats'}
<1>1. /\ ref = [targets |-> targets, evictions |-> totals.evictions]
      /\ targets = [m \in DOMAIN targets |-> targets[m]]
      /\ \A m \in DOMAIN targets : targets[m].observations # {}
      /\ DOMAIN stats = StationIDs
  BY StoreShape DEF SplitInv, TypeInv, TypeOK, StatsTypeOK
<1>2. /\ ref' = [ref EXCEPT !.targets = RemoveObservations(@, Lost(@))]
      /\ refClock' = refClock
  BY DEF SplitFollow
<1>3. ref' = [targets |-> RemoveObservations(targets, Lost(targets)),
              evictions |-> totals.evictions]
  <2> HIDE DEF Lost
  <2> QED BY <1>1, <1>2
<1>4. targets' = RemoveObservations(targets, Lost(targets))
  <2>1. CASE targets' = targets /\ DOMAIN stats \subseteq DOMAIN stats'
    <3>1. Lost(targets) = {}
      BY <1>1, <2>1
    <3> QED BY <1>1, <2>1, <3>1, RemoveNothing
  <2>2. CASE ~(targets' = targets /\ DOMAIN stats \subseteq DOMAIN stats')
    <3>1. PICK id \in StationIDs :
            /\ DOMAIN stats' = DOMAIN stats \ {id}
            /\ targets' = RemoveObservations(targets,
                            {r \in AllObservations(targets) : r.station = id})
      BY <2>2
    <3>2. Lost(targets) = {r \in AllObservations(targets) : r.station = id}
      BY <1>1, <3>1
    <3> QED BY <3>1, <3>2
  <2> QED BY <2>1, <2>2
<1> HIDE DEF Lost
<1>5. ref' = [targets |-> targets', evictions |-> totals'.evictions]
  BY <1>3, <1>4
<1>6. targets' = [m \in DOMAIN targets' |-> targets'[m]]
  BY <1>4 DEF RemoveObservations
<1>7. /\ refClock' \in Nat /\ loop'.expired <= refClock'
      /\ refClock' = state'.elapsed /\ refClock' <= state'.elapsed
  BY <1>2, StateFields DEF SplitInv
<1>8. \A r \in AllObservations(targets') : refClock' - r.timestamp < ExpiryAge
  BY <1>7 DEF ObservationsInv
<1> QED BY <1>5, <1>6, <1>7, <1>8 DEF SplitInv

LEMMA SplitIdle ==
  ASSUME TypeInv, TypeInv', ObservationsInv, ObservationsInv', SplitInv, SplitFollow,
         Next, pc = "idle"
  PROVE  SplitInv'
<1>0. /\ state \in StateRecord /\ state.elapsed \in Nat
      /\ DOMAIN stats = StationIDs /\ DOMAIN stats' = StationIDs'
  BY StateFields DEF TypeInv, TypeOK, StatsTypeOK
<1>1. CASE \/ \E count \in 0..MaxVessels : BeginSetCount(count)
           \/ \E delta \in VirtualDeltas : BeginAdvance(delta)
           \/ \E delta \in RealDeltas : BeginElapse(delta)
  <2>1. pc' \in {"spawn", "tick"} /\ Pending' = {} /\ UNCHANGED <<state, targets, totals>>
    BY <1>1, BeginShape
  <2>2. loop'.expired = -1
    <3>1. ASSUME NEW n, NEW delta, NEW credit, StartAdvance(n, delta, credit)
          PROVE  loop'.expired = -1
      BY <3>1 DEF StartAdvance, NoLoop
    <3>2. ASSUME NEW count, BeginSetCount(count) PROVE loop'.expired = -1
      BY <3>2 DEF BeginSetCount, NoLoop
    <3>3. ASSUME NEW delta, BeginElapse(delta) PROVE loop'.expired = -1
      BY <3>1, <3>3 DEF BeginElapse
    <3>4. ASSUME NEW delta, BeginAdvance(delta) PROVE loop'.expired = -1
      BY <3>1, <3>4 DEF BeginAdvance
    <3> QED BY <1>1, <3>2, <3>3, <3>4
  <2>3. DOMAIN stats \subseteq DOMAIN stats'
    BY <1>0, <2>1 DEF StationIDs
  <2> QED BY <2>1, <2>2, <2>3, EditFollowed
<1>2. ASSUME NEW speed \in Speeds, SetSpeed(speed) PROVE SplitInv'
  <2>1. /\ state'.elapsed = state.elapsed /\ UNCHANGED <<stats, targets, totals, loop, pc>>
        /\ pc' = "idle"
    BY <1>0, <1>2 DEF SetSpeed, StateRecord, Idle
  <2> QED BY <2>1, EditFollowed DEF Pending
<1>3. ASSUME NEW expected \in FirstRevision..MaxRevision, NEW d \in Definitions,
             AddStation(expected, d)
      PROVE  SplitInv'
  <2>1. /\ state'.elapsed = state.elapsed /\ UNCHANGED <<targets, totals, loop, pc>>
        /\ pc' = "idle" /\ DOMAIN stats \subseteq DOMAIN stats'
    BY <1>0, <1>3 DEF AddStation, NextStationID, StateRecord, Idle
  <2> QED BY <2>1, EditFollowed DEF Pending
<1>4. ASSUME NEW expected \in FirstRevision..MaxRevision, NEW id \in StationIDs,
             NEW d \in Definitions, UpdateStation(expected, id, d)
      PROVE  SplitInv'
  <2>1. /\ state'.elapsed = state.elapsed /\ UNCHANGED <<stats, targets, totals, loop, pc>>
        /\ pc' = "idle"
    BY <1>0, <1>4 DEF UpdateStation, StateRecord, Idle
  <2> QED BY <2>1, EditFollowed DEF Pending
<1>5. ASSUME NEW expected \in FirstRevision..MaxRevision, NEW id \in StationIDs,
             RemoveStation(expected, id)
      PROVE  SplitInv'
  <2>1. /\ state'.elapsed = state.elapsed /\ UNCHANGED <<totals, loop, pc>> /\ pc' = "idle"
        /\ DOMAIN stats' = DOMAIN stats \ {id}
        /\ targets' = RemoveObservations(targets,
                        {r \in AllObservations(targets) : r.station = id})
    BY <1>0, <1>5 DEF RemoveStation, Without, StateRecord, Idle
  <2> QED BY <1>5, <2>1, EditFollowed DEF Pending
<1>6. ~(Spawn \/ SpawnFails \/ TickVessel \/ TickEnd \/ Cancel \/ ReceiveFails \/ ReceiveEnd
          \/ Commit \/ ApplyRecord \/ Finish \/ \E outcome \in Outcomes : Receive(outcome))
  BY DEF Spawn, SpawnFails, TickVessel, TickEnd, Cancel, ReceiveFails, ReceiveEnd, Commit,
         ApplyRecord, Finish, Receive
<1> QED BY <1>1, <1>2, <1>3, <1>4, <1>5, <1>6 DEF Next

\* While a call works, the reference waits.
LEMMA SplitWorking ==
  ASSUME TypeInv, TypeInv', HistoryInv, ClockInv, CoherentInv, RingInv, ObservationsInv,
         ObservationsInv', SplitInv, SplitFollow, Next, pc \notin {"idle", "apply"}
  PROVE  SplitInv'
<1>0. /\ state \in StateRecord /\ state.elapsed \in Nat /\ state'.elapsed \in Nat
      /\ next \in StateRecord /\ loop \in LoopRecord /\ batch \in BatchRecord
  BY StateFields DEF TypeInv, TypeOK, StateTypeOK, StatsTypeOK, StateRecord, ControlTypeOK,
                     BatchTypeOK, BatchRecord
<1>1. UNCHANGED <<ref, refClock>>
  BY DEF SplitFollow
<1>2. /\ refClock = state.elapsed
      /\ \A k \in Pending : refClock <= batch.records[k].timestamp
  BY DEF SplitInv
<1>3. CASE Spawn \/ TickVessel \/ TickEnd \/ ReceiveEnd
  <2>1. /\ UNCHANGED <<state, targets, totals>> /\ batch'.records = batch.records
        /\ loop'.applied = loop.applied /\ loop'.expired = loop.expired
        /\ pc # "idle" /\ pc' # "idle" /\ pc # "apply"
    BY ZenonT(30), <1>0, <1>3 DEF Spawn, TickVessel, Send, TickEnd, ReceiveEnd, LoopRecord, BatchRecord
  <2>2. Pending' = Pending
    BY <2>1 DEF Pending
  <2> QED BY <1>0, <1>1, <1>2, <2>1, <2>2, SplitSame
<1>4. CASE SpawnFails \/ Cancel \/ ReceiveFails
  <2>1. /\ UNCHANGED <<state, targets, totals>> /\ pc' = "idle" /\ pc # "apply"
        /\ loop'.expired = -1
    BY <1>4 DEF SpawnFails, Cancel, ReceiveFails, Drop, NoLoop
  <2>2. Pending' = {}
    BY <2>1 DEF Pending
  <2> QED BY <1>0, <1>1, <2>1, <2>2, SplitSame
<1>5. ASSUME NEW outcome \in Outcomes, Receive(outcome) PROVE SplitInv'
  <2>1. /\ UNCHANGED <<state, targets, totals>> /\ pc = "receive" /\ pc' = pc
        /\ loop'.expired = loop.expired
    BY <1>0, <1>5 DEF Receive, LoopRecord
  <2>2. Now \in Nat /\ state.elapsed <= Now
    BY <2>1, ReportFacts
  <2>3. \A k \in Pending' : refClock <= batch'.records[k].timestamp
    BY <1>2, <1>5, <2>2, ReceiveShape
  <2> QED BY <1>0, <1>1, <2>1, <2>3, SplitSame
<1>6. CASE Commit
  <2>1. /\ UNCHANGED <<targets, totals, batch, loop>> /\ pc # "idle" /\ pc' = "apply"
        /\ Working /\ state'.elapsed = loop.target
    BY <1>0, <1>6 DEF Commit, Working, StateRecord
  <2>2. loop.target >= state.elapsed
    BY <2>1 DEF ClockInv, StagedClock
  <2>3. Pending' = Pending
    BY SMTT(30), <2>1 DEF Pending
  <2> QED BY <1>0, <1>1, <1>2, <2>1, <2>2, <2>3, SplitSame
<1>7. \/ Spawn \/ SpawnFails \/ TickVessel \/ TickEnd \/ Cancel \/ ReceiveFails \/ ReceiveEnd
      \/ Commit \/ \E outcome \in Outcomes : Receive(outcome)
  BY DEF Next, BeginSetCount, BeginAdvance, BeginElapse, StartAdvance, SetSpeed, AddStation,
         UpdateStation, RemoveStation, ApplyRecord, Finish, Idle
<1> QED BY <1>3, <1>4, <1>5, <1>6, <1>7

\* What is left after expiry is young.
LEMMA YoungLeft ==
  ASSUME NEW ts, NEW at \in Int, \A r \in AllObservations(ts) : r.timestamp \in Int
  PROVE  \A o \in AllObservations(Expire(ts, at)) : at - o.timestamp < ExpiryAge
<1> DEFINE us == Expire(ts, at)
<1> SUFFICES ASSUME NEW m \in DOMAIN us, NEW o \in us[m].observations
             PROVE  at - o.timestamp < ExpiryAge
  BY DEF AllObservations
<1>1. us = [n \in {k \in DOMAIN ts : Young(ts, k, at) # {}} |-> Shrunk(ts[n], Young(ts, n, at))]
  BY ExpireShape
<1> HIDE DEF us
<1>2. us[m].observations = Young(ts, m, at)
  BY <1>1 DEF Shrunk
<1> QED BY <1>2 DEF Young

\* Recording a reception brings no other observation.
LEMMA RecordOnly ==
  ASSUME NEW ts, NEW r
  PROVE  \A o \in AllObservations(Record(ts, r)) : o = r \/ o \in AllObservations(ts)
<1> DEFINE us == Record(ts, r)
<1> SUFFICES ASSUME NEW m \in DOMAIN us, NEW o \in us[m].observations
             PROVE  o = r \/ o \in AllObservations(ts)
  BY DEF AllObservations
<1> DEFINE room == IF MustEvict(ts, r) THEN DOMAIN ts \ {Victim(ts)} ELSE DOMAIN ts
<1>1. room \subseteq DOMAIN ts
  OBVIOUS
<1>2. us = [n \in room \cup {r.mmsi} |->
              IF n = r.mmsi
              THEN [observations |-> Others(ts, r) \cup {r}, receivedAt |-> r.timestamp]
              ELSE ts[n]]
  BY DEF Record
<1> HIDE DEF room, us
<1>3. CASE m = r.mmsi
  <2>1. o \in Others(ts, r) \cup {r}
    BY <1>2, <1>3
  <2> QED BY <2>1 DEF Others, AllObservations
<1>4. CASE m # r.mmsi
  <2>1. m \in DOMAIN ts /\ us[m] = ts[m]
    BY <1>1, <1>2, <1>4
  <2> QED BY <2>1 DEF AllObservations
<1> QED BY <1>3, <1>4

\* A reception is recorded in the same store, at the same instant.
LEMMA SplitApply ==
  ASSUME TypeInv, TypeInv', CoherentInv, RingInv, ObservationsInv, SplitInv, SplitFollow,
         ApplyRecord
  PROVE  SplitInv'
<1> DEFINE r == batch.records[loop.applied + 1]
           t == r.timestamp
           current == ExpiredBefore(r)
           reached == ExpireEach(ref.targets, t)
<1>1. /\ targets' = Record(current, r) /\ pc = "apply" /\ pc' = "apply"
      /\ totals' = [totals EXCEPT !.evictions = @ + Bump(MustEvict(current, r))]
      /\ loop' = [loop EXCEPT !.applied = @ + 1, !.expired = IF t > @ THEN t ELSE @]
      /\ UNCHANGED <<state, batch>>
  BY DEF ApplyRecord
<1>2. /\ ref' = [targets |-> Record(reached, r),
                 evictions |-> ref.evictions + Bump(MustEvict(reached, r))]
      /\ refClock' = t
  BY <1>1 DEF SplitFollow
<1>3. /\ r \in ReceptionRecord /\ t \in Nat /\ t <= state.elapsed
      /\ (loop.applied + 1) \in Pending
  BY NextPending, ReceptionFields
<1>4. /\ refClock \in Nat /\ loop.expired <= refClock /\ refClock <= t
      /\ ref = [targets |-> targets, evictions |-> totals.evictions]
      /\ loop.expired \in Int /\ loop \in LoopRecord
      /\ totals \in [receptions : Nat, receivedTransmissions : Nat, evictions : Nat]
  BY <1>3 DEF SplitInv, TypeInv, TypeOK, ControlTypeOK, LoopRecord
<1>5. /\ reached = Expire(targets, t) /\ (refClock = t => Expire(targets, t) = targets)
  BY <1>3, <1>4, ReferenceExpires
<1>6. current = Expire(targets, t)
  <2>1. CASE t > loop.expired
    BY <2>1 DEF ExpiredBefore
  <2>2. CASE ~(t > loop.expired)
    <3>1. refClock = t
      BY <1>3, <1>4, <2>2
    <3> QED BY <1>5, <2>2, <3>1 DEF ExpiredBefore
  <2> QED BY <2>1, <2>2
<1>7. /\ totals'.evictions = totals.evictions + Bump(MustEvict(current, r))
      /\ loop'.expired = IF t > loop.expired THEN t ELSE loop.expired
  <2> HIDE DEF r, current
  <2> QED BY <1>1, <1>4 DEF LoopRecord
<1>8. /\ ref' = [targets |-> targets', evictions |-> totals'.evictions]
      /\ targets' = [m \in DOMAIN targets' |-> targets'[m]]
  <2>1. ref.evictions = totals.evictions
    BY <1>4
  <2>2. reached = current
    BY <1>5, <1>6
  <2>3. Record(current, r) = [m \in DOMAIN Record(current, r) |-> Record(current, r)[m]]
    BY DEF Record
  <2> HIDE DEF r, current, reached
  <2> QED BY <1>1, <1>2, <1>7, <2>1, <2>2, <2>3
<1>9. \A o \in AllObservations(targets') : t - o.timestamp < ExpiryAge
  <2>1. \A o \in AllObservations(current) : t - o.timestamp < ExpiryAge
    <3>1. t \in Int /\ \A p \in AllObservations(targets) : p.timestamp \in Int
      BY <1>3, StoreShape
    <3> HIDE DEF r, current, t
    <3> QED BY <1>6, <3>1, YoungLeft
  <2>2. r.timestamp = t /\ t - t < ExpiryAge
    BY <1>3, LimitsAssumption
  <2>3. \A o \in AllObservations(Record(current, r)) : o = r \/ o \in AllObservations(current)
    <3> HIDE DEF current, r
    <3> QED BY RecordOnly
  <2> HIDE DEF current, r, t
  <2> QED BY <1>1, <2>1, <2>2, <2>3
<1>10. \A k \in Pending' : t <= batch'.records[k].timestamp
  <2>1. /\ Pending' = Pending \ {loop.applied + 1}
        /\ \A j \in Pending : j >= loop.applied + 1
        /\ \A j \in Pending : j \in Nat
        /\ loop.applied + 1 \in Nat
    BY NextPending, PendingFacts
  <2>2. \A k \in Pending' : k \in Pending /\ loop.applied + 1 < k
    BY <2>1
  <2>3. \A k \in Pending : loop.applied + 1 < k => t <= batch.records[k].timestamp
    BY <1>3 DEF RingInv, PendingOrdered
  <2> QED BY <1>1, <2>2, <2>3
<1>11. loop'.expired <= t
  BY <1>3, <1>4, <1>7
<1> HIDE DEF r, current, reached, t
<1> QED BY <1>1, <1>2, <1>3, <1>8, <1>9, <1>10, <1>11 DEF SplitInv, t

\* When a call is done, both stores expire at the committed instant.
LEMMA SplitFinish ==
  ASSUME TypeInv, ObservationsInv, ObservationsInv', SplitInv, SplitFollow, Finish
  PROVE  SplitInv'
<1>1. /\ targets' = Expire(targets, state.elapsed) /\ pc = "apply" /\ pc' = "idle"
      /\ state' = state /\ loop'.expired = -1
      /\ totals' = [totals EXCEPT !.receptions = batch.receptions,
                                  !.receivedTransmissions = batch.receivedTransmissions]
  BY DEF Finish, Drop, NoLoop
<1>2. totals'.evictions = totals.evictions
  BY <1>1 DEF TypeInv, TypeOK, ControlTypeOK
<1>3. /\ ref' = [ref EXCEPT !.targets = ExpireEach(@, state.elapsed)]
      /\ refClock' = state.elapsed
  BY <1>1 DEF SplitFollow
<1>4. /\ ref = [targets |-> targets, evictions |-> totals.evictions]
      /\ refClock <= state.elapsed /\ state.elapsed \in Nat
  BY StateFields DEF SplitInv
<1>5. ExpireEach(ref.targets, state.elapsed) = targets'
  BY <1>1, <1>4, ReferenceExpires
<1>6. ref' = [targets |-> targets', evictions |-> totals'.evictions]
  BY <1>2, <1>3, <1>4, <1>5
<1>7. targets' = [m \in DOMAIN targets' |-> targets'[m]]
  BY <1>1 DEF Expire, RemoveObservations
<1>8. /\ refClock' \in Nat /\ refClock' = state'.elapsed /\ refClock' <= state'.elapsed
      /\ loop'.expired <= refClock'
  BY <1>1, <1>3, <1>4
<1>9. Pending' = {}
  BY <1>1 DEF Pending
<1>10. \A r \in AllObservations(targets') : refClock' - r.timestamp < ExpiryAge
  BY <1>1, <1>8 DEF ObservationsInv
<1> QED BY <1>6, <1>7, <1>8, <1>9, <1>10 DEF SplitInv

LEMMA SplitStep ==
  ASSUME TypeInv, TypeInv', HistoryInv, ClockInv, CoherentInv, StoreInv, StoreInv', SplitInv,
         [Next /\ SplitFollow]_<<vars, ref, refClock>>
  PROVE  SplitInv'
<1>1. RingInv /\ ObservationsInv /\ ObservationsInv'
  BY DEF StoreInv
<1>2. CASE Next /\ SplitFollow /\ pc = "apply"
  <2>1. ApplyRecord \/ Finish
    BY <1>2 DEF Next, BeginSetCount, BeginAdvance, BeginElapse, StartAdvance, SetSpeed,
                AddStation, UpdateStation, RemoveStation, Idle, Spawn, SpawnFails, TickVessel,
                TickEnd, Cancel, ReceiveFails, ReceiveEnd, Commit, Receive
  <2> QED BY <1>1, <1>2, <2>1, SplitApply, SplitFinish
<1>3. CASE Next /\ SplitFollow /\ pc = "idle"
  BY <1>1, <1>3, SplitIdle
<1>4. CASE Next /\ SplitFollow /\ pc \notin {"idle", "apply"}
  BY <1>1, <1>4, SplitWorking
<1>5. CASE UNCHANGED <<vars, ref, refClock>>
  BY <1>5 DEF SplitInv, vars, Pending, AllObservations
<1> QED BY <1>2, <1>3, <1>4, <1>5

\* For every configuration and every history of calls, failures and station edits: the
\* observations and the eviction count are those of unit calls.
THEOREM SplitCorrect == SplitSpec => []SplitIndependent
<1>1. SplitInit => Init
  BY DEF SplitInit
<1>2. [Next /\ SplitFollow]_<<vars, ref, refClock>> => [Next]_vars
  OBVIOUS
<1>3. SplitInv => SplitIndependent
  BY DEF SplitInv, SplitIndependent
<1>4. EngineInv /\ EngineInv' /\ SplitInv /\ [Next /\ SplitFollow]_<<vars, ref, refClock>>
        => SplitInv'
  BY SplitStep DEF EngineInv
<1> QED BY <1>1, <1>2, <1>3, <1>4, SplitStarts, StoreAlways, PTL DEF Spec, SplitSpec

-----------------------------------------------------------------------------
(***************************************************************************)
(* Limits                                                                  *)
(***************************************************************************)
\* What New starts with and the guards of AddStation keep: the revisions count from 1,
\* and there are never more stations than the API allows, numbered from 1.
LimitsInv ==
  /\ state.revision >= 1 /\ state.stationRevision >= 1
  /\ state.lastStationID <= MaxRevision
  /\ Len(state.stations) <= MaxStations
  /\ \A i \in DOMAIN state.stations : state.stations[i].id >= 1

\* A new run is within the limits.
LEMMA LimitsInit == Init => LimitsInv
<1> SUFFICES ASSUME Init PROVE LimitsInv
  OBVIOUS
<1>1. /\ InitialStations \in Seq(Definitions) /\ Len(InitialStations) \in Nat
      /\ DOMAIN InitialStations = 1..Len(InitialStations)
      /\ Len(InitialStations) <= MaxStations /\ Len(InitialStations) <= MaxRevision
  BY ConfigAssumption, LenProperties
<1> DEFINE ss == [i \in DOMAIN InitialStations |-> NewStation(i, InitialStations[i], 0)]
<1>2. /\ state.revision = 1 /\ state.stationRevision = 1
      /\ state.lastStationID = Len(InitialStations) /\ state.stations = ss
  BY DEF Init, FirstRevision
<1>3. Len(ss) = Len(InitialStations)
  <2>1. ss \in Seq({NewStation(i, InitialStations[i], 0) : i \in DOMAIN InitialStations})
    BY <1>1
  <2> QED BY <1>1, <2>1
<1>4. \A i \in DOMAIN ss : ss[i].id >= 1
  BY <1>1 DEF NewStation
<1> HIDE DEF ss
<1> QED BY <1>1, <1>2, <1>3, <1>4 DEF LimitsInv

\* The stations of the committed state change only by an edit.
LEMMA StationsKeptOrEdited ==
  ASSUME TypeInv, [Next]_vars
  PROVE  \/ state'.stations = state.stations /\ state'.lastStationID = state.lastStationID
         \/ \E expected \in FirstRevision..MaxRevision, d \in Definitions :
              AddStation(expected, d)
         \/ \E expected \in FirstRevision..MaxRevision, id \in StationIDs, d \in Definitions :
              UpdateStation(expected, id, d)
         \/ \E expected \in FirstRevision..MaxRevision, id \in StationIDs :
              RemoveStation(expected, id)
<1> DEFINE Same == state'.stations = state.stations /\ state'.lastStationID = state.lastStationID
<1>0. state \in StateRecord /\ next \in StateRecord
  BY DEF TypeInv, TypeOK, StateTypeOK
<1>1. UNCHANGED state => Same
  OBVIOUS
<1>2. UNCHANGED vars => UNCHANGED state
  BY DEF vars
<1>3. ASSUME NEW speed \in Speeds, SetSpeed(speed) PROVE Same
  BY <1>0, <1>3 DEF SetSpeed, StateRecord
<1>4. ASSUME Commit PROVE Same
  <2>1. SameStations(next) /\ state' = [next EXCEPT !.elapsed = loop.target]
    BY <1>4 DEF Commit, TypeInv, StagedShape, Working
  <2> QED BY <1>0, <2>1 DEF SameStations, StateRecord
<1>5. ASSUME \/ \E count \in 0..MaxVessels : BeginSetCount(count)
             \/ \E delta \in VirtualDeltas : BeginAdvance(delta)
             \/ \E delta \in RealDeltas : BeginElapse(delta)
      PROVE  UNCHANGED state
  BY SMTT(30), <1>5, BeginShape
<1>6. ASSUME Spawn \/ SpawnFails \/ TickVessel \/ TickEnd \/ Cancel
             \/ (\E outcome \in Outcomes : Receive(outcome)) \/ ReceiveFails \/ ReceiveEnd
             \/ ApplyRecord \/ Finish
      PROVE  UNCHANGED state
  BY <1>6 DEF Spawn, SpawnFails, TickVessel, TickEnd, Cancel, Receive, ReceiveFails, ReceiveEnd,
              ApplyRecord, Finish, Send
<1> HIDE DEF Same
<1>7. ASSUME Next
      PROVE  \/ Same
             \/ \E expected \in FirstRevision..MaxRevision, d \in Definitions :
                  AddStation(expected, d)
             \/ \E expected \in FirstRevision..MaxRevision, id \in StationIDs, d \in Definitions :
                  UpdateStation(expected, id, d)
             \/ \E expected \in FirstRevision..MaxRevision, id \in StationIDs :
                  RemoveStation(expected, id)
  <2>1. CASE UNCHANGED state
    BY <1>1, <2>1
  <2>2. CASE Commit
    BY <1>4, <2>2
  <2>3. CASE \E speed \in Speeds : SetSpeed(speed)
    BY <1>3, <2>3
  <2> QED BY <1>5, <1>6, <1>7, <2>1, <2>2, <2>3 DEF Next
<1> QED BY <1>1, <1>2, <1>7 DEF Same

\* No step leaves the limits.
LEMMA LimitsStep ==
  ASSUME TypeInv, StagedRevision, LimitsInv, [Next]_vars
  PROVE  LimitsInv'
<1>0. /\ state \in StateRecord /\ state.lastStationID \in Nat
      /\ state.revision \in Nat /\ state.stationRevision \in Nat
      /\ state.stations \in Seq(Station) /\ Len(state.stations) \in Nat
      /\ DOMAIN state.stations = 1..Len(state.stations)
      /\ MaxRevision \in Nat /\ MaxStations \in Nat
  BY StateFields, LimitsAssumption, LenProperties
<1>1. state'.revision >= 1 /\ state'.stationRevision >= 1
  <2>1. [EditStep]_vars
    BY RevisionStep
  <2>2. /\ state'.revision >= state.revision
        /\ state'.stationRevision >= state.stationRevision
    <3>1. CASE UNCHANGED vars
      BY <1>0, <3>1 DEF vars
    <3>2. CASE EditStep
      BY <3>2 DEF EditStep
    <3> QED BY <2>1, <3>1, <3>2
  <2>3. state' \in StateRecord
    BY TypeStep DEF TypeInv, TypeOK, StateTypeOK
  <2>4. state'.revision \in Nat /\ state'.stationRevision \in Nat
    BY <2>3 DEF StateRecord
  <2> QED BY <1>0, <2>2, <2>4 DEF LimitsInv
<1>2. CASE state'.stations = state.stations /\ state'.lastStationID = state.lastStationID
  BY <1>1, <1>2 DEF LimitsInv
<1>3. ASSUME NEW expected, NEW d \in Definitions, AddStation(expected, d) PROVE LimitsInv'
  <2> DEFINE s == NewStation(state.lastStationID + 1, d, state.elapsed)
  <2>1. /\ state'.stations = Append(state.stations, s)
        /\ state'.lastStationID = state.lastStationID + 1
        /\ Len(state.stations) < MaxStations /\ state.lastStationID < MaxRevision
    BY <1>0, <1>3 DEF AddStation, NextStationID, StateRecord
  <2>2. s \in Station /\ s.id = state.lastStationID + 1
    BY <1>0, StateFields, NewStationType DEF NewStation
  <2> HIDE DEF s
  <2>3. /\ Len(state'.stations) = Len(state.stations) + 1
        /\ DOMAIN state'.stations = 1..(Len(state.stations) + 1)
        /\ \A i \in 1..Len(state.stations) : state'.stations[i] = state.stations[i]
        /\ state'.stations[Len(state.stations) + 1] = s
    <3>1. Append(state.stations, s) \in Seq(Station)
      BY <1>0, <2>2
    <3> QED BY <1>0, <2>1, <2>2, <3>1, AppendProperties, LenProperties
  <2>4. Len(state'.stations) <= MaxStations /\ state'.lastStationID <= MaxRevision
    BY <1>0, <2>1, <2>3
  <2>5. ASSUME NEW i \in DOMAIN state'.stations PROVE state'.stations[i].id >= 1
    <3>1. i \in 1..Len(state.stations) \/ i = Len(state.stations) + 1
      BY <1>0, <2>3
    <3>2. CASE i \in 1..Len(state.stations)
      BY <1>0, <2>3, <3>2 DEF LimitsInv
    <3>3. CASE i = Len(state.stations) + 1
      BY <1>0, <2>2, <2>3, <3>3
    <3> QED BY <3>1, <3>2, <3>3
  <2> QED BY <1>1, <2>4, <2>5 DEF LimitsInv
<1>4. ASSUME NEW expected, NEW id \in StationIDs, NEW d \in Definitions,
             UpdateStation(expected, id, d)
      PROVE  LimitsInv'
  <2> DEFINE k == StationIndex(id)
             s == Edited(state.stations[k], d)
  <2>1. /\ state'.stations = [state.stations EXCEPT ![k] = s]
        /\ state'.lastStationID = state.lastStationID
    BY <1>0, <1>4 DEF UpdateStation, StateRecord
  <2>2. k \in DOMAIN state.stations
    BY StationIndexType
  <2>3. state.stations[k] \in Station
    BY <2>2, StationFacts
  <2>4. s.id = state.stations[k].id /\ s \in Station
    BY <2>3, StateFields, EditedType
  <2> HIDE DEF s, k
  <2>5. /\ Len(state'.stations) = Len(state.stations)
        /\ DOMAIN state'.stations = DOMAIN state.stations
        /\ \A i \in DOMAIN state.stations :
             state'.stations[i] = IF i = k THEN s ELSE state.stations[i]
    BY <1>0, <2>1, <2>2, <2>4, ExceptSeq
  <2>6. \A i \in DOMAIN state.stations : state'.stations[i].id = state.stations[i].id
    BY <2>4, <2>5
  <2> QED BY <1>1, <2>1, <2>5, <2>6 DEF LimitsInv
<1>5. ASSUME NEW expected, NEW id \in StationIDs, RemoveStation(expected, id)
      PROVE  LimitsInv'
  <2> DEFINE ss == state.stations
             i == StationIndex(id)
             rs == RemoveAt(ss, i)
  <2>1. state'.stations = rs /\ state'.lastStationID = state.lastStationID
    BY <1>0, <1>5 DEF RemoveStation, StateRecord
  <2>2. i \in 1..Len(ss)
    BY <1>0, StationIndexType
  <2>3. /\ rs \in Seq(Station) /\ Len(rs) = Len(ss) - 1
        /\ \A k \in 1..(Len(ss) - 1) : rs[k] = IF k < i THEN ss[k] ELSE ss[k + 1]
    <3> HIDE DEF ss, i
    <3> QED BY <1>0, <2>2, RemoveAtProperties DEF ss
  <2>4. \A k \in 1..(Len(ss) - 1) : rs[k].id >= 1
    <3> SUFFICES ASSUME NEW k \in 1..(Len(ss) - 1) PROVE rs[k].id >= 1
      OBVIOUS
    <3> HIDE DEF rs, i
    <3>1. k \in DOMAIN ss /\ k + 1 \in DOMAIN ss
      BY <1>0
    <3>2. ss[k].id >= 1 /\ ss[k + 1].id >= 1
      BY <3>1 DEF LimitsInv
    <3>3. rs[k] = ss[k] \/ rs[k] = ss[k + 1]
      BY <2>3
    <3> QED BY <3>2, <3>3
  <2> HIDE DEF rs, i
  <2>5. DOMAIN rs = 1..(Len(ss) - 1)
    BY <2>3, LenProperties
  <2>6. Len(rs) <= MaxStations
    BY <1>0, <2>3 DEF LimitsInv
  <2> HIDE DEF ss
  <2> QED BY <1>1, <2>1, <2>4, <2>5, <2>6 DEF LimitsInv
<1> QED BY <1>2, <1>3, <1>4, <1>5, StationsKeptOrEdited

\* A call begins with what is committed.
LEMMA BeginFacts ==
  ASSUME TypeInv, \/ \E count \in 0..MaxVessels : BeginSetCount(count)
                  \/ \E delta \in VirtualDeltas : BeginAdvance(delta)
                  \/ \E delta \in RealDeltas : BeginElapse(delta)
  PROVE  /\ pc = "idle" /\ pc' \in {"spawn", "tick"}
         /\ UNCHANGED <<state, stats, history, targets, totals>>
         /\ batch' = StageReceptions(state.stations) /\ next'.sequence = state.sequence
<1>0. state \in StateRecord
  BY DEF TypeInv, TypeOK, StateTypeOK
<1>1. ASSUME NEW n \in StateRecord, NEW delta, NEW credit, StartAdvance(n, delta, credit),
             n.stations = state.stations, n.sequence = state.sequence
      PROVE  /\ pc = "idle" /\ pc' = "tick"
             /\ UNCHANGED <<state, stats, history, targets, totals>>
             /\ batch' = StageReceptions(state.stations) /\ next'.sequence = state.sequence
  BY <1>1 DEF StartAdvance, Idle, StateRecord
<1>2. ASSUME NEW count, BeginSetCount(count)
      PROVE  /\ pc = "idle" /\ pc' = "spawn"
             /\ UNCHANGED <<state, stats, history, targets, totals>>
             /\ batch' = StageReceptions(state.stations) /\ next'.sequence = state.sequence
  BY <1>0, <1>2 DEF BeginSetCount, Idle, StateRecord
<1>3. CASE \E count \in 0..MaxVessels : BeginSetCount(count)
  BY <1>2, <1>3
<1>4. CASE \E delta \in VirtualDeltas : BeginAdvance(delta)
  BY <1>0, <1>1, <1>4 DEF BeginAdvance
<1>5. CASE \E delta \in RealDeltas : BeginElapse(delta)
  <2>1. PICK delta \in RealDeltas : BeginElapse(delta)
    BY <1>5
  <2> DEFINE scaled == delta * state.speed + state.remainder
             n == [state EXCEPT !.remainder = scaled % SpeedScale]
  <2>2. scaled % SpeedScale \in Nat
    <3>1. delta * state.speed \in Nat /\ state.remainder \in Nat /\ SpeedScale \in Nat \ {0}
      <4>1. delta \in Nat /\ state.speed \in Nat /\ state.remainder \in Nat
        BY StateFields, InputsAssumption
      <4> QED BY <4>1, LimitsAssumption
    <3>2. scaled \in Nat
      BY <3>1
    <3> HIDE DEF scaled
    <3> QED BY <3>1, <3>2, DivMod
  <2>3. StartAdvance(n, scaled \div SpeedScale, delta * state.speed)
    BY <2>1 DEF BeginElapse
  <2> HIDE DEF scaled
  <2>4. n \in StateRecord /\ n.stations = state.stations /\ n.sequence = state.sequence
    BY <1>0, <2>2 DEF StateRecord
  <2> HIDE DEF n
  <2> QED BY <1>1, <2>3, <2>4
<1> QED BY <1>3, <1>4, <1>5

\* Between calls, counters appear empty or disappear.
LEMMA EditFacts ==
  ASSUME TypeInv, TypeInv',
         \/ \E speed \in Speeds : SetSpeed(speed)
         \/ \E expected \in FirstRevision..MaxRevision, d \in Definitions : AddStation(expected, d)
         \/ \E expected \in FirstRevision..MaxRevision, id \in StationIDs, d \in Definitions : UpdateStation(expected, id, d)
         \/ \E expected \in FirstRevision..MaxRevision, id \in StationIDs : RemoveStation(expected, id)
  PROVE  /\ pc = "idle" /\ pc' = "idle" /\ totals' = totals
         /\ state'.sequence = state.sequence
         /\ \A id \in StationIDs' : \/ id \in StationIDs /\ stats'[id] = stats[id]
                                    \/ id \notin StationIDs /\ stats'[id] = NewStats
<1>0. /\ state \in StateRecord /\ DOMAIN stats = StationIDs /\ DOMAIN stats' = StationIDs'
  BY DEF TypeInv, TypeOK, StateTypeOK, StatsTypeOK
<1> DEFINE Shape ==
      /\ pc = "idle" /\ pc' = "idle" /\ totals' = totals
      /\ state'.sequence = state.sequence
      /\ \A id \in StationIDs' : \/ id \in StationIDs /\ stats'[id] = stats[id]
                                 \/ id \notin StationIDs /\ stats'[id] = NewStats
<1>1. ASSUME NEW speed, SetSpeed(speed) PROVE Shape
  <2>1. /\ state'.sequence = state.sequence /\ UNCHANGED <<totals, stats, pc>> /\ pc = "idle"
    BY <1>0, <1>1 DEF SetSpeed, StateRecord, Idle
  <2> QED BY <1>0, <2>1
<1>2. ASSUME NEW expected, NEW d, AddStation(expected, d) PROVE Shape
  <2> DEFINE id == state.lastStationID + 1
  <2>1. /\ state'.sequence = state.sequence
        /\ pc = "idle" /\ pc' = pc /\ totals' = totals
        /\ stats' = [k \in DOMAIN stats \cup {id} |-> IF k = id THEN NewStats ELSE stats[k]]
    BY <1>0, <1>2 DEF AddStation, NextStationID, StateRecord, Idle
  <2>2. id \notin StationIDs
    <3>1. ASSUME NEW i \in DOMAIN state.stations, state.stations[i].id = id PROVE FALSE
      <4>1. state.stations[i].id <= state.lastStationID /\ state.lastStationID \in Nat
        BY StateFields DEF TypeInv, StationIDsOrdered
      <4> QED BY <3>1, <4>1
    <3> HIDE DEF id
    <3> QED BY <3>1 DEF StationIDs
  <2> HIDE DEF id
  <2>3. ASSUME NEW x \in StationIDs'
        PROVE  \/ x \in StationIDs /\ stats'[x] = stats[x]
               \/ x \notin StationIDs /\ stats'[x] = NewStats
    <3>1. x \in StationIDs \cup {id}
      BY <1>0, <2>1, <2>3
    <3>2. CASE x = id
      BY <1>0, <2>1, <2>2, <3>2
    <3>3. CASE x # id
      BY <1>0, <2>1, <3>1, <3>3
    <3> QED BY <3>2, <3>3
  <2> QED BY <2>1, <2>3
<1>3. ASSUME NEW expected, NEW id, NEW d, UpdateStation(expected, id, d) PROVE Shape
  <2>1. /\ state'.sequence = state.sequence
        /\ pc = "idle" /\ pc' = pc /\ UNCHANGED <<totals, stats>>
    BY <1>0, <1>3 DEF UpdateStation, StateRecord, Idle
  <2> QED BY <1>0, <2>1
<1>4. ASSUME NEW expected, NEW id, RemoveStation(expected, id) PROVE Shape
  <2>1. /\ state'.sequence = state.sequence
        /\ pc = "idle" /\ pc' = pc /\ totals' = totals
        /\ stats' = [k \in DOMAIN stats \ {id} |-> stats[k]]
    BY <1>0, <1>4 DEF RemoveStation, Without, StateRecord, Idle
  <2> QED BY <1>0, <2>1
<1> HIDE DEF Shape
<1>5. Shape
  BY <1>1, <1>2, <1>3, <1>4
<1> QED BY <1>5 DEF Shape

-----------------------------------------------------------------------------
(***************************************************************************)
(* What is stored, and what it says of its transmission                    *)
(***************************************************************************)
\* The receptions that the store holds, and those that it is about to hold.
Stored == AllObservations(targets) \cup UNION {Elements(history[id]) : id \in StationIDs}
Held == Stored \cup {batch.records[k] : k \in Pending}

\* An observation is a reception of a configured station that its ring has seen.
ObservedFits ==
  \A r \in AllObservations(targets) :
    /\ \E i \in DOMAIN state.stations : Fits(r, state.stations[i])
    /\ 1 <= r.sequence /\ r.sequence <= Top(r.station)
    /\ r.transmission <= state.sequence

\* What two receptions say of one transmission.
SameTransmission(a, b) ==
  a.mmsi = b.mmsi /\ a.channel = b.channel /\ a.timestamp = b.timestamp

\* A sequence of a station stands for one transmission, and all that hear a
\* transmission hear the same.
Agreement ==
  \A a, b \in Held :
    /\ a.station = b.station /\ a.sequence = b.sequence => a.transmission = b.transmission
    /\ a.transmission = b.transmission => SameTransmission(a, b)

\* The report in progress is what its receptions so far say.
InProgress ==
  pc = "receive" =>
    \A r \in Held : r.transmission = next.sequence => SameTransmission(r, Last(reports))

SourceInv == ObservedFits /\ Agreement /\ InProgress

\* Stations that stay keep their observations.
LEMMA ObservedSame ==
  ASSUME TypeInv, TypeInv', ObservationsInv, ObservedFits, state.sequence <= state'.sequence,
         \A r \in AllObservations(targets') :
           /\ r \in AllObservations(targets) /\ history'[r.station] = history[r.station]
           /\ \A i \in DOMAIN state.stations :
                Fits(r, state.stations[i]) =>
                  \E j \in DOMAIN state'.stations : Fits(r, state'.stations[j])
  PROVE  ObservedFits'
<1>1. state.sequence \in Nat /\ state'.sequence \in Nat
  BY StateFields DEF TypeInv, TypeOK, StateTypeOK, StateRecord
<1> SUFFICES ASSUME NEW r \in AllObservations(targets')
             PROVE  /\ \E i \in DOMAIN state'.stations : Fits(r, state'.stations[i])
                    /\ 1 <= r.sequence /\ r.sequence <= Top(r.station)'
                    /\ r.transmission <= state'.sequence
  BY DEF ObservedFits
<1>2. r \in AllObservations(targets) /\ history'[r.station] = history[r.station]
  OBVIOUS
<1>3. r.transmission \in Nat
  BY <1>2, ObservationFacts, ReceptionFields
<1>4. Top(r.station)' = Top(r.station)
  BY <1>2, TopSame
<1>5. \E i \in DOMAIN state'.stations : Fits(r, state'.stations[i])
  BY <1>2 DEF ObservedFits
<1>6. 1 <= r.sequence /\ r.sequence <= Top(r.station) /\ r.transmission <= state.sequence
  BY <1>2 DEF ObservedFits
<1> QED BY <1>1, <1>3, <1>4, <1>5, <1>6

\* A step that leaves the stations and the rings alone.
LEMMA ObservedStill ==
  ASSUME TypeInv, TypeInv', ObservationsInv, ObservedFits, history' = history,
         state'.stations = state.stations, state.sequence <= state'.sequence,
         AllObservations(targets') \subseteq AllObservations(targets)
  PROVE  ObservedFits'
BY ObservedSame

\* A reception that is applied is the newest of its station.
LEMMA ObservedApply ==
  ASSUME TypeInv, TypeInv', CoherentInv, RingInv, ObservationsInv, ObservedFits, ApplyRecord,
         NEW k, k = loop.applied + 1, NEW r, r = batch.records[k]
  PROVE  ObservedFits'
<1> DEFINE h == history[r.station]
<1>1. /\ k \in Pending /\ r \in ReceptionRecord /\ r.station \in StationIDs
      /\ r.sequence = Top(r.station) + 1 /\ r.transmission <= state.sequence
  BY NextPending
<1>2. \A o \in AllObservations(targets') : o = r \/ o \in AllObservations(targets)
  BY ApplyShape
<1>3. /\ state' = state /\ history' = [history EXCEPT ![r.station] = Push(h, r)]
      /\ pc = "apply"
  BY DEF ApplyRecord
<1>4. \E i \in DOMAIN state.stations : Fits(r, state.stations[i])
  <2>1. k \in DOMAIN batch.records
    BY <1>1, PendingFacts
  <2> QED BY <1>3, <2>1 DEF CoherentInv, BatchFits
<1>5. /\ DOMAIN history = StationIDs /\ h \in Seq(ReceptionRecord) /\ Len(h) <= ReceptionHistoryLimit
      /\ Top(r.station) \in Nat
  <2>1. RingShape(r.station)
    BY <1>1 DEF RingInv, RingsExact
  <2>2. Top(r.station) \in Nat /\ h \in Seq(ReceptionRecord)
    BY SMTT(30), <1>1, RingFacts
  <2>3. Len(h) = Minimum(Top(r.station), ReceptionHistoryLimit) /\ ReceptionHistoryLimit \in Nat
    BY <2>1, LimitsAssumption DEF RingShape
  <2> QED BY <2>2, <2>3, StationFacts DEF Minimum
<1> DEFINE p == Push(h, r)
<1>6. /\ Len(p) \in Nat \ {0} /\ p[Len(p)] = r
  BY <1>1, <1>5, PushShape
<1>7. history'[r.station] = p
  BY <1>1, <1>3, <1>5
<1>8. Top(r.station)' = r.sequence
  <2>1. p # <<>>
    BY <1>6
  <2> HIDE DEF p
  <2> QED BY <1>6, <1>7, <2>1 DEF Top
<1> SUFFICES ASSUME NEW o \in AllObservations(targets')
             PROVE  /\ \E i \in DOMAIN state'.stations : Fits(o, state'.stations[i])
                    /\ 1 <= o.sequence /\ o.sequence <= Top(o.station)'
                    /\ o.transmission <= state'.sequence
  BY DEF ObservedFits
<1> HIDE DEF p, h
<1>9. CASE o = r
  BY <1>1, <1>3, <1>4, <1>5, <1>8, <1>9
<1>10. CASE o # r
  <2>1. o \in AllObservations(targets)
    BY <1>2, <1>10
  <2>2. /\ \E i \in DOMAIN state.stations : Fits(o, state.stations[i])
        /\ 1 <= o.sequence /\ o.sequence <= Top(o.station)
        /\ o.transmission <= state.sequence
    BY <2>1 DEF ObservedFits
  <2>3. CASE o.station = r.station
    <3>1. o.sequence \in Nat
      BY <2>1, ObservationFacts, ReceptionFields
    <3> QED BY <1>1, <1>3, <1>5, <1>8, <2>2, <2>3, <3>1
  <2>4. CASE o.station # r.station
    <3>1. o.station \in StationIDs
      BY <2>1 DEF ObservationsInv
    <3>2. history'[o.station] = history[o.station]
      BY <1>3, <1>5, <2>4, <3>1
    <3> QED BY <1>3, <2>2, <3>2, TopSame
  <2> QED BY <2>3, <2>4
<1> QED BY <1>9, <1>10

\* A new station has a new ID, and leaves the others in place.
LEMMA ObservedAdd ==
  ASSUME TypeInv, TypeInv', ObservationsInv, ObservedFits,
         NEW expected, NEW d \in Definitions, AddStation(expected, d)
  PROVE  ObservedFits'
<1> DEFINE s == NewStation(state.lastStationID + 1, d, state.elapsed)
           id == state.lastStationID + 1
<1>0. /\ state \in StateRecord /\ state.lastStationID \in Nat /\ state.elapsed \in Nat
      /\ state.stations \in Seq(Station) /\ Len(state.stations) \in Nat
      /\ DOMAIN state.stations = 1..Len(state.stations) /\ DOMAIN history = StationIDs
      /\ state.sequence \in Nat
  BY StateFields, StationFacts, LenProperties
<1>1. /\ state'.stations = Append(state.stations, s) /\ state'.sequence = state.sequence
      /\ targets' = targets
      /\ history' = [k \in DOMAIN history \cup {id} |-> IF k = id THEN <<>> ELSE history[k]]
  BY <1>0 DEF AddStation, NextStationID, StateRecord
<1>2. s \in Station
  BY <1>0, NewStationType
<1> HIDE DEF s
<1>3. /\ DOMAIN state'.stations = 1..(Len(state.stations) + 1)
      /\ \A i \in 1..Len(state.stations) : state'.stations[i] = state.stations[i]
  <2>1. Append(state.stations, s) \in Seq(Station)
    BY <1>0, <1>2
  <2> QED BY <1>0, <1>1, <1>2, <2>1, AppendProperties, LenProperties
<1>4. ASSUME NEW r \in AllObservations(targets)
      PROVE  history'[r.station] = history[r.station]
  <2>1. r.station \in StationIDs
    BY DEF ObservationsInv
  <2>2. PICK i \in DOMAIN state.stations : state.stations[i].id = r.station
    BY <2>1 DEF StationIDs
  <2>3. r.station <= state.lastStationID /\ r.station \in Nat
    BY <2>2, StationFacts DEF TypeInv, StationIDsOrdered
  <2>4. r.station # id
    BY <1>0, <2>3
  <2> HIDE DEF id
  <2> QED BY <1>0, <1>1, <2>1, <2>4
<1>5. \A i \in DOMAIN state.stations :
        i \in DOMAIN state'.stations /\ state'.stations[i] = state.stations[i]
  BY <1>0, <1>3
<1>6. state.sequence <= state'.sequence
  BY <1>0, <1>1
<1> HIDE DEF id
<1>7. \A r \in AllObservations(targets') :
           /\ r \in AllObservations(targets) /\ history'[r.station] = history[r.station]
           /\ \A i \in DOMAIN state.stations :
                Fits(r, state.stations[i]) =>
                  \E j \in DOMAIN state'.stations : Fits(r, state'.stations[j])
  BY <1>1, <1>4, <1>5
<1> QED BY <1>6, <1>7, ObservedSame

\* An edit comes after what was received, which fits the station still.
LEMMA ObservedUpdate ==
  ASSUME TypeInv, TypeInv', CoherentInv, ObservationsInv, ObservedFits,
         NEW expected, NEW id \in StationIDs, NEW d \in Definitions,
         UpdateStation(expected, id, d)
  PROVE  ObservedFits'
<1> DEFINE i == StationIndex(id)
           s == state.stations[i]
           e == Edited(s, d)
<1>1. /\ state'.stations = [state.stations EXCEPT ![i] = e]
      /\ state'.sequence = state.sequence /\ UNCHANGED <<targets, history>>
      /\ state.sequence \in Nat
  BY StateFields DEF UpdateStation, StateRecord
<1>2. i \in DOMAIN state.stations /\ s \in Station
  <2>1. i \in DOMAIN state.stations
    BY StationIndexType
  <2> HIDE DEF i
  <2> QED BY <2>1, StationFacts
<1> HIDE DEF i, s
<1>3. ASSUME NEW r \in AllObservations(targets), Fits(r, s) PROVE Fits(r, e)
  <2>1. r \in ReceptionRecord /\ r.timestamp <= state.elapsed
    BY ObservationFacts
  <2> QED BY <1>2, <1>3, <2>1, FitsEdited
<1> HIDE DEF e
<1>5. /\ DOMAIN state'.stations = DOMAIN state.stations
      /\ state'.stations[i] = e
      /\ \A j \in DOMAIN state.stations : j # i => state'.stations[j] = state.stations[j]
  BY <1>1, <1>2
<1>6. ASSUME NEW r \in AllObservations(targets), NEW j \in DOMAIN state.stations,
             Fits(r, state.stations[j])
      PROVE  Fits(r, state'.stations[j])
  <2>1. CASE j # i
    BY <1>5, <1>6, <2>1
  <2>2. CASE j = i
    <3>1. Fits(r, s)
      BY <1>6, <2>2 DEF s
    <3> QED BY <1>3, <1>5, <2>2, <3>1
  <2> QED BY <2>1, <2>2
<1>7. state.sequence <= state'.sequence
  BY <1>1
<1>8. \A r \in AllObservations(targets') :
           /\ r \in AllObservations(targets) /\ history'[r.station] = history[r.station]
           /\ \A j \in DOMAIN state.stations :
                Fits(r, state.stations[j]) =>
                  \E k \in DOMAIN state'.stations : Fits(r, state'.stations[k])
  BY <1>1, <1>5, <1>6
<1> QED BY <1>7, <1>8, ObservedSame

\* The observations of a removed station go with it.
LEMMA ObservedRemove ==
  ASSUME TypeInv, TypeInv', ObservationsInv, ObservedFits,
         NEW expected, NEW id \in StationIDs, RemoveStation(expected, id)
  PROVE  ObservedFits'
<1> DEFINE ss == state.stations
           i == StationIndex(id)
           rs == RemoveAt(ss, i)
           gone == {r \in AllObservations(targets) : r.station = id}
<1>0. /\ state.stations \in Seq(Station) /\ Len(state.stations) \in Nat
      /\ DOMAIN state.stations = 1..Len(state.stations) /\ DOMAIN history = StationIDs
      /\ state.sequence \in Nat
  BY StateFields, StationFacts, LenProperties
<1>1. /\ state'.stations = rs /\ state'.sequence = state.sequence
      /\ history' = Without(history, id)
      /\ targets' = RemoveObservations(targets, gone)
  BY StateFields DEF RemoveStation, StateRecord
<1>2. AllObservations(targets') = AllObservations(targets) \ gone
  <2>1. TargetsType(targets) /\ TargetsFit(targets, state.elapsed)
    BY ObservationFacts DEF ObservationsInv
  <2> HIDE DEF gone
  <2> QED BY <1>1, <2>1, RemoveFits
<1>3. i \in 1..Len(ss) /\ ss[i].id = id
  BY <1>0, StationIndexType
<1>4. /\ rs \in Seq(Station) /\ Len(rs) = Len(ss) - 1
      /\ \A k \in 1..(Len(ss) - 1) : rs[k] = IF k < i THEN ss[k] ELSE ss[k + 1]
  <2> HIDE DEF ss, i
  <2> QED BY <1>0, <1>3, RemoveAtProperties DEF ss
<1> HIDE DEF rs, i
<1>5. DOMAIN rs = 1..(Len(ss) - 1)
  BY <1>4, LenProperties
<1>6. ASSUME NEW j \in DOMAIN ss, ss[j].id # id
      PROVE  \E k \in DOMAIN rs : rs[k] = ss[j]
  <2>1. j \in 1..Len(ss) /\ j # i
    BY <1>0, <1>3, <1>6
  <2>2. CASE j < i
    <3>1. j \in 1..(Len(ss) - 1)
      BY <1>0, <1>3, <2>1, <2>2
    <3> QED BY <1>4, <1>5, <2>2, <3>1
  <2>3. CASE j > i
    <3>1. j - 1 \in 1..(Len(ss) - 1) /\ ~(j - 1 < i) /\ (j - 1) + 1 = j
      BY <1>0, <1>3, <2>1, <2>3
    <3>2. rs[j - 1] = ss[j]
      BY <1>4, <3>1
    <3> QED BY <1>5, <3>1, <3>2
  <2> QED BY <1>0, <1>3, <2>1, <2>2, <2>3
<1>7. ASSUME NEW r \in AllObservations(targets') 
      PROVE  /\ r \in AllObservations(targets) /\ history'[r.station] = history[r.station]
             /\ \A j \in DOMAIN state.stations :
                  Fits(r, state.stations[j]) =>
                    \E k \in DOMAIN state'.stations : Fits(r, state'.stations[k])
  <2>1. r \in AllObservations(targets) /\ r.station # id
    BY <1>2
  <2>2. r.station \in StationIDs
    BY <2>1 DEF ObservationsInv
  <2>3. history'[r.station] = history[r.station]
    BY <1>0, <1>1, <2>1, <2>2 DEF Without
  <2>4. \A j \in DOMAIN ss : Fits(r, ss[j]) => ss[j].id # id
    BY <2>1 DEF Fits
  <2> QED BY <1>1, <1>6, <2>1, <2>3, <2>4
<1> QED BY <1>0, <1>1, <1>7, ObservedSame

\* Only applying a record or an edit touches what is observed.
LEMMA ObservedStep ==
  ASSUME TypeInv, TypeInv', HistoryInv, CoherentInv, RingInv, ObservationsInv, ObservedFits,
         [Next]_vars
  PROVE  ObservedFits'
<1>0. /\ state \in StateRecord /\ next \in StateRecord /\ state.sequence \in Nat
      /\ Len(reports) \in Nat
  BY StateFields, LenProperties DEF TypeInv, TypeOK, StateTypeOK
<1>1. ASSUME history' = history, targets' = targets, state' = state PROVE ObservedFits'
  BY <1>0, <1>1, ObservedStill
<1>2. ASSUME \/ \E count \in 0..MaxVessels : BeginSetCount(count)
             \/ \E delta \in VirtualDeltas : BeginAdvance(delta)
             \/ \E delta \in RealDeltas : BeginElapse(delta)
      PROVE  ObservedFits'
  BY <1>1, <1>2, BeginFacts
<1>3. ASSUME NEW speed, SetSpeed(speed) PROVE ObservedFits'
  <2>1. /\ history' = history /\ targets' = targets /\ state'.stations = state.stations
        /\ state'.sequence = state.sequence
    BY <1>0, <1>3 DEF SetSpeed, StateRecord
  <2> QED BY <1>0, <2>1, ObservedStill
<1>4. ASSUME Commit PROVE ObservedFits'
  <2>1. /\ history' = history /\ targets' = targets /\ Working
        /\ state'.sequence = next.sequence /\ state'.stations = next.stations
    BY <1>0, <1>4 DEF Commit, StateRecord, Working
  <2>2. next.stations = state.stations /\ next.sequence = state.sequence + Len(reports)
    BY <2>1 DEF TypeInv, StagedShape, SameStations, HistoryInv, StagedReports
  <2>3. state.sequence <= state'.sequence
    BY <1>0, <2>1, <2>2
  <2> QED BY <2>1, <2>2, <2>3, ObservedStill
<1>5. ASSUME Finish PROVE ObservedFits'
  <2>1. history' = history /\ state' = state /\ targets' = Expire(targets, state.elapsed)
    BY <1>5 DEF Finish
  <2>2. TargetsType(targets) /\ TargetsFit(targets, state.elapsed)
    BY ObservationFacts DEF ObservationsInv
  <2>3. AllObservations(targets') \subseteq AllObservations(targets)
    <3> DEFINE gone == {r \in AllObservations(targets) : state.elapsed - r.timestamp >= ExpiryAge}
    <3>1. targets' = RemoveObservations(targets, gone)
      BY <2>1 DEF Expire
    <3> HIDE DEF gone
    <3>2. AllObservations(RemoveObservations(targets, gone)) = AllObservations(targets) \ gone
      BY <2>2, RemoveFits
    <3> QED BY <3>1, <3>2
  <2> QED BY <1>0, <2>1, <2>3, ObservedStill
<1>6. ASSUME ApplyRecord PROVE ObservedFits'
  BY <1>6, ObservedApply
<1>7. ASSUME Spawn \/ SpawnFails \/ TickVessel \/ TickEnd \/ Cancel
             \/ (\E outcome \in Outcomes : Receive(outcome)) \/ ReceiveFails \/ ReceiveEnd
             \/ UNCHANGED vars
      PROVE  ObservedFits'
  <2>1. history' = history /\ targets' = targets /\ state' = state
    BY <1>7 DEF Spawn, SpawnFails, TickVessel, TickEnd, Cancel, Receive, ReceiveFails,
                ReceiveEnd, Send, vars
  <2> QED BY SMTT(30), <1>1, <2>1
<1>8. ASSUME NEW expected, NEW d \in Definitions, AddStation(expected, d) PROVE ObservedFits'
  BY <1>8, ObservedAdd
<1>9. ASSUME NEW expected, NEW id \in StationIDs, NEW d \in Definitions,
             UpdateStation(expected, id, d)
      PROVE  ObservedFits'
  BY <1>9, ObservedUpdate
<1>10. ASSUME NEW expected, NEW id \in StationIDs, RemoveStation(expected, id)
       PROVE  ObservedFits'
  BY <1>10, ObservedRemove
<1> QED BY <1>2, <1>3, <1>4, <1>5, <1>6, <1>7, <1>8, <1>9, <1>10 DEF Next

\* What the store holds was received by a configured station.
LEMMA StoredFacts ==
  ASSUME TypeInv, CoherentInv, RingInv, ObservationsInv, ObservedFits, NEW r \in Stored
  PROVE  /\ r \in ReceptionRecord
         /\ \E i \in DOMAIN state.stations : Fits(r, state.stations[i])
         /\ 1 <= r.sequence /\ r.sequence <= Top(r.station)
         /\ r.transmission <= state.sequence
         /\ r.station \in StationIDs /\ r.timestamp <= state.elapsed
<1>1. CASE r \in AllObservations(targets)
  <2>1. r \in ReceptionRecord /\ r.timestamp <= state.elapsed
    BY <1>1, ObservationFacts
  <2> QED BY <1>1, <2>1 DEF ObservedFits, ObservationsInv
<1>2. CASE \E id \in StationIDs : r \in Elements(history[id])
  <2>1. PICK id \in StationIDs : \E n \in DOMAIN history[id] : r = history[id][n]
    BY <1>2 DEF Elements
  <2>2. PICK n \in DOMAIN history[id] : r = history[id][n]
    BY <2>1
  <2>3. r \in ReceptionRecord /\ r.station = id
    BY <2>2, HistoryFacts
  <2>4. PICK i \in DOMAIN state.stations : state.stations[i].id = id
    BY DEF StationIDs
  <2>5. Fits(r, state.stations[i])
    BY <2>2, <2>4 DEF CoherentInv, HistoryFits
  <2>6. /\ Top(id) \in Nat /\ Len(history[id]) \in Nat /\ n \in 1..Len(history[id])
        /\ ReceptionHistoryLimit \in Nat
    BY <2>2, RingFacts, LimitsAssumption
  <2>7. /\ Len(history[id]) = Minimum(Top(id), ReceptionHistoryLimit)
        /\ r.sequence = Top(id) - Len(history[id]) + n
        /\ r.transmission <= state.sequence /\ r.timestamp <= state.elapsed
    BY <2>2 DEF RingInv, RingsExact, RingShape
  <2>8. Len(history[id]) <= Top(id)
    BY <2>6, <2>7 DEF Minimum
  <2>9. 1 <= r.sequence /\ r.sequence <= Top(id)
    BY <2>6, <2>7, <2>8
  <2> QED BY <2>3, <2>5, <2>7, <2>9
<1> QED BY <1>1, <1>2 DEF Stored

\* What is about to be held has a sequence that its station has staged.
LEMMA HeldFacts ==
  ASSUME TypeInv, HistoryInv, CoherentInv, RingInv, ObservationsInv, ObservedFits, NEW r \in Held
  PROVE  /\ r \in ReceptionRecord
         /\ pc # "idle" => \E i \in DOMAIN state.stations :
              r.station = state.stations[i].id /\ r.sequence <= StagedLast(i)
         /\ Working => r.transmission <= next.sequence
<1>0. /\ state.sequence \in Nat /\ next.sequence \in Nat /\ Len(reports) \in Nat
  BY StateFields, StagedFields, LenProperties DEF TypeInv, TypeOK, StateTypeOK
<1>1. Working => state.sequence <= next.sequence
  BY <1>0 DEF HistoryInv, StagedReports
<1>2. CASE r \in Stored
  <2>1. /\ r \in ReceptionRecord /\ r.sequence <= Top(r.station)
        /\ r.transmission <= state.sequence /\ r.station \in StationIDs
    BY <1>2, StoredFacts
  <2>2. PICK i \in DOMAIN state.stations : state.stations[i].id = r.station
    BY <2>1 DEF StationIDs
  <2>3. pc # "idle" => Top(r.station) <= StagedLast(i)
    BY <2>2 DEF RingInv, PendingComplete
  <2>4. Top(r.station) \in Nat /\ StagedLast(i) \in Nat /\ r.sequence \in Nat
        /\ r.transmission \in Nat
    BY <2>1, RingFacts, ReceptionFields
  <2>5. pc # "idle" => r.sequence <= StagedLast(i)
    BY <2>1, <2>3, <2>4
  <2> QED BY <1>0, <1>1, <2>1, <2>2, <2>4, <2>5
<1>3. CASE \E k \in Pending : r = batch.records[k]
  <2>1. PICK k \in Pending : r = batch.records[k]
    BY <1>3
  <2>2. r \in ReceptionRecord /\ pc # "idle" /\ k \in DOMAIN batch.records
    BY <2>1, PendingFacts DEF Pending
  <2>3. PICK i \in DOMAIN state.stations : r.station = state.stations[i].id
    BY <2>1, <2>2 DEF CoherentInv, BatchFits, Fits
  <2>4. r.sequence <= StagedLast(i)
    BY <2>1, <2>2, <2>3 DEF RingInv, PendingComplete
  <2>5. Working => r.transmission <= next.sequence
    BY <2>1 DEF RingInv, PendingBounded
  <2> QED BY <2>2, <2>3, <2>4, <2>5
<1> QED BY <1>2, <1>3 DEF Held

\* Nothing new is held where nothing is received.
LEMMA HeldShrinks ==
  ASSUME AllObservations(targets') \subseteq AllObservations(targets),
         \A id \in StationIDs' : \/ history'[id] = <<>>
                                 \/ id \in StationIDs /\ history'[id] = history[id],
         \A k \in Pending' : k \in Pending /\ batch'.records[k] = batch.records[k]
  PROVE  Held' \subseteq Held
<1> SUFFICES ASSUME NEW r \in Held' PROVE r \in Held
  OBVIOUS
<1>1. CASE r \in AllObservations(targets')
  BY <1>1 DEF Held, Stored
<1>2. CASE \E id \in StationIDs' : r \in Elements(history'[id])
  <2>1. PICK id \in StationIDs' : \E n \in DOMAIN history'[id] : r = history'[id][n]
    BY <1>2 DEF Elements
  <2>2. history'[id] # <<>>
    BY <2>1
  <2>3. id \in StationIDs /\ r \in Elements(history[id])
    BY <2>1, <2>2 DEF Elements
  <2> QED BY <2>3 DEF Held, Stored
<1>3. CASE \E k \in Pending' : r = batch'.records[k]
  BY <1>3 DEF Held
<1> QED BY <1>1, <1>2, <1>3 DEF Held, Stored

\* Applying a record moves it from what is pending to what is stored.
LEMMA HeldApply ==
  ASSUME TypeInv, CoherentInv, RingInv, ObservationsInv, ApplyRecord
  PROVE  Held' \subseteq Held
<1>a. PICK k : k = loop.applied + 1
  OBVIOUS
<1>b. PICK r : r = batch.records[k]
  OBVIOUS
<1>1. /\ k \in Pending /\ r \in ReceptionRecord /\ r.station \in StationIDs
      /\ Pending' = Pending \ {k}
  BY <1>a, <1>b, NextPending
<1>2. \A o \in AllObservations(targets') : o = r \/ o \in AllObservations(targets)
  BY <1>a, <1>b, ApplyShape
<1>3. /\ history' = [history EXCEPT ![r.station] = Push(@, r)] /\ StationIDs' = StationIDs
      /\ batch' = batch
  BY <1>a, <1>b DEF ApplyRecord, StationIDs
<1>4. r \in Held
  BY <1>1, <1>b DEF Held
<1>5. ASSUME NEW id \in StationIDs, NEW o \in Elements(history'[id])
      PROVE  o = r \/ o \in Elements(history[id])
  <2>1. DOMAIN history = StationIDs /\ history[id] \in Seq(ReceptionRecord)
    BY RingFacts, StationFacts
  <2>2. CASE id # r.station
    <3>1. history'[id] = history[id]
      BY <1>3, <2>1, <2>2
    <3> QED BY <1>5, <3>1
  <2>3. CASE id = r.station
    <3>1. history'[id] = Push(history[id], r)
      BY <1>3, <2>1, <2>3
    <3>2. PICK n \in DOMAIN Push(history[id], r) : o = Push(history[id], r)[n]
      BY <1>5, <3>1 DEF Elements
    <3>3. o = r \/ \E j \in DOMAIN history[id] : o = history[id][j]
      BY <1>1, <2>1, <3>2, PushElements
    <3> QED BY <3>3 DEF Elements
  <2> QED BY <2>2, <2>3
<1> SUFFICES ASSUME NEW o \in Held' PROVE o \in Held
  OBVIOUS
<1>6. CASE o \in AllObservations(targets')
  BY <1>2, <1>4, <1>6 DEF Held, Stored
<1>7. CASE \E id \in StationIDs' : o \in Elements(history'[id])
  <2>1. PICK id \in StationIDs : o \in Elements(history'[id])
    BY <1>3, <1>7
  <2> QED BY <1>4, <1>5, <2>1 DEF Held, Stored
<1>8. CASE \E j \in Pending' : o = batch'.records[j]
  BY <1>1, <1>3, <1>8 DEF Held
<1> QED BY <1>6, <1>7, <1>8 DEF Held, Stored

\* A step that receives nothing keeps what was agreed, and starts at most one new report.
LEMMA AgreementKept ==
  ASSUME TypeInv, HistoryInv, CoherentInv, RingInv, ObservationsInv, SourceInv, Held' \subseteq Held,
         \/ pc' # "receive"
         \/ Working /\ next'.sequence = next.sequence + 1
         \/ pc = "receive" /\ UNCHANGED <<next, reports>>
  PROVE  Agreement' /\ InProgress'
<1>1. Agreement'
  BY DEF SourceInv, Agreement
<1>2. CASE Working /\ next'.sequence = next.sequence + 1
  <2>1. ASSUME NEW r \in Held, r.transmission = next'.sequence PROVE FALSE
    <3>1. r.transmission <= next.sequence /\ r \in ReceptionRecord
      BY <1>2, <2>1, HeldFacts DEF SourceInv
    <3>2. r.transmission \in Nat /\ next.sequence \in Nat
      BY <3>1, StagedFields, ReceptionFields
    <3> HIDE DEF Working
    <3> QED BY <1>2, <2>1, <3>1, <3>2
  <2> QED BY <1>1, <2>1 DEF InProgress
<1>3. CASE pc = "receive" /\ UNCHANGED <<next, reports>>
  BY <1>1, <1>3 DEF SourceInv, InProgress
<1>4. CASE pc' # "receive"
  BY <1>1, <1>4 DEF InProgress
<1> QED BY <1>1, <1>2, <1>3, <1>4

\* A reception takes the next sequence of its station and says what the report says.
LEMMA SourceReceive ==
  ASSUME TypeInv, HistoryInv, ClockInv, CoherentInv, RingInv, ObservationsInv, SourceInv,
         NEW outcome \in Outcomes, Receive(outcome)
  PROVE  Agreement' /\ InProgress'
<1>1. /\ pc = "receive" /\ pc' = pc /\ UNCHANGED <<state, history, targets, next, reports>>
      /\ Working /\ Working' /\ loop.station <= Len(next.stations)
  BY DEF Receive, Working
<1>2. /\ next.stations = state.stations
      /\ \E i \in DOMAIN state.stations : i = loop.station /\ i \in Nat
  <2>1. loop \in LoopRecord /\ next.stations = state.stations /\ loop.station >= 1
    BY <1>1 DEF TypeInv, TypeOK, ControlTypeOK, StagedShape, SameStations
  <2>2. loop.station \in Nat
    BY <2>1 DEF LoopRecord
  <2> QED BY <1>1, <2>1, <2>2, StationFacts
<1>a. PICK i \in DOMAIN state.stations : i = loop.station /\ i \in Nat
  BY <1>2
<1> DEFINE t == Last(reports)
           old == batch.stats[i]
           counted == Count(old, outcome, t.channel, t.timestamp \div TickInterval)
           got == outcome = "received"
           l == Len(batch.records)
<1>b. PICK r : r = Reception(state.stations[i], counted.lastReception, t)
  OBVIOUS
<1>3. batch \in BatchRecord
  BY DEF TypeInv, TypeOK, BatchTypeOK, BatchRecord
<1>4. loop'.applied = 0 /\ loop.applied = 0
  BY <1>1 DEF Receive, TypeInv, TypeOK, ControlTypeOK, LoopRecord, RingInv, LoopTimes
<1>5. old \in Stats
  BY <1>1, RingFacts
<1>6. counted.lastReception = old.lastReception + Bump(got)
  BY <1>5, CountReceived
<1> HIDE DEF counted
<1>7. batch'.records = IF got THEN Append(batch.records, r) ELSE batch.records
  BY <1>2, <1>3, <1>a, <1>b DEF Receive, BatchRecord, counted
<1>8. /\ batch.records \in Seq(ReceptionRecord) /\ l \in Nat /\ DOMAIN batch.records = 1..l
      /\ Pending = 1..l
  BY <1>1, <1>4, PendingFacts DEF Pending
<1>9. /\ t.sequence = next.sequence /\ next.sequence \in Nat
  BY <1>1, ReportFacts
<1>10. CASE ~got
  <2>1. batch'.records = batch.records
    BY <1>7, <1>10
  <2>2. Pending' = Pending
    BY <1>1, <1>4, <2>1 DEF Pending
  <2>3. Held' \subseteq Held
    BY <1>1, <2>1, <2>2 DEF Held, Stored, StationIDs
  <2> QED BY <1>1, <2>3, AgreementKept
<1>11. CASE got
  <2>1. /\ r.station = state.stations[i].id /\ r.sequence = old.lastReception + 1
        /\ r.transmission = next.sequence /\ SameTransmission(r, t)
    BY <1>6, <1>9, <1>11, <1>b DEF Reception, SameTransmission, Bump
  <2>2. r \in ReceptionRecord
    <3>1. batch' \in BatchRecord
      BY TypeReceive DEF TypeInv, TypeOK, BatchTypeOK, BatchRecord
    <3>2. Append(batch.records, r) \in Seq(ReceptionRecord)
      BY <1>7, <1>11, <3>1 DEF BatchRecord
    <3> DEFINE S == ReceptionRecord \cup {r}
               m == Append(batch.records, r)
    <3>3. batch.records \in Seq(S) /\ r \in S
      BY <1>8, SeqMonotonic
    <3>4. /\ m[l + 1] = r /\ Len(m) = l + 1
      <4> HIDE DEF S
      <4> QED BY <3>3, AppendProperties
    <3>5. l + 1 \in DOMAIN m
      BY <1>8, <3>2, <3>4, LenProperties
    <3> HIDE DEF m
    <3> QED BY <3>2, <3>4, <3>5, ElementOfSeq DEF m
  <2>3. \A o \in Held' : o = r \/ o \in Held
    <3>1. batch'.records = Append(batch.records, r)
      BY <1>7, <1>11
    <3>2. /\ Len(batch'.records) = l + 1
          /\ \A k \in 1..l : batch'.records[k] = batch.records[k]
          /\ batch'.records[l + 1] = r
      BY <1>8, <2>2, <3>1, AppendProperties
    <3>3. Pending' = 1..(l + 1)
      BY <1>1, <1>4, <3>2 DEF Pending
    <3>4. ASSUME NEW k \in Pending'
          PROVE  batch'.records[k] = r \/ (k \in Pending /\ batch'.records[k] = batch.records[k])
      <4>1. k = l + 1 \/ k \in 1..l
        BY <1>8, <3>3
      <4> QED BY <1>8, <3>2, <4>1
    <3>5. Stored' = Stored
      BY <1>1 DEF Stored, StationIDs
    <3> QED BY <3>4, <3>5 DEF Held
  <2>4. ASSUME NEW o \in Held, o.station = r.station PROVE o.sequence # r.sequence
    <3>1. PICK j \in DOMAIN state.stations :
            o.station = state.stations[j].id /\ o.sequence <= StagedLast(j)
      BY <1>1, HeldFacts DEF SourceInv
    <3>2. j = i
      BY <2>1, <2>4, <3>1, StationFacts
    <3>3. StagedLast(j) = old.lastReception
      BY <1>1, <3>2 DEF StagedLast
    <3>4. old.lastReception \in Nat /\ o.sequence \in Nat
      <4>1. o \in ReceptionRecord
        BY HeldFacts DEF SourceInv
      <4> QED BY <1>5, <4>1, ReceptionFields DEF Stats
    <3> HIDE DEF old
    <3> QED BY <2>1, <3>1, <3>3, <3>4
  <2>5. ASSUME NEW o \in Held, o.transmission = r.transmission PROVE SameTransmission(o, t)
    BY <1>1, <2>1, <2>5 DEF SourceInv, InProgress
  <2> HIDE DEF t, got, old, l
  <2>6. ASSUME NEW a \in Held', NEW b \in Held'
        PROVE  /\ a.station = b.station /\ a.sequence = b.sequence
                    => a.transmission = b.transmission
               /\ a.transmission = b.transmission => SameTransmission(a, b)
    <3>1. CASE a \in Held /\ b \in Held
      BY <3>1 DEF SourceInv, Agreement
    <3>2. CASE a = r /\ b = r
      BY <3>2 DEF SameTransmission
    <3>3. CASE a = r /\ b \in Held
      BY <2>1, <2>4, <2>5, <3>3 DEF SameTransmission
    <3>4. CASE a \in Held /\ b = r
      BY <2>1, <2>4, <2>5, <3>4 DEF SameTransmission
    <3> QED BY <2>3, <3>1, <3>2, <3>3, <3>4
  <2>7. Agreement'
    BY <2>6 DEF Agreement
  <2>8. InProgress'
    <3>1. \A o \in Held' : o.transmission = next.sequence => SameTransmission(o, t)
      BY <2>1, <2>3, <2>5
    <3> QED BY <1>1, <3>1 DEF InProgress, t
  <2> QED BY <2>7, <2>8
<1> QED BY <1>10, <1>11

\* Nothing is stored in a new run.
LEMMA SourceInit == Init => SourceInv
<1> SUFFICES ASSUME Init PROVE SourceInv
  OBVIOUS
<1>1. /\ StationIDs = DOMAIN InitialStations /\ pc = "spawn"
      /\ history = [id \in DOMAIN InitialStations |-> <<>>]
      /\ DOMAIN targets = {} /\ batch.records = <<>> /\ loop.applied = 0
  <2>1. /\ DOMAIN state.stations = DOMAIN InitialStations
        /\ \A i \in DOMAIN InitialStations : state.stations[i].id = i
    BY DEF Init, NewStation
  <2> QED BY <2>1 DEF Init, StationIDs, StageReceptions, NoLoop
<1>2. AllObservations(targets) = {}
  BY <1>1 DEF AllObservations
<1>3. \A id \in StationIDs : Elements(history[id]) = {}
  BY <1>1 DEF Elements
<1>4. Pending = {}
  BY <1>1 DEF Pending
<1>5. Held = {}
  BY <1>2, <1>3, <1>4 DEF Held, Stored
<1> QED BY <1>2, <1>5 DEF SourceInv, ObservedFits, Agreement, InProgress

\* Every step keeps what the receptions say of the transmissions.
LEMMA SourceStep ==
  ASSUME TypeInv, TypeInv', HistoryInv, ClockInv, CoherentInv, RingInv, ObservationsInv,
         SourceInv, [Next]_vars
  PROVE  SourceInv'
<1>0. /\ state \in StateRecord /\ next \in StateRecord /\ DOMAIN history' = StationIDs'
      /\ DOMAIN history = StationIDs /\ loop \in LoopRecord /\ batch \in BatchRecord
  BY DEF TypeInv, TypeOK, StateTypeOK, StatsTypeOK, ControlTypeOK, BatchTypeOK, BatchRecord
<1> SUFFICES Agreement' /\ InProgress'
  BY ObservedStep DEF SourceInv
<1>1. ASSUME \/ \E count \in 0..MaxVessels : BeginSetCount(count)
             \/ \E delta \in VirtualDeltas : BeginAdvance(delta)
             \/ \E delta \in RealDeltas : BeginElapse(delta)
      PROVE  Agreement' /\ InProgress'
  <2>1. /\ UNCHANGED <<state, history, targets>> /\ Pending' = {} /\ pc' # "receive"
    BY <1>1, BeginShape
  <2>2. Held' \subseteq Held
    BY <2>1, HeldShrinks DEF StationIDs
  <2> QED BY <2>1, <2>2, AgreementKept
<1>2. ASSUME NEW speed, SetSpeed(speed) PROVE Agreement' /\ InProgress'
  <2>1. /\ history' = history /\ targets' = targets /\ state'.stations = state.stations
        /\ pc = "idle" /\ pc' = "idle"
    BY <1>0, <1>2 DEF SetSpeed, StateRecord, Idle
  <2>2. Held' \subseteq Held
    BY <2>1, HeldShrinks DEF StationIDs, Pending
  <2> QED BY <2>1, <2>2, AgreementKept
<1>3. ASSUME NEW expected, NEW d, AddStation(expected, d) PROVE Agreement' /\ InProgress'
  <2> DEFINE id == state.lastStationID + 1
  <2>1. /\ targets' = targets /\ pc = "idle" /\ pc' = "idle"
        /\ history' = [k \in DOMAIN history \cup {id} |-> IF k = id THEN <<>> ELSE history[k]]
    BY <1>0, <1>3 DEF AddStation, NextStationID, Idle
  <2> HIDE DEF id
  <2>2. \A x \in StationIDs' : \/ history'[x] = <<>>
                               \/ x \in StationIDs /\ history'[x] = history[x]
    BY <1>0, <2>1
  <2>3. Held' \subseteq Held
    BY <2>1, <2>2, HeldShrinks DEF Pending
  <2> QED BY <2>1, <2>3, AgreementKept
<1>4. ASSUME NEW expected, NEW id \in StationIDs, NEW d, UpdateStation(expected, id, d)
      PROVE  Agreement' /\ InProgress'
  <2>1. history' = history /\ targets' = targets /\ pc = "idle" /\ pc' = "idle"
    BY <1>4 DEF UpdateStation, Idle
  <2>2. Held' \subseteq Held
    BY <1>0, <2>1, HeldShrinks DEF Pending
  <2> QED BY <2>1, <2>2, AgreementKept
<1>5. ASSUME NEW expected, NEW id \in StationIDs, RemoveStation(expected, id)
      PROVE  Agreement' /\ InProgress'
  <2> DEFINE gone == {r \in AllObservations(targets) : r.station = id}
  <2>1. /\ history' = [k \in DOMAIN history \ {id} |-> history[k]]
        /\ pc = "idle" /\ pc' = "idle"
        /\ targets' = RemoveObservations(targets, gone)
    BY <1>5 DEF RemoveStation, Idle, Without
  <2>2. AllObservations(targets') \subseteq AllObservations(targets)
    <3>1. TargetsType(targets) /\ TargetsFit(targets, state.elapsed)
      BY ObservationFacts DEF ObservationsInv
    <3> HIDE DEF gone
    <3>2. AllObservations(RemoveObservations(targets, gone)) = AllObservations(targets) \ gone
      BY <3>1, RemoveFits
    <3> QED BY <2>1, <3>2
  <2>3. \A x \in StationIDs' : x \in StationIDs /\ history'[x] = history[x]
    BY <1>0, <2>1
  <2>4. Held' \subseteq Held
    BY <2>1, <2>2, <2>3, HeldShrinks DEF Pending
  <2> QED BY <2>1, <2>4, AgreementKept
<1>6. ASSUME Spawn \/ TickVessel PROVE Agreement' /\ InProgress'
  <2>1. /\ UNCHANGED <<state, history, targets, batch>>
        /\ Working /\ next'.sequence = next.sequence + 1 /\ pc # "idle" /\ pc' # "idle"
    BY <1>6, SendShape DEF Spawn, TickVessel, Send, Working
  <2>2. loop'.applied = loop.applied
    BY <1>0, <1>6 DEF Spawn, TickVessel, LoopRecord
  <2>3. Held' \subseteq Held
    BY <2>1, <2>2, HeldShrinks DEF StationIDs, Pending
  <2> QED BY <2>1, <2>3, AgreementKept
<1>7. ASSUME TickEnd \/ ReceiveEnd PROVE Agreement' /\ InProgress'
  <2>1. /\ UNCHANGED <<state, history, targets>> /\ batch'.records = batch.records
        /\ pc # "idle" /\ pc' # "idle" /\ pc' # "receive"
    BY <1>0, <1>7 DEF TickEnd, ReceiveEnd, BatchRecord
  <2>2. loop'.applied = loop.applied
    BY <1>0, <1>7 DEF TickEnd, ReceiveEnd, LoopRecord
  <2>3. Held' \subseteq Held
    BY <2>1, <2>2, HeldShrinks DEF StationIDs, Pending
  <2> QED BY <2>1, <2>3, AgreementKept
<1>8. ASSUME SpawnFails \/ Cancel \/ ReceiveFails PROVE Agreement' /\ InProgress'
  <2>1. /\ UNCHANGED <<state, history, targets>> /\ pc' = "idle"
    BY <1>8 DEF SpawnFails, Cancel, ReceiveFails, Drop
  <2>2. Held' \subseteq Held
    BY <2>1, HeldShrinks DEF StationIDs, Pending
  <2> QED BY <2>1, <2>2, AgreementKept
<1>9. ASSUME NEW outcome \in Outcomes, Receive(outcome) PROVE Agreement' /\ InProgress'
  BY <1>9, SourceReceive
<1>10. ASSUME Commit PROVE Agreement' /\ InProgress'
  <2>1. /\ UNCHANGED <<history, targets, batch, loop>> /\ pc # "idle" /\ pc' = "apply"
        /\ Working /\ state'.stations = next.stations
    BY <1>0, <1>10 DEF Commit, Working, StateRecord
  <2>2. StationIDs' = StationIDs
    BY <2>1 DEF StationIDs, TypeInv, StagedShape, SameStations
  <2>3. Held' \subseteq Held
    BY <2>1, <2>2, HeldShrinks DEF Pending
  <2> QED BY <2>1, <2>3, AgreementKept
<1>11. ASSUME ApplyRecord PROVE Agreement' /\ InProgress'
  <2>1. pc' # "receive"
    BY <1>11 DEF ApplyRecord
  <2> QED BY <1>11, <2>1, HeldApply, AgreementKept
<1>12. ASSUME Finish PROVE Agreement' /\ InProgress'
  <2>1. /\ history' = history /\ state' = state /\ targets' = Expire(targets, state.elapsed)
        /\ pc' = "idle"
    BY <1>12 DEF Finish, Drop
  <2>2. TargetsType(targets) /\ TargetsFit(targets, state.elapsed)
    BY ObservationFacts DEF ObservationsInv
  <2>3. AllObservations(targets') \subseteq AllObservations(targets)
    <3> DEFINE gone == {r \in AllObservations(targets) : state.elapsed - r.timestamp >= ExpiryAge}
    <3>1. targets' = RemoveObservations(targets, gone)
      BY <2>1 DEF Expire
    <3> HIDE DEF gone
    <3>2. AllObservations(RemoveObservations(targets, gone)) = AllObservations(targets) \ gone
      BY <2>2, RemoveFits
    <3> QED BY <3>1, <3>2
  <2>4. Held' \subseteq Held
    BY <2>1, <2>3, HeldShrinks DEF StationIDs, Pending
  <2> QED BY <2>1, <2>4, AgreementKept
<1>13. CASE UNCHANGED vars
  <2>1. UNCHANGED <<state, history, targets, pc, next, reports, batch, loop>>
    BY <1>13 DEF vars
  <2>2. Held' \subseteq Held
    BY <2>1, HeldShrinks DEF StationIDs, Pending
  <2> QED BY <2>1, <2>2, AgreementKept
<1>14. ASSUME Next PROVE Agreement' /\ InProgress'
  BY <1>1, <1>2, <1>3, <1>4, <1>5, <1>6, <1>7, <1>8, <1>9, <1>10, <1>11, <1>12, <1>14 DEF Next
<1> QED BY <1>13, <1>14
=============================================================================
