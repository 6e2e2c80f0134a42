------------------------------- MODULE Engine -------------------------------
(***************************************************************************)
(* The simulation engine (package simulation): the virtual clock, the      *)
(* fleet and its reports, the receiving stations, and what they receive.   *)
(*                                                                         *)
(* One mutex serializes every method.  SetCount, Advance and Elapse stage  *)
(* a copy of the state, emit reports into it and evaluate every report at  *)
(* every station, and only then commit.  The loops of those methods are    *)
(* unrolled: one step per emitted report, per station evaluated and per    *)
(* staged reception applied, with pc # "idle" while the lock is held.      *)
(* Readers and the other methods run at pc = "idle".                       *)
(*                                                                         *)
(* A call that an early return rejects changes nothing: it is a stuttering *)
(* step, and its conditions are the guards of the action.                  *)
(*                                                                         *)
(* Abstractions.  An instant is the time since the start of the run; an    *)
(* MMSI is its offset from firstMMSI (an even number); a station ID is its *)
(* allocator number.  Navigation and the sentence are functions of the     *)
(* vessel and the instant and are left out.  The link budget is a          *)
(* nondeterministic choice among the outcomes that the definition allows.  *)
(***************************************************************************)
EXTENDS Integers, Sequences, FiniteSets, SequencesExt

CONSTANTS
  TickInterval,           \* report cadence; also the width of a rate bucket
  MaxAdvance,             \* longest virtual duration of one call
  MaxElapsed,             \* last instant of year 9999, or of time.Duration
  MaxInt,                 \* math.MaxInt64
  MaxRevision,            \* math.MaxUint64, for revisions and station IDs
  MaxSequence,            \* math.MaxUint64, for sequences and totals
  MaxMMSI,                \* last MMSI that can be encoded
  MaxVessels,
  MaxStations,
  MessageLimit,
  ReceptionHistoryLimit,
  TargetLimit,
  ExpiryAge,
  RateBuckets,            \* one-second buckets in RateWindow
  SpeedScale,             \* speeds are integers in units of 1/SpeedScale
  Speeds,                 \* speeds that normalizeSpeed accepts
  Definitions,            \* canonical station definitions
  LinkOutcomes,           \* outcomes the link budget can give
  InitialVesselCount,
  InitialStations,        \* sequence of definitions
  InitialSpeed,
  VirtualDeltas,          \* durations given to Advance
  RealDeltas              \* durations given to Elapse

Channels == {"A", "B"}
Outcomes == {"station_disabled", "channel_disabled", "outside_horizon",
             "insufficient_margin", "probabilistic_loss", "received"}

\* The RF part of a definition: everything except the name.
RF(d) == [enabled |-> d.enabled, channels |-> d.channels, site |-> d.site]

ASSUME LimitsAssumption ==
  /\ {TickInterval, MaxAdvance, MessageLimit, ReceptionHistoryLimit, TargetLimit,
      ExpiryAge, RateBuckets, SpeedScale, MaxRevision} \subseteq Nat \ {0}
  /\ {MaxElapsed, MaxInt, MaxSequence, MaxMMSI, MaxVessels, MaxStations} \subseteq Nat

ASSUME InputsAssumption ==
  /\ Speeds \subseteq Nat
  /\ VirtualDeltas \subseteq Nat
  /\ RealDeltas \subseteq Nat
  /\ LinkOutcomes \subseteq Outcomes \ {"station_disabled", "channel_disabled"}
  /\ \A d \in Definitions : d.enabled \in BOOLEAN /\ d.channels \subseteq Channels

\* What New accepts, with room for the creation reports of the initial fleet.
ASSUME ConfigAssumption ==
  /\ InitialVesselCount \in 0..MaxVessels
  /\ InitialVesselCount <= MaxSequence
  /\ InitialVesselCount <= MaxMMSI + 1
  /\ InitialSpeed \in Speeds
  /\ InitialStations \in Seq(Definitions)
  /\ Len(InitialStations) <= MaxStations
  /\ Len(InitialStations) <= MaxRevision
  /\ InitialVesselCount * Len(InitialStations) <= MaxSequence

VARIABLES
  state,      \* the committed state struct
  messages,   \* retained reports, oldest first
  stats,      \* station ID -> stationStats
  history,    \* station ID -> retained receptions, oldest first
  targets,    \* MMSI -> latest observation of each station that has one
  totals,     \* run totals of the reception store
  pc,         \* where the method that holds the lock is
  next,       \* the staged state
  reports,    \* the staged reports
  batch,      \* the staged receptions
  loop,       \* local variables of the method that holds the lock
  credited    \* history variable: virtual time asked for, in 1/SpeedScale

store == <<stats, history, targets, totals>>
committed == <<state, messages, store>>
staged == <<next, reports, batch, loop>>
vars == <<committed, pc, staged, credited>>

-----------------------------------------------------------------------------
(***************************************************************************)
(* State                                                                   *)
(***************************************************************************)
FirstRevision == 1

\* stationState: coverage holds the RF configuration it was computed for.
NewStation(id, d, now) ==
  [id |-> id, definition |-> d, configRevision |-> FirstRevision,
   rfRevision |-> FirstRevision, createdAt |-> now, rfUpdatedAt |-> now,
   coverage |-> RF(d)]

NewStats ==
  [lastReception |-> 0,
   opportunities |-> 0,
   outcome |-> [o \in Outcomes |-> 0],
   channel |-> [c \in Channels |-> [opportunities |-> 0, received |-> 0]],
   buckets |-> [b \in 0..(RateBuckets - 1) |->
                  [second |-> 0, opportunities |-> 0, received |-> 0]]]

NoBatch ==
  [stats |-> <<>>, records |-> <<>>, receptions |-> 0, receivedTransmissions |-> 0]

NoLoop ==
  [kind |-> "none", tick |-> 0, last |-> 0, first |-> 0, target |-> 0, spawn |-> 0,
   vessel |-> 0, station |-> 0, heard |-> FALSE, applied |-> 0, expired |-> -1,
   credit |-> 0]

StationIDs == {state.stations[i].id : i \in DOMAIN state.stations}

\* findStation: the index of a configured station.
StationIndex(id) == CHOOSE i \in DOMAIN state.stations : state.stations[i].id = id

\* stageReceptions: a batch starts from the committed store.
StageReceptions(stations) ==
  [stats |-> [i \in DOMAIN stations |-> stats[stations[i].id]],
   records |-> <<>>,
   receptions |-> totals.receptions,
   receivedTransmissions |-> totals.receivedTransmissions]

-----------------------------------------------------------------------------
(***************************************************************************)
(* Emission and reception of one report                                    *)
(***************************************************************************)

\* channel: a vessel alternates, starting on A for an even MMSI.
Channel(v) == IF (v.mmsi + v.reports) % 2 = 0 THEN "A" ELSE "B"

\* emit: the report that vessel v sends as transmission number sequence.
Report(v, sequence) ==
  [sequence |-> sequence, mmsi |-> v.mmsi, timestamp |-> v.updatedAt,
   channel |-> Channel(v)]

\* Mutant: the report is not counted, so the channel never changes.
EmittedUncounted(v, sequence) ==
  [mmsi |-> v.mmsi, updatedAt |-> v.updatedAt, reports |-> v.reports,
   report |-> Report(v, sequence)]

Emitted(v, sequence) ==
  [mmsi |-> v.mmsi, updatedAt |-> v.updatedAt, reports |-> v.reports + 1,
   report |-> Report(v, sequence)]

\* decide: a disabled station, then a disabled channel, then the link.
Decide(d, channel) ==
  IF ~d.enabled THEN {"station_disabled"}
  ELSE IF channel \notin d.channels THEN {"channel_disabled"}
  ELSE LinkOutcomes

Bump(b) == IF b THEN 1 ELSE 0

\* Mutant: a bucket that an earlier second used is not cleared.
CountBucketUncleared(b, second, got) ==
  [second |-> second, opportunities |-> b.opportunities + 1,
   received |-> b.received + Bump(got)]

CountBucket(b, second, got) ==
  IF b.second = second
  THEN [b EXCEPT !.opportunities = @ + 1, !.received = @ + Bump(got)]
  ELSE [second |-> second, opportunities |-> 1, received |-> Bump(got)]

\* count: one opportunity with its outcome, in the bucket of its second.
Count(st, outcome, channel, second) ==
  LET got == outcome = "received"
      slot == second % RateBuckets
  IN [st EXCEPT
        !.opportunities = @ + 1,
        !.outcome[outcome] = @ + 1,
        !.channel[channel] = [opportunities |-> @.opportunities + 1,
                              received |-> @.received + Bump(got)],
        !.buckets[slot] = CountBucket(@, second, got),
        !.lastReception = @ + Bump(got)]

\* ReceiverSnapshot: what a definition says of the receiver on a channel.
Receiver(d, channel) ==
  [name |-> d.name, site |-> d.site, enabled |-> channel \in d.channels]

\* newReception: transmission t as the sequence-th reception of a station, with
\* the receiver as it is now.
Reception(station, sequence, t) ==
  [station |-> station.id, sequence |-> sequence, transmission |-> t.sequence,
   mmsi |-> t.mmsi, timestamp |-> t.timestamp, channel |-> t.channel,
   configRevision |-> station.configRevision, rfRevision |-> station.rfRevision,
   receiver |-> Receiver(station.definition, t.channel)]

-----------------------------------------------------------------------------
(***************************************************************************)
(* Observations: the latest reception of each MMSI at each station         *)
(***************************************************************************)
Timestamps(observations) == {r.timestamp : r \in observations}

\* Mutant: receivedAt is kept when the newest observation goes.
RemoveObservationsStale(ts, gone) ==
  [m \in {n \in DOMAIN ts : ts[n].observations \ gone # {}} |->
     [ts[m] EXCEPT !.observations = @ \ gone]]

\* removeObservations: targets left empty go, the others recompute receivedAt.
RemoveObservations(ts, gone) ==
  LET kept(m) == ts[m].observations \ gone
  IN [m \in {n \in DOMAIN ts : kept(n) # {}} |->
        IF kept(m) = ts[m].observations
        THEN ts[m]
        ELSE [observations |-> kept(m), receivedAt |-> Max(Timestamps(kept(m)))]]

AllObservations(ts) == UNION {ts[m].observations : m \in DOMAIN ts}

\* expire: observations aged ExpiryAge or more at an instant.
Expire(ts, at) ==
  RemoveObservations(ts, {r \in AllObservations(ts) : at - r.timestamp >= ExpiryAge})

\* evict: the target whose newest observation is oldest, lowest MMSI first.
Victim(ts) ==
  CHOOSE m \in DOMAIN ts :
    \A n \in DOMAIN ts \ {m} :
      \/ ts[m].receivedAt < ts[n].receivedAt
      \/ ts[m].receivedAt = ts[n].receivedAt /\ m < n

MustEvict(ts, r) == r.mmsi \notin DOMAIN ts /\ Cardinality(DOMAIN ts) >= TargetLimit

\* The observations of r's MMSI at the other stations.
Others(ts, r) ==
  IF r.mmsi \in DOMAIN ts
  THEN {o \in ts[r.mmsi].observations : o.station # r.station}
  ELSE {}

\* record: r becomes the observation of its station and MMSI.
Record(ts, r) ==
  LET room == IF MustEvict(ts, r) THEN DOMAIN ts \ {Victim(ts)} ELSE DOMAIN ts
  IN [m \in room \cup {r.mmsi} |->
        IF m = r.mmsi
        THEN [observations |-> Others(ts, r) \cup {r}, receivedAt |-> r.timestamp]
        ELSE ts[m]]

\* push: the history keeps the newest ReceptionHistoryLimit receptions.
Push(h, r) ==
  IF Len(h) < ReceptionHistoryLimit THEN Append(h, r) ELSE Append(Tail(h), r)

-----------------------------------------------------------------------------
(***************************************************************************)
(* New: the run before its initial SetCount, which is in progress.  Nobody *)
(* sees the engine until New returns, and New then sets revision 1.        *)
(***************************************************************************)
Init ==
  /\ state = [revision |-> FirstRevision, vessels |-> <<>>, nextMMSI |-> 0,
              sequence |-> 0, elapsed |-> 0, remainder |-> 0,
              speed |-> InitialSpeed, updatedAt |-> 0,
              stations |-> [i \in DOMAIN InitialStations |->
                              NewStation(i, InitialStations[i], 0)],
              lastStationID |-> Len(InitialStations),
              stationRevision |-> FirstRevision]
  /\ messages = <<>>
  /\ stats = [id \in DOMAIN InitialStations |-> NewStats]
  /\ history = [id \in DOMAIN InitialStations |-> <<>>]
  /\ targets = [m \in {} |-> {}]
  /\ totals = [receptions |-> 0, receivedTransmissions |-> 0, evictions |-> 0]
  /\ pc = "spawn"
  /\ next = state
  /\ reports = <<>>
  /\ batch = StageReceptions(state.stations)
  /\ loop = [NoLoop EXCEPT !.kind = "count", !.spawn = InitialVesselCount]
  /\ credited = 0

Idle == pc = "idle"

\* A failed method drops everything it staged.
Drop ==
  /\ pc' = "idle"
  /\ next' = state
  /\ reports' = <<>>
  /\ batch' = NoBatch
  /\ loop' = NoLoop

\* SetCount up to its loop: revise, then truncate or reserve.
BeginSetCount(count) ==
  LET added == count - Len(state.vessels)
  IN /\ Idle
     /\ added # 0
     /\ state.revision < MaxRevision
     /\ added <= MaxSequence - state.sequence
     /\ next' = [state EXCEPT
                   !.revision = @ + 1,
                   !.updatedAt = state.elapsed,
                   !.vessels = IF added < 0 THEN SubSeq(@, 1, count) ELSE @]
     /\ loop' = [NoLoop EXCEPT !.kind = "count", !.target = state.elapsed,
                               !.spawn = IF added > 0 THEN added ELSE 0]
     /\ batch' = StageReceptions(state.stations)
     /\ reports' = <<>>
     /\ pc' = "spawn"
     /\ UNCHANGED <<committed, credited>>

\* Emit the next report of vessel v, the i-th of the staged state n.
Send(n, v, i) ==
  LET w == Emitted(v, n.sequence + 1)
  IN /\ next' = [n EXCEPT !.sequence = @ + 1, !.vessels[i] = w]
     /\ reports' = Append(reports, w.report)
     /\ pc' = "receive"
     /\ UNCHANGED <<committed, batch, credited>>

\* One iteration of SetCount's loop: create, emit and append a vessel.
Spawn ==
  LET v == [mmsi |-> next.nextMMSI, updatedAt |-> next.elapsed, reports |-> 0]
  IN /\ pc = "spawn"
     /\ loop.spawn > 0
     /\ next.nextMMSI <= MaxMMSI
     /\ loop' = [loop EXCEPT !.spawn = @ - 1, !.station = 1, !.heard = FALSE]
     /\ Send([next EXCEPT !.vessels = Append(@, v), !.nextMMSI = @ + 1],
             v, Len(next.vessels) + 1)

\* EncodePosition rejects an MMSI of more than nine digits.
SpawnFails ==
  /\ pc = "spawn"
  /\ loop.spawn > 0
  /\ next.nextMMSI > MaxMMSI
  /\ Drop
  /\ UNCHANGED <<committed, credited>>

\* Mutant: the tick that the last call ended on is reported again.
StartAdvanceRepeated(n, delta, credit) ==
  LET first == n.elapsed \div TickInterval
      last == (n.elapsed + delta) \div TickInterval
      ticks == IF last >= first THEN last - first + 1 ELSE 0
  IN /\ Idle
     /\ delta <= MaxAdvance
     /\ n.elapsed + delta <= MaxElapsed
     /\ ticks * Len(n.vessels) <= MaxSequence - n.sequence
     /\ delta > 0 => n.revision < MaxRevision
     /\ next' = [n EXCEPT !.revision = IF delta > 0 THEN @ + 1 ELSE @]
     /\ loop' = [NoLoop EXCEPT !.kind = "advance", !.first = first, !.tick = first,
                               !.last = last, !.target = n.elapsed + delta,
                               !.vessel = 1, !.credit = credit]
     /\ batch' = StageReceptions(n.stations)
     /\ reports' = <<>>
     /\ pc' = "tick"
     /\ UNCHANGED <<committed, credited>>

\* advance up to its loop; n is the staged state it starts from.
StartAdvance(n, delta, credit) ==
  LET first == n.elapsed \div TickInterval + 1
      last == (n.elapsed + delta) \div TickInterval
      ticks == IF last >= first THEN last - first + 1 ELSE 0
  IN /\ Idle
     /\ delta <= MaxAdvance
     /\ n.elapsed + delta <= MaxElapsed
     /\ ticks * Len(n.vessels) <= MaxSequence - n.sequence
     /\ delta > 0 => n.revision < MaxRevision
     /\ next' = [n EXCEPT !.revision = IF delta > 0 THEN @ + 1 ELSE @]
     /\ loop' = [NoLoop EXCEPT !.kind = "advance", !.first = first, !.tick = first,
                               !.last = last, !.target = n.elapsed + delta,
                               !.vessel = 1, !.credit = credit]
     /\ batch' = StageReceptions(n.stations)
     /\ reports' = <<>>
     /\ pc' = "tick"
     /\ UNCHANGED <<committed, credited>>

BeginAdvance(delta) == StartAdvance(state, delta, delta * SpeedScale)

\* Mutant: the part below one unit is thrown away.
BeginElapseTruncated(delta) ==
  LET scaled == delta * state.speed
  IN /\ state.speed > 0 => delta <= MaxInt \div state.speed
     /\ StartAdvance(state, scaled \div SpeedScale, scaled)

\* Elapse: exact scaling; the part below one unit is staged as the remainder.
BeginElapse(delta) ==
  LET scaled == delta * state.speed + state.remainder
  IN /\ state.speed > 0 => delta <= (MaxInt - state.remainder) \div state.speed
     /\ StartAdvance([state EXCEPT !.remainder = scaled % SpeedScale],
                     scaled \div SpeedScale, delta * state.speed)

\* One vessel of one tick: move it to the tick and emit its report.
TickVessel ==
  LET v == next.vessels[loop.vessel]
  IN /\ pc = "tick"
     /\ loop.tick <= loop.last
     /\ loop.vessel <= Len(next.vessels)
     /\ loop' = [loop EXCEPT !.station = 1, !.heard = FALSE]
     /\ Send(next, [v EXCEPT !.updatedAt = loop.tick * TickInterval], loop.vessel)

\* The end of one tick, also of an empty fleet.
TickEnd ==
  /\ pc = "tick"
  /\ loop.tick <= loop.last
  /\ loop.vessel > Len(next.vessels)
  /\ next' = [next EXCEPT !.updatedAt = loop.tick * TickInterval]
  /\ loop' = [loop EXCEPT !.tick = @ + 1, !.vessel = 1]
  /\ UNCHANGED <<committed, pc, reports, batch, credited>>

\* The context is cancelled: seen between ticks and before the commit.
Cancel ==
  /\ pc = "tick"
  /\ loop.vessel = 1
  /\ loop.tick > loop.first \/ loop.tick > loop.last
  /\ Drop
  /\ UNCHANGED <<committed, credited>>

\* One station of receive: count the outcome, stage a record if received.
Receive(outcome) ==
  LET i == loop.station
      station == next.stations[i]
      t == Last(reports)
      counted == Count(batch.stats[i], outcome, t.channel, t.timestamp \div TickInterval)
      got == outcome = "received"
  IN /\ pc = "receive"
     /\ i <= Len(next.stations)
     /\ outcome \in Decide(station.definition, t.channel)
     /\ got => batch.stats[i].lastReception < MaxSequence /\ batch.receptions < MaxSequence
     /\ batch' = [batch EXCEPT
                    !.stats[i] = counted,
                    !.receptions = @ + Bump(got),
                    !.records = IF got
                                THEN Append(@, Reception(station, counted.lastReception, t))
                                ELSE @]
     /\ loop' = [loop EXCEPT !.station = @ + 1, !.heard = @ \/ got]
     /\ UNCHANGED <<committed, pc, next, reports, credited>>

\* receive fails when a reception sequence or the total is exhausted.
ReceiveFails ==
  /\ pc = "receive"
  /\ loop.station <= Len(next.stations)
  /\ "received" \in Decide(next.stations[loop.station].definition,
                           Last(reports).channel)
  /\ \/ batch.stats[loop.station].lastReception = MaxSequence
     \/ batch.receptions = MaxSequence
  /\ Drop
  /\ UNCHANGED <<committed, credited>>

\* The end of receive: back to the loop that emitted the report.
ReceiveEnd ==
  /\ pc = "receive"
  /\ loop.station > Len(next.stations)
  /\ batch' = [batch EXCEPT !.receivedTransmissions = @ + Bump(loop.heard)]
  /\ loop' = [loop EXCEPT !.vessel = @ + 1, !.station = 0, !.heard = FALSE]
  /\ pc' = IF loop.kind = "count" THEN "spawn" ELSE "tick"
  /\ UNCHANGED <<committed, next, reports, credited>>

\* Mutant: one report too many is evicted.
RetainOneLess(s) ==
  IF Len(s) > MessageLimit THEN SubSeq(s, Len(s) - MessageLimit + 2, Len(s)) ELSE s

Retain(s) == IF Len(s) > MessageLimit THEN SubSeq(s, Len(s) - MessageLimit + 1, Len(s)) ELSE s

\* commit: replace the state, append the reports, publish the counters.
Commit ==
  /\ \/ pc = "spawn" /\ loop.spawn = 0
     \/ pc = "tick" /\ loop.tick > loop.last
  /\ state' = [next EXCEPT !.elapsed = loop.target]
  /\ messages' = Retain(messages \o reports)
  /\ stats' = [id \in StationIDs |-> batch.stats[StationIndex(id)]]
  /\ credited' = credited + loop.credit
  /\ next' = state'
  /\ reports' = <<>>
  /\ pc' = "apply"
  /\ UNCHANGED <<history, targets, totals, batch, loop>>

\* Mutant: observations expire only when the call ends.
ExpiredBeforeNever(r) == targets

\* The observations left before r is recorded: each new record time expires.
ExpiredBefore(r) ==
  IF r.timestamp > loop.expired THEN Expire(targets, r.timestamp) ELSE targets

\* applyReceptions, one record: expire at its time, push it, record it.
ApplyRecord ==
  LET r == batch.records[loop.applied + 1]
      current == ExpiredBefore(r)
  IN /\ pc = "apply"
     /\ loop.applied < Len(batch.records)
     /\ targets' = Record(current, r)
     /\ history' = [history EXCEPT ![r.station] = Push(@, r)]
     /\ totals' = [totals EXCEPT !.evictions = @ + Bump(MustEvict(current, r))]
     /\ loop' = [loop EXCEPT !.applied = @ + 1,
                             !.expired = IF r.timestamp > @ THEN r.timestamp ELSE @]
     /\ UNCHANGED <<state, messages, stats, pc, next, reports, batch, credited>>

\* The end of applyReceptions: expire at the committed instant, publish totals.
Finish ==
  /\ pc = "apply"
  /\ loop.applied = Len(batch.records)
  /\ targets' = Expire(targets, state.elapsed)
  /\ totals' = [totals EXCEPT !.receptions = batch.receptions,
                              !.receivedTransmissions = batch.receivedTransmissions]
  /\ Drop
  /\ UNCHANGED <<state, messages, stats, history, credited>>

SetSpeed(speed) ==
  /\ Idle
  /\ speed # state.speed
  /\ state.revision < MaxRevision
  /\ state' = [state EXCEPT !.speed = speed, !.revision = @ + 1]
  /\ next' = state'
  /\ UNCHANGED <<messages, store, pc, reports, batch, loop, credited>>

-----------------------------------------------------------------------------
(***************************************************************************)
(* Station edits, each against an expected revision of the station set     *)
(***************************************************************************)

\* Mutant: IDs are numbered by position, so a removed ID comes back.
NextStationIDByPosition == Len(state.stations) + 1

NextStationID == state.lastStationID + 1

AddStation(expected, d) ==
  LET id == NextStationID
  IN /\ Idle
     /\ expected = state.stationRevision
     /\ Len(state.stations) < MaxStations
     /\ state.lastStationID < MaxRevision
     /\ state.stationRevision < MaxRevision
     /\ state.revision < MaxRevision
     /\ state' = [state EXCEPT
                    !.lastStationID = id,
                    !.stations = Append(@, NewStation(id, d, state.elapsed)),
                    !.stationRevision = @ + 1,
                    !.revision = @ + 1]
     /\ next' = state'
     /\ stats' = [k \in DOMAIN stats \cup {id} |-> IF k = id THEN NewStats ELSE stats[k]]
     /\ history' = [k \in DOMAIN history \cup {id} |-> IF k = id THEN <<>> ELSE history[k]]
     /\ UNCHANGED <<messages, targets, totals, pc, reports, batch, loop, credited>>

\* Mutant: an RF edit computes the new coverage under the old RF revision.
EditedUnmarked(s, d) ==
  [s EXCEPT !.definition = d, !.configRevision = @ + 1, !.coverage = RF(d)]

\* UpdateStation: an edit that only renames keeps the RF revision and coverage.
Edited(s, d) ==
  IF RF(d) = RF(s.definition)
  THEN [s EXCEPT !.definition = d, !.configRevision = @ + 1]
  ELSE [s EXCEPT !.definition = d, !.configRevision = @ + 1, !.rfRevision = @ + 1,
                 !.rfUpdatedAt = state.elapsed, !.coverage = RF(d)]

UpdateStation(expected, id, d) ==
  LET i == StationIndex(id)
      s == state.stations[i]
  IN /\ Idle
     /\ expected = state.stationRevision
     /\ id \in StationIDs
     /\ d # s.definition
     /\ s.configRevision < MaxRevision
     /\ state.stationRevision < MaxRevision
     /\ state.revision < MaxRevision
     /\ RF(d) # RF(s.definition) => s.rfRevision < MaxRevision
     /\ state' = [state EXCEPT
                    !.stations[i] = Edited(s, d),
                    !.stationRevision = @ + 1,
                    !.revision = @ + 1]
     /\ next' = state'
     /\ UNCHANGED <<messages, store, pc, reports, batch, loop, credited>>

\* Mutant: the counters of a removed station stay.
WithoutKept(f, id) == f

Without(f, id) == [k \in DOMAIN f \ {id} |-> f[k]]

\* RemoveStation also deletes the station's counters, history, observations.
RemoveStation(expected, id) ==
  /\ Idle
  /\ expected = state.stationRevision
  /\ id \in StationIDs
  /\ state.stationRevision < MaxRevision
  /\ state.revision < MaxRevision
  /\ state' = [state EXCEPT
                 !.stations = RemoveAt(@, StationIndex(id)),
                 !.stationRevision = @ + 1,
                 !.revision = @ + 1]
  /\ next' = state'
  /\ stats' = Without(stats, id)
  /\ history' = Without(history, id)
  /\ targets' = RemoveObservations(targets, {r \in AllObservations(targets) : r.station = id})
  /\ UNCHANGED <<messages, totals, pc, reports, batch, loop, credited>>

-----------------------------------------------------------------------------
Next ==
  \/ \E count \in 0..MaxVessels : BeginSetCount(count)
  \/ \E delta \in VirtualDeltas : BeginAdvance(delta)
  \/ \E delta \in RealDeltas : BeginElapse(delta)
  \/ \E speed \in Speeds : SetSpeed(speed)
  \/ \E expected \in FirstRevision..MaxRevision, d \in Definitions : AddStation(expected, d)
  \/ \E expected \in FirstRevision..MaxRevision, id \in StationIDs, d \in Definitions :
       UpdateStation(expected, id, d)
  \/ \E expected \in FirstRevision..MaxRevision, id \in StationIDs : RemoveStation(expected, id)
  \/ Spawn
  \/ SpawnFails
  \/ TickVessel
  \/ TickEnd
  \/ Cancel
  \/ \E outcome \in Outcomes : Receive(outcome)
  \/ ReceiveFails
  \/ ReceiveEnd
  \/ Commit
  \/ ApplyRecord
  \/ Finish

Spec == Init /\ [][Next]_vars

-----------------------------------------------------------------------------
(***************************************************************************)
(* Properties                                                              *)
(***************************************************************************)
Message == [sequence : Nat, mmsi : Nat, timestamp : Nat, channel : Channels]
Vessel == [mmsi : Nat, updatedAt : Nat, reports : Nat, report : Message]
Station ==
  [id : Nat, definition : Definitions, configRevision : Nat, rfRevision : Nat,
   createdAt : Nat, rfUpdatedAt : Nat, coverage : {RF(d) : d \in Definitions}]
ReceptionRecord ==
  [station : Nat, sequence : Nat, transmission : Nat, mmsi : Nat, timestamp : Nat,
   channel : Channels, configRevision : Nat, rfRevision : Nat,
   receiver : {Receiver(d, c) : d \in Definitions, c \in Channels}]
Stats ==
  [lastReception : Nat, opportunities : Nat, outcome : [Outcomes -> Nat],
   channel : [Channels -> [opportunities : Nat, received : Nat]],
   buckets : [0..(RateBuckets - 1) -> [second : Nat, opportunities : Nat, received : Nat]]]
StateRecord ==
  [revision : Nat, vessels : Seq(Vessel), nextMMSI : Nat, sequence : Nat,
   elapsed : Nat, remainder : Nat, speed : Nat, updatedAt : Nat,
   stations : Seq(Station), lastStationID : Nat, stationRevision : Nat]
LoopRecord ==
  [kind : {"none", "count", "advance"}, tick : Nat, last : Nat, first : Nat,
   target : Nat, spawn : Nat, vessel : Nat, station : Nat, heard : BOOLEAN,
   applied : Nat, expired : Int, credit : Nat]

StateTypeOK ==
  /\ state \in StateRecord
  /\ next \in StateRecord
  /\ messages \in Seq(Message)
  /\ reports \in Seq(Message)

StatsTypeOK ==
  /\ DOMAIN stats = StationIDs
  /\ DOMAIN history = StationIDs
  /\ \A id \in StationIDs : stats[id] \in Stats /\ history[id] \in Seq(ReceptionRecord)

TargetsTypeOK ==
  \A m \in DOMAIN targets :
    /\ m \in Nat
    /\ targets[m] \in [observations : SUBSET ReceptionRecord, receivedAt : Nat]

BatchTypeOK ==
  batch \in [stats : Seq(Stats), records : Seq(ReceptionRecord), receptions : Nat,
             receivedTransmissions : Nat]

ControlTypeOK ==
  /\ totals \in [receptions : Nat, receivedTransmissions : Nat, evictions : Nat]
  /\ loop \in LoopRecord
  /\ pc \in {"idle", "spawn", "tick", "receive", "apply"}
  /\ credited \in Nat

\* Every variable of the engine keeps the type of its Go declaration, and the
\* reception store holds exactly the configured stations (receptionStore).
TypeOK == StateTypeOK /\ StatsTypeOK /\ TargetsTypeOK /\ BatchTypeOK /\ ControlTypeOK

Minimum(a, b) == IF a < b THEN a ELSE b

\* The retained history is exactly the newest MessageLimit reports of the run:
\* no gap, no duplicate and no report of a failed or cancelled call, however
\* calls are batched (commit, emit and reserve).
HistoryContiguous ==
  /\ Len(messages) = Minimum(state.sequence, MessageLimit)
  /\ \A i \in DOMAIN messages :
       messages[i].sequence = state.sequence - Len(messages) + i

\* Virtual time is exactly the time asked for: whatever the speed changes, the
\* splits and the failed calls, no fraction is lost or gained (Elapse).
ClockExact ==
  /\ state.remainder < SpeedScale
  /\ state.elapsed * SpeedScale + state.remainder = credited

\* The invariant stated for vesselState: every vessel has been reported at the
\* latest tick since its birth, its report is current, and the same message is
\* in history until evicted.
FleetReported ==
  Idle =>
    \A i \in DOMAIN state.vessels :
      LET v == state.vessels[i]
      IN /\ v.report.timestamp = v.updatedAt
         /\ v.updatedAt \in (state.elapsed - (state.elapsed % TickInterval))..state.elapsed
         /\ \/ \E k \in DOMAIN messages : messages[k] = v.report
            \/ Len(messages) = MessageLimit /\ v.report.sequence < messages[1].sequence

\* MMSIs are never reused and identify one vessel; its reports alternate
\* between the channels without a gap (channel, SetCount).
ChannelsAlternate ==
  \A i, j \in DOMAIN messages :
    /\ i < j
    /\ messages[i].mmsi = messages[j].mmsi
    /\ \A k \in (i + 1)..(j - 1) : messages[k].mmsi # messages[i].mmsi
    => messages[i].channel # messages[j].channel

\* The fleet as the messages show it: every vessel reported at its latest tick,
\* and no channel used twice in a row by one vessel, whatever growing, shrinking
\* and failed calls the fleet has been through (SetCount, advance).
FleetExact == FleetReported /\ ChannelsAlternate

\* The reception history of a station is its newest receptions with contiguous
\* sequences, in transmission order, and its counters agree (receive, push).
ReceptionsContiguous ==
  Idle =>
    \A id \in StationIDs :
      LET h == history[id]
          st == stats[id]
      IN /\ Len(h) = Minimum(st.lastReception, ReceptionHistoryLimit)
         /\ \A i \in DOMAIN h : h[i].sequence = st.lastReception - Len(h) + i
         /\ \A i, j \in DOMAIN h :
              i < j => /\ h[i].transmission < h[j].transmission
                       /\ h[i].timestamp <= h[j].timestamp
         /\ st.outcome["received"] = st.lastReception

\* The observation store: bounded, only unexpired observations of configured
\* stations, at most one per station and MMSI, and receivedAt the newest of
\* them, which eviction relies on (record, evict, expire, removeStation).
TargetsSound ==
  Idle =>
    /\ Cardinality(DOMAIN targets) <= TargetLimit
    /\ \A m \in DOMAIN targets :
         LET obs == targets[m].observations
         IN /\ obs # {}
            /\ \A r \in obs :
                 /\ r.mmsi = m
                 /\ r.station \in StationIDs
                 /\ state.elapsed - r.timestamp \in 0..(ExpiryAge - 1)
                 /\ r.timestamp <= targets[m].receivedAt
            /\ \E r \in obs : r.timestamp = targets[m].receivedAt
            /\ \A r, q \in obs : r.station = q.station => r = q

\* Nothing received is missing: until a target is evicted, the newest retained
\* reception of every MMSI at every station is its observation unless expired,
\* and an observation is never older than the retained receptions.
TargetsComplete ==
  Idle =>
    \A id \in StationIDs : \A i \in DOMAIN history[id] :
      LET r == history[id][i]
          newer == \E j \in (i + 1)..Len(history[id]) : history[id][j].mmsi = r.mmsi
          observed == r \in AllObservations(targets)
      IN /\ observed => ~newer
         /\ ~newer /\ state.elapsed - r.timestamp < ExpiryAge /\ totals.evictions = 0 => observed

\* What the stations know is what they received: the rings and the observation
\* store hold the newest receptions, all of them and nothing else, through
\* overwriting, eviction, expiry and the removal of stations (applyReceptions).
StoreExact == ReceptionsContiguous /\ TargetsSound /\ TargetsComplete

\* A reception tells the configuration that it was made under.  Under the station's
\* present revision, that is the present definition; under its present RF revision,
\* it was made since that revision began, by the present channels and site of a
\* station that is enabled; under an earlier one, before that revision began.
MadeUnder(r, s) ==
  /\ r.receiver.enabled
  /\ r.configRevision = s.configRevision => r.receiver = Receiver(s.definition, r.channel)
  /\ r.rfRevision = s.rfRevision =>
       /\ s.definition.enabled
       /\ r.channel \in s.definition.channels
       /\ r.receiver.site = s.definition.site
       /\ s.rfUpdatedAt <= r.timestamp
  /\ r.rfRevision < s.rfRevision => r.timestamp <= s.rfUpdatedAt

\* A reader never sees a cached coverage, revision or instant that disagrees
\* with the station it belongs to, and a reception never carries a revision
\* its station has not reached, nor a receiver or an instant of another revision
\* than it carries (UpdateStation, newReception).
StationsCoherent ==
  /\ \A i \in DOMAIN state.stations :
       LET s == state.stations[i]
       IN /\ s.coverage = RF(s.definition)
          /\ s.rfRevision <= s.configRevision
          /\ s.createdAt <= s.rfUpdatedAt /\ s.rfUpdatedAt <= state.elapsed
          /\ s.id <= state.lastStationID
          /\ \A j \in DOMAIN state.stations : i < j => s.id < state.stations[j].id
          /\ Idle => \A k \in DOMAIN history[s.id] :
               LET r == history[s.id][k]
               IN /\ r.station = s.id
                  /\ r.rfRevision <= s.rfRevision
                  /\ r.configRevision <= s.configRevision
                  /\ s.createdAt <= r.timestamp
                  /\ MadeUnder(r, s)

\* A station s that became t: the RF revision and its instant have changed if and
\* only if the RF configuration has, and its revision if its definition has.
Advanced(s, t) ==
  /\ t.createdAt = s.createdAt
  /\ t.definition # s.definition => t.configRevision > s.configRevision
  /\ IF RF(t.definition) = RF(s.definition)
     THEN t.rfRevision = s.rfRevision /\ t.rfUpdatedAt = s.rfUpdatedAt
     ELSE t.rfRevision > s.rfRevision /\ t.rfUpdatedAt = state.elapsed

StationsAdvance ==
  \A i \in DOMAIN state.stations, j \in DOMAIN state'.stations :
    state'.stations[j].id = state.stations[i].id =>
      Advanced(state.stations[i], state'.stations[j])

EditStep ==
  /\ \A id \in StationIDs' \ StationIDs : id > state.lastStationID
  /\ StationsAdvance
  /\ state'.stations # state.stations => state'.stationRevision > state.stationRevision
  /\ state'.stationRevision >= state.stationRevision
  /\ state'.revision >= state.revision

\* A station ID is never reused, and the revisions only grow, so a client that
\* holds an old revision can never have its edit accepted; a station keeps its RF
\* revision, and what is cached by it, through a rename and loses it with every RF
\* edit (AddStation, UpdateStation).
EditsAdvance == [][EditStep]_vars

=============================================================================
