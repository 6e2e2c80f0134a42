----------------------------- MODULE EngineCalls -----------------------------
(***************************************************************************)
(* What the engine promises its callers: every method takes effect at one  *)
(* instant or not at all.  Module Engine unrolls the same methods into one *)
(* step per report, station and reception; it implements this module       *)
(* (EngineAtomic).  The driver is the only caller of the mutating methods  *)
(* and is modelled on top of this module (Driver).                         *)
(*                                                                         *)
(* A call that returns an error changes nothing and is a stuttering step.  *)
(***************************************************************************)
EXTENDS Integers, Sequences, FiniteSets, SequencesExt

CONSTANTS
  TickInterval, MaxAdvance, MaxElapsed, MaxRevision, MaxSequence,
  MaxVessels, MaxStations, SpeedScale, Speeds, Definitions,
  InitialVesselCount, InitialStations, InitialSpeed,
  VirtualDeltas, RealDeltas

VARIABLE engine   \* the committed state, as far as callers depend on it

FirstRevision == 1

\* The virtual instant; time counts in units of 1/SpeedScale.
Elapsed(e) == e.time \div SpeedScale
Remainder(e) == e.time % SpeedScale

StationIDs == {engine.stations[i].id : i \in DOMAIN engine.stations}
Position(id) == CHOOSE i \in DOMAIN engine.stations : engine.stations[i].id = id

\* New before its initial SetCount.
Init ==
  engine = [created |-> FALSE, count |-> 0, sequence |-> 0, time |-> 0,
            speed |-> InitialSpeed, revision |-> FirstRevision,
            stations |-> [i \in DOMAIN InitialStations |->
                            [id |-> i, definition |-> InitialStations[i]]],
            lastStationID |-> Len(InitialStations),
            stationRevision |-> FirstRevision]

\* New returns with the initial fleet reported and revision 1.
New ==
  /\ ~engine.created
  /\ engine' = [engine EXCEPT !.created = TRUE,
                              !.count = InitialVesselCount,
                              !.sequence = InitialVesselCount]

\* Vessels are created with a report each, or removed silently.
SetCount(count) ==
  LET added == IF count > engine.count THEN count - engine.count ELSE 0
  IN /\ engine.created
     /\ count # engine.count
     /\ engine.revision < MaxRevision
     /\ added <= MaxSequence - engine.sequence
     /\ engine' = [engine EXCEPT !.count = count,
                                 !.sequence = @ + added,
                                 !.revision = @ + 1]

\* Whole units and ticks that the clock passes when it moves by span.
Whole(span) == (Remainder(engine) + span) \div SpeedScale
Ticks(span) ==
  (Elapsed(engine) + Whole(span)) \div TickInterval - Elapsed(engine) \div TickInterval

\* The limits of advance.
CanMove(span) ==
  /\ Whole(span) <= MaxAdvance
  /\ Elapsed(engine) + Whole(span) <= MaxElapsed
  /\ Ticks(span) * engine.count <= MaxSequence - engine.sequence
  /\ Whole(span) > 0 => engine.revision < MaxRevision

\* The clock moves by span, and every vessel reports at every tick passed.
MoveTime(span) ==
  /\ engine.created
  /\ CanMove(span)
  /\ engine' = [engine EXCEPT !.time = @ + span,
                              !.sequence = @ + Ticks(span) * engine.count,
                              !.revision = IF Whole(span) > 0 THEN @ + 1 ELSE @]

Advance(delta) == MoveTime(delta * SpeedScale)
Elapse(delta) == MoveTime(delta * engine.speed)

SetSpeed(speed) ==
  /\ engine.created
  /\ speed # engine.speed
  /\ engine.revision < MaxRevision
  /\ engine' = [engine EXCEPT !.speed = speed, !.revision = @ + 1]

\* Every station edit names the revision of the station set it was based on.
Edit(expected, stations, lastStationID) ==
  /\ engine.created
  /\ expected = engine.stationRevision
  /\ engine.revision < MaxRevision
  /\ engine.stationRevision < MaxRevision
  /\ engine' = [engine EXCEPT !.stations = stations,
                              !.lastStationID = lastStationID,
                              !.stationRevision = @ + 1,
                              !.revision = @ + 1]

AddStation(expected, d) ==
  LET id == engine.lastStationID + 1
  IN /\ Len(engine.stations) < MaxStations
     /\ engine.lastStationID < MaxRevision
     /\ Edit(expected, Append(engine.stations, [id |-> id, definition |-> d]), id)

UpdateStation(expected, id, d) ==
  /\ id \in StationIDs
  /\ engine.stations[Position(id)].definition # d
  /\ Edit(expected, [engine.stations EXCEPT ![Position(id)].definition = d],
          engine.lastStationID)

RemoveStation(expected, id) ==
  /\ id \in StationIDs
  /\ Edit(expected, RemoveAt(engine.stations, Position(id)), engine.lastStationID)

Next ==
  \/ New
  \/ \E count \in 0..MaxVessels : SetCount(count)
  \/ \E delta \in VirtualDeltas : Advance(delta)
  \/ \E delta \in RealDeltas : Elapse(delta)
  \/ \E speed \in Speeds : SetSpeed(speed)
  \/ \E d \in Definitions : AddStation(engine.stationRevision, d)
  \/ \E id \in StationIDs, d \in Definitions : UpdateStation(engine.stationRevision, id, d)
  \/ \E id \in StationIDs : RemoveStation(engine.stationRevision, id)

Spec == Init /\ [][Next]_engine
=============================================================================
