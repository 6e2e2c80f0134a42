---------------------------- MODULE EngineAtomic ----------------------------
(***************************************************************************)
(* The engine implements EngineCalls: however a method is spread over its  *)
(* loops, its effect on the committed state happens in one step.           *)
(***************************************************************************)
EXTENDS Engine

\* New is over once its SetCount, the only one that keeps the revision, commits.
InNew ==
  /\ pc \in {"spawn", "receive"}
  /\ loop.kind = "count"
  /\ next.revision = state.revision

visible ==
  [created |-> ~InNew,
   count |-> Len(state.vessels),
   sequence |-> state.sequence,
   time |-> state.elapsed * SpeedScale + state.remainder,
   speed |-> state.speed,
   revision |-> state.revision,
   stations |-> [i \in DOMAIN state.stations |->
                   [id |-> state.stations[i].id,
                    definition |-> state.stations[i].definition]],
   lastStationID |-> state.lastStationID,
   stationRevision |-> state.stationRevision]

Calls == INSTANCE EngineCalls WITH engine <- visible

\* Every call takes effect at one instant or not at all: a cancelled or failed
\* call leaves no trace, and a committed one emitted exactly one report per
\* vessel and tick, or one per created vessel (SetCount, Advance, Elapse).
Atomic == Calls!Spec
=============================================================================
