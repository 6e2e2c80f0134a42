------------------------------- MODULE Driver -------------------------------
(***************************************************************************)
(* The driver (package internal/simdriver): it paces the engine with       *)
(* measured real time and serializes commands with that pacing.            *)
(*                                                                         *)
(* Processes: the goroutine of Run and one goroutine per request of a      *)
(* client.  A process waits for d.mu at "lock"; it then holds the lock at  *)
(* "deliver" (between two chunks) and "act" (settled, before the engine    *)
(* call).  Readers never take the lock and see every delivered chunk.      *)
(* Real time counts in the engine's duration unit.                         *)
(***************************************************************************)
EXTENDS Integers, Sequences, FiniteSets

CONSTANTS
  TickInterval, MaxAdvance, MaxElapsed, MaxRevision, MaxSequence,
  MaxVessels, MaxStations, SpeedScale, Speeds, Definitions,
  InitialVesselCount, InitialStations, InitialSpeed,
  Clients,
  SimulationIDs,     \* run identities that clients name
  SimulationID,      \* the identity of this run
  Chunk,             \* elapseChunk
  MaxCatchUp,        \* largest virtual backlog of one settlement
  CountRequests,     \* requested counts, valid or not
  SpeedRequests,     \* requested speeds, valid or not
  DefinitionRequests,
  MaxNow,            \* bound on the real clock
  ClockSteps         \* changes of the real clock; a Clock may also go back

VARIABLES
  engine,     \* the simulation engine (EngineCalls)
  now,        \* the real clock
  baseline,   \* real instant up to which elapsed time was delivered
  stopped,    \* Run has returned, or is past its deferred lock
  mu,         \* the process that holds d.mu, or "free"
  pc,         \* where each process is
  request,    \* client -> the command it waits for
  cancelled,  \* processes whose context is done
  left,       \* elapsed time that the holder of d.mu has not delivered yet
  asked,      \* history: earliest clock reading since the call of a client
  owed        \* history: virtual time less speed * baseline, fixed between speed changes

driver == <<baseline, stopped, mu, left>>
history == <<asked, owed>>
vars == <<engine, now, driver, pc, request, cancelled, history>>

Engine == INSTANCE EngineCalls WITH VirtualDeltas <- {}, RealDeltas <- 1..Chunk

ASSUME DriverAssumption ==
  /\ Chunk \in Nat \ {0}
  /\ {SpeedScale, TickInterval} \subseteq Nat \ {0}
  /\ {MaxCatchUp, MaxNow, MaxAdvance} \subseteq Nat
  /\ Speeds \subseteq Nat
  /\ InitialSpeed \in Speeds
  /\ ClockSteps \subseteq Int
  /\ SimulationID \in SimulationIDs
  /\ "run" \notin Clients /\ "free" \notin Clients

\* elapseChunk is MaxAdvance over the highest speed.
ASSUME ChunkAssumption == \A s \in Speeds : Chunk * s <= MaxAdvance * SpeedScale

Run == "run"
Processes == Clients \cup {Run}
Edits == {"add", "update", "remove"}

-----------------------------------------------------------------------------
\* Commands.  A client names a run and a station-set revision it read earlier.
CountRequest(count) == [op |-> "count", count |-> count]
SpeedRequest(speed) == [op |-> "speed", speed |-> speed]
AddRequest(run, expected, d) ==
  [op |-> "add", simulationID |-> run, expected |-> expected, definition |-> d]
UpdateRequest(run, expected, id, d) ==
  [op |-> "update", simulationID |-> run, expected |-> expected, id |-> id,
   definition |-> d]
RemoveRequest(run, expected, id) ==
  [op |-> "remove", simulationID |-> run, expected |-> expected, id |-> id]

NoRequest == [op |-> "none"]

\* ValidateSpeed, ValidateStation and the range of a count.
Valid(r) ==
  /\ r.op = "count" => r.count \in 0..MaxVessels
  /\ r.op = "speed" => r.speed \in Speeds
  /\ r.op \in {"add", "update"} => r.definition \in Definitions

Full == Len(engine.stations) >= MaxStations

\* Mutant: the expected revision is left to the engine.
RejectedStale(c) ==
  LET r == request[c]
  IN \/ stopped
     \/ ~Valid(r)
     \/ /\ r.op \in Edits
        /\ \/ c \in cancelled
           \/ r.simulationID # SimulationID
           \/ IF r.op = "add" THEN Full ELSE r.id \notin Engine!StationIDs

\* The checks that reject the command of client c before it settles.
Rejected(c) ==
  LET r == request[c]
  IN \/ stopped
     \/ ~Valid(r)
     \/ /\ r.op \in Edits
        /\ \/ c \in cancelled
           \/ r.simulationID # SimulationID
           \/ r.expected # engine.stationRevision
           \/ IF r.op = "add" THEN Full ELSE r.id \notin Engine!StationIDs

-----------------------------------------------------------------------------
Init ==
  /\ engine = [created |-> TRUE, count |-> InitialVesselCount,
               sequence |-> InitialVesselCount, time |-> 0,
               speed |-> InitialSpeed, revision |-> 1,
               stations |-> [i \in DOMAIN InitialStations |->
                               [id |-> i, definition |-> InitialStations[i]]],
               lastStationID |-> Len(InitialStations),
               stationRevision |-> 1]
  /\ now = 0 /\ baseline = 0
  /\ stopped = FALSE
  /\ mu = "free"
  /\ pc = [p \in Processes |-> IF p = Run THEN "new" ELSE "idle"]
  /\ request = [c \in Clients |-> NoRequest]
  /\ cancelled = {}
  /\ left = 0
  /\ asked = [c \in Clients |-> 0]
  /\ owed = 0

\* The environment: real time passes, contexts are cancelled, clients call.
ClockStep(d) ==
  /\ now + d \in 0..MaxNow
  /\ now' = now + d
  /\ asked' = [c \in Clients |-> IF now' < asked[c] THEN now' ELSE asked[c]]
  /\ UNCHANGED <<engine, driver, pc, request, cancelled, owed>>

CancelContext(p) ==
  /\ p \notin cancelled
  /\ p \in Clients => pc[p] # "idle"
  /\ cancelled' = cancelled \cup {p}
  /\ UNCHANGED <<engine, now, driver, pc, request, history>>

Call(c, r) ==
  /\ pc[c] = "idle"
  /\ pc' = [pc EXCEPT ![c] = "lock"]
  /\ request' = [request EXCEPT ![c] = r]
  /\ asked' = [asked EXCEPT ![c] = now]
  /\ UNCHANGED <<engine, now, driver, cancelled, owed>>

\* Run: started once, then a tick or its context, whichever select picks.
StartRun ==
  /\ pc[Run] = "new"
  /\ pc' = [pc EXCEPT ![Run] = "select"]
  /\ UNCHANGED <<engine, now, driver, request, cancelled, history>>

Tick ==
  /\ pc[Run] = "select"
  /\ pc' = [pc EXCEPT ![Run] = "lock"]
  /\ UNCHANGED <<engine, now, driver, request, cancelled, history>>

ContextDone ==
  /\ pc[Run] = "select"
  /\ Run \in cancelled
  /\ pc' = [pc EXCEPT ![Run] = "exit"]
  /\ UNCHANGED <<engine, now, driver, request, cancelled, history>>

\* Mutant: the deferred function does not wait for the lock.
ExitUnlocked ==
  /\ pc[Run] = "exit"
  /\ stopped' = TRUE
  /\ pc' = [pc EXCEPT ![Run] = "returned"]
  /\ UNCHANGED <<engine, now, baseline, mu, left, request, cancelled, history>>

\* The deferred function of Run.
Exit ==
  /\ pc[Run] = "exit"
  /\ mu = "free"
  /\ stopped' = TRUE
  /\ pc' = [pc EXCEPT ![Run] = "returned"]
  /\ UNCHANGED <<engine, now, baseline, mu, left, request, cancelled, history>>

-----------------------------------------------------------------------------
\* Mutant: a command returns without its deferred unlock.
ReturnLocked(c) ==
  /\ request' = [request EXCEPT ![c] = NoRequest]
  /\ pc' = [pc EXCEPT ![c] = "idle"]
  /\ cancelled' = cancelled \ {c}
  /\ UNCHANGED mu
  /\ asked' = [asked EXCEPT ![c] = 0]

\* A command returns, with a result or an error, and its deferred unlock runs.
Return(c) ==
  /\ request' = [request EXCEPT ![c] = NoRequest]
  /\ pc' = [pc EXCEPT ![c] = "idle"]
  /\ cancelled' = cancelled \ {c}
  /\ mu' = "free"
  /\ asked' = [asked EXCEPT ![c] = 0]

Reject(c) ==
  /\ pc[c] = "lock" /\ mu = "free"
  /\ Rejected(c)
  /\ Return(c)
  /\ UNCHANGED <<engine, now, baseline, stopped, left, owed>>

\* Mutant: Run goes on after a failed settlement.
SettlementFailedIgnored(p) ==
  /\ left' = 0
  /\ \/ p = Run /\ mu' = "free" /\ pc' = [pc EXCEPT ![p] = "select"]
                /\ UNCHANGED <<request, cancelled, asked>>
     \/ p \in Clients /\ Return(p)
  /\ UNCHANGED <<engine, now, baseline, stopped, owed>>

\* settleLocked returned an error: the command fails, or Run ends.
SettlementFailed(p) ==
  /\ left' = 0
  /\ \/ p = Run /\ mu' = "free" /\ pc' = [pc EXCEPT ![p] = "exit"]
                /\ UNCHANGED <<request, cancelled, asked>>
     \/ p \in Clients /\ Return(p)
  /\ UNCHANGED <<engine, now, baseline, stopped, owed>>

\* settleLocked returned nil: a command goes on holding the lock.
Settled(p) ==
  IF p = Run
  THEN mu' = "free" /\ pc' = [pc EXCEPT ![p] = "select"]
  ELSE mu' = p /\ pc' = [pc EXCEPT ![p] = "act"]

\* Process p takes the lock and reaches settleLocked.
Enters(p) ==
  /\ pc[p] = "lock" /\ mu = "free"
  /\ p \in Clients => ~Rejected(p)

Elapsed == now - baseline
Behind == Elapsed * engine.speed > MaxCatchUp * SpeedScale

SettleFails(p) ==
  /\ Enters(p)
  /\ \/ stopped
     \/ p \in cancelled
     \/ Elapsed > 0 /\ engine.speed # 0 /\ Behind
  /\ SettlementFailed(p)

\* Mutant: the paused time stays due.
SettleWithoutDeliveryKept(p) ==
  /\ Enters(p)
  /\ ~stopped /\ p \notin cancelled
  /\ Elapsed <= 0 \/ engine.speed = 0
  /\ Settled(p)
  /\ UNCHANGED <<engine, now, baseline, stopped, left, request, cancelled, history>>

\* No time has passed, or the time of a pause is dropped.
SettleWithoutDelivery(p) ==
  /\ Enters(p)
  /\ ~stopped /\ p \notin cancelled
  /\ Elapsed <= 0 \/ engine.speed = 0
  /\ baseline' = IF Elapsed > 0 THEN now ELSE baseline
  /\ Settled(p)
  /\ UNCHANGED <<engine, now, stopped, left, request, cancelled, history>>

SettleStart(p) ==
  /\ Enters(p)
  /\ ~stopped /\ p \notin cancelled
  /\ Elapsed > 0 /\ engine.speed # 0 /\ ~Behind
  /\ left' = Elapsed
  /\ mu' = p
  /\ pc' = [pc EXCEPT ![p] = "deliver"]
  /\ UNCHANGED <<engine, now, baseline, stopped, request, cancelled, history>>

NextChunk == IF left < Chunk THEN left ELSE Chunk

\* Mutant: the baseline moves only when everything is delivered.
DeliverThenMove(p) ==
  /\ pc[p] = "deliver"
  /\ p \notin cancelled
  /\ Engine!Elapse(NextChunk)
  /\ left' = left - NextChunk
  /\ IF left' = 0
     THEN Settled(p) /\ baseline' = now
     ELSE UNCHANGED <<mu, pc, baseline>>
  /\ UNCHANGED <<now, stopped, request, cancelled, history>>

\* One chunk: Elapse, then the baseline; the lock is held between chunks.
Deliver(p) ==
  /\ pc[p] = "deliver"
  /\ p \notin cancelled
  /\ Engine!Elapse(NextChunk)
  /\ baseline' = baseline + NextChunk
  /\ left' = left - NextChunk
  /\ IF left' = 0 THEN Settled(p) ELSE UNCHANGED <<mu, pc>>
  /\ UNCHANGED <<now, stopped, request, cancelled, history>>

\* Elapse fails when the context is done or at a limit of the engine.
DeliverFails(p) ==
  /\ pc[p] = "deliver"
  /\ p \in cancelled \/ ~Engine!CanMove(NextChunk * engine.speed)
  /\ SettlementFailed(p)

-----------------------------------------------------------------------------
\* The engine method of a command, at the settled instant.
Apply(r) ==
  CASE r.op = "count" -> Engine!SetCount(r.count)
    [] r.op = "speed" -> Engine!SetSpeed(r.speed)
    [] r.op = "add" -> Engine!AddStation(r.expected, r.definition)
    [] r.op = "update" -> Engine!UpdateStation(r.expected, r.id, r.definition)
    [] r.op = "remove" -> Engine!RemoveStation(r.expected, r.id)

\* Commands that the engine accepts without changing anything.
Unchanging(r) ==
  \/ r.op = "count" /\ r.count = engine.count
  \/ r.op = "speed" /\ r.speed = engine.speed
  \/ /\ r.op = "update" /\ r.expected = engine.stationRevision
     /\ engine.stations[Engine!Position(r.id)].definition = r.definition

\* prepareStationEdit checks the context once more after settling.
Withdrawn(c) == request[c].op \in Edits /\ c \in cancelled

ActWithdrawn(c) ==
  /\ pc[c] = "act"
  /\ Withdrawn(c)
  /\ Return(c)
  /\ UNCHANGED <<engine, now, baseline, stopped, left, owed>>

Act(c) ==
  /\ pc[c] = "act"
  /\ ~Withdrawn(c)
  /\ \/ Apply(request[c])
     \/ Unchanging(request[c]) /\ UNCHANGED engine
  /\ owed' = owed + (engine.speed - engine'.speed) * baseline
  /\ Return(c)
  /\ UNCHANGED <<now, baseline, stopped, left>>

\* The engine is at a limit: a revision, an ID, a sequence or an MMSI range.
ActFails(c) ==
  /\ pc[c] = "act"
  /\ ~Withdrawn(c)
  /\ ~Unchanging(request[c])
  /\ Return(c)
  /\ UNCHANGED <<engine, now, baseline, stopped, left, owed>>

-----------------------------------------------------------------------------
Calls(c) ==
  \/ \E count \in CountRequests : Call(c, CountRequest(count))
  \/ \E speed \in SpeedRequests : Call(c, SpeedRequest(speed))
  \/ \E run \in SimulationIDs, expected \in 1..engine.stationRevision :
       \/ \E d \in DefinitionRequests : Call(c, AddRequest(run, expected, d))
       \/ \E id \in 1..engine.lastStationID :
            \/ \E d \in DefinitionRequests : Call(c, UpdateRequest(run, expected, id, d))
            \/ Call(c, RemoveRequest(run, expected, id))

\* What a process does as soon as it has the lock.
Enter(p) ==
  \/ p \in Clients /\ Reject(p)
  \/ SettleFails(p)
  \/ SettleWithoutDelivery(p)
  \/ SettleStart(p)

\* What a process does while it holds the lock.
Hold(p) ==
  \/ Deliver(p)
  \/ DeliverFails(p)
  \/ p \in Clients /\ (Act(p) \/ ActWithdrawn(p) \/ ActFails(p))

Next ==
  \/ \E d \in ClockSteps : ClockStep(d)
  \/ \E p \in Processes : CancelContext(p)
  \/ \E c \in Clients : Calls(c)
  \/ StartRun
  \/ Tick
  \/ ContextDone
  \/ Exit
  \/ \E p \in Processes : Enter(p)
  \/ \E p \in Processes : Hold(p)

Spec == Init /\ [][Next]_vars

\* A process that can run runs; d.mu starves nobody (sync.Mutex hands the lock
\* to a waiter after 1 ms); the ticker keeps firing.
Fairness ==
  /\ WF_vars(Tick)
  /\ SF_vars(Exit)
  /\ \A p \in Processes : SF_vars(Enter(p)) /\ WF_vars(Hold(p))

FairSpec == Spec /\ Fairness

-----------------------------------------------------------------------------
(***************************************************************************)
(* Properties                                                              *)
(***************************************************************************)

\* Virtual time is the integral of the speed over real time: whatever commands,
\* cancellations and clock regressions interleave with the chunks, no real time
\* is delivered twice, skipped while running, or charged at the speed of another
\* period (settleLocked, SetSpeed).
TimeExact == engine.time = owed + engine.speed * baseline

\* The driver is the only mutator, so what an edit checked before it settled
\* still holds when the engine is called (prepareStationEdit).
ChecksHold ==
  \A c \in Clients :
    pc[c] \in {"deliver", "act"} /\ request[c].op \in Edits =>
      /\ request[c].expected = engine.stationRevision
      /\ request[c].op = "add" => ~Full
      /\ request[c].op # "add" => request[c].id \in Engine!StationIDs

\* A command that succeeds applies at a real instant no earlier than the clock
\* was at any time since the call: everything before it is settled at the
\* previous speed, fleet and stations (SetCount, SetSpeed, AddStation).
CommandsSettled ==
  [][\A c \in Clients : pc[c] = "act" /\ pc'[c] = "idle" => baseline >= asked[c]]_vars

\* Once Run has stopped, nothing changes the engine, not even a command that
\* was waiting for the lock or delivering (Run's deferred function).
StoppedFrozen == [][stopped => UNCHANGED <<engine, baseline>>]_vars

\* While Run runs, every real instant is eventually delivered or dropped.
CatchesUp ==
  \A t \in 1..MaxNow : pc[Run] # "new" /\ now >= t ~> stopped \/ baseline >= t

\* A cancelled Run stops, however busy the clients keep the lock.
CancelStops == pc[Run] # "new" /\ Run \in cancelled ~> stopped

\* Every command returns.
CommandsReturn == \A c \in Clients : pc[c] = "lock" ~> pc[c] = "idle"
=============================================================================
