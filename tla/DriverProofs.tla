---------------------------- MODULE DriverProofs ----------------------------
(***************************************************************************)
(* Safety of the driver, for any number of clients, any clock and any      *)
(* limits.                                                                 *)
(***************************************************************************)
EXTENDS Driver, TLAPS

\* The engine is a record with these fields, whatever their values.
EngineShape ==
  engine = [created |-> engine.created, count |-> engine.count, sequence |-> engine.sequence,
            time |-> engine.time, speed |-> engine.speed, revision |-> engine.revision,
            stations |-> engine.stations, lastStationID |-> engine.lastStationID,
            stationRevision |-> engine.stationRevision]

Places == {"idle", "new", "select", "lock", "deliver", "act", "exit", "returned"}
Operations == {"count", "speed"} \cup Edits

DriverType ==
  /\ EngineShape
  /\ engine.time \in Int /\ engine.speed \in Int
  /\ now \in Int /\ baseline \in Int /\ left \in Int /\ owed \in Int
  /\ pc \in [Processes -> Places]
  /\ asked \in [Clients -> Int]
  /\ request = [c \in Clients |-> request[c]]
  /\ stopped \in BOOLEAN

\* The lock has the one process that delivers or acts, and nobody once Run stopped.
Holds(p) == pc[p] \in {"deliver", "act"}

LockCoherent ==
  /\ \A p \in Processes : Holds(p) <=> mu = p
  /\ stopped => mu = "free"
  /\ pc[Run] # "act"

\* What is known of a command that was called, and of one that holds the lock.
Called ==
  \A c \in Clients : pc[c] # "idle" => request[c].op \in Operations /\ asked[c] <= now

Checked == \A c \in Clients : Holds(c) => Valid(request[c])

\* The instant to which the holder's settlement leads is not before the call.
SettledSince ==
  \A c \in Clients :
    /\ pc[c] = "act" => baseline >= asked[c]
    /\ pc[c] = "deliver" => baseline + left >= asked[c]

DriverInv ==
  /\ DriverType /\ LockCoherent /\ Called /\ Checked /\ SettledSince
  /\ TimeExact /\ ChecksHold

-----------------------------------------------------------------------------
(***************************************************************************)
(* What the driver calls                                                   *)
(***************************************************************************)
LEMMA Names == /\ Run \in Processes /\ Run \notin Clients /\ "free" \notin Processes
               /\ Clients \subseteq Processes
BY DriverAssumption DEF Run, Processes

\* A chunk leaves the speed and the stations.
LEMMA ElapseEffect ==
  ASSUME EngineShape, NEW delta, Engine!Elapse(delta)
  PROVE  /\ EngineShape'
         /\ engine'.time = engine.time + delta * engine.speed
         /\ engine'.speed = engine.speed
         /\ engine'.stations = engine.stations
         /\ engine'.stationRevision = engine.stationRevision
BY DEF EngineShape, Engine!Elapse, Engine!MoveTime

\* A command leaves the time, and the speed it sets is a valid one.
LEMMA ApplyEffect ==
  ASSUME EngineShape, NEW r, Valid(r), r.op \in Operations, Apply(r)
  PROVE  /\ EngineShape'
         /\ engine'.time = engine.time
         /\ engine'.speed = engine.speed \/ engine'.speed \in Speeds
<1>1. CASE r.op = "count"
  BY <1>1 DEF Apply, EngineShape, Engine!SetCount
<1>2. CASE r.op = "speed"
  BY <1>2 DEF Apply, EngineShape, Engine!SetSpeed, Valid
<1>3. CASE r.op = "add"
  BY <1>3 DEF Apply, EngineShape, Engine!AddStation, Engine!Edit
<1>4. CASE r.op = "update"
  BY <1>4 DEF Apply, EngineShape, Engine!UpdateStation, Engine!Edit
<1>5. CASE r.op = "remove"
  BY <1>5 DEF Apply, EngineShape, Engine!RemoveStation, Engine!Edit
<1> QED BY <1>1, <1>2, <1>3, <1>4, <1>5 DEF Operations, Edits

-----------------------------------------------------------------------------
(***************************************************************************)
(* Steps around the lock                                                   *)
(***************************************************************************)
\* After a step that frees the lock, or while it is free, nobody holds it.
LEMMA FreedStep ==
  ASSUME DriverInv, NEW p \in Processes, NEW x \in Places \ {"deliver", "act"},
         mu \in {"free", p}, mu' = "free", pc' = [pc EXCEPT ![p] = x]
  PROVE  /\ pc' \in [Processes -> Places]
         /\ LockCoherent' /\ Checked' /\ SettledSince' /\ ChecksHold'
<1>1. pc' \in [Processes -> Places]
  BY DEF DriverInv, DriverType
<1>2. \A q \in Processes : pc'[q] \notin {"deliver", "act"}
  BY Names DEF DriverInv, DriverType, LockCoherent, Holds
<1>3. LockCoherent'
  BY <1>2, Names DEF LockCoherent, Holds
<1>4. Checked' /\ SettledSince' /\ ChecksHold'
  BY <1>2, Names DEF Checked, Holds, SettledSince, ChecksHold
<1> QED BY <1>1, <1>3, <1>4

\* A process that does not hold the lock moves without taking it.
LEMMA OutsideStep ==
  ASSUME DriverInv, NEW p \in Processes, pc[p] \notin {"deliver", "act"},
         NEW x \in Places \ {"deliver", "act"}, pc' = [pc EXCEPT ![p] = x],
         UNCHANGED <<mu, stopped>>
  PROVE  /\ pc' \in [Processes -> Places]
         /\ LockCoherent'
         /\ \A q \in Processes :
              pc[q] \in {"deliver", "act"} \/ pc'[q] \in {"deliver", "act"} =>
                pc'[q] = pc[q] /\ q # p
<1>1. pc' \in [Processes -> Places]
  BY DEF DriverInv, DriverType
<1>2. \A q \in Processes :
        pc[q] \in {"deliver", "act"} \/ pc'[q] \in {"deliver", "act"} =>
          pc'[q] = pc[q] /\ q # p
  BY DEF DriverInv, DriverType
<1>3. pc[Run] # "act" /\ Run \in Processes /\ pc \in [Processes -> Places]
  BY Names DEF DriverInv, DriverType, LockCoherent
<1>4. pc'[Run] # "act"
  BY <1>3
<1>5. /\ \A q \in Processes : Holds(q) <=> mu = q
      /\ stopped => mu = "free"
  BY DEF DriverInv, LockCoherent
<1>6. /\ \A q \in Processes : pc'[q] \in {"deliver", "act"} <=> mu' = q
      /\ stopped' => mu' = "free"
  BY <1>2, <1>5 DEF Holds
<1>7. LockCoherent'
  BY <1>4, <1>6 DEF LockCoherent, Holds
<1> QED BY <1>1, <1>2, <1>7

LEMMA ClockStepInv ==
  ASSUME DriverInv, NEW d \in ClockSteps, ClockStep(d)
  PROVE  DriverInv'
<1>1. now' = now + d /\ d \in Int /\ now' \in Int
  BY DriverAssumption DEF ClockStep, DriverInv, DriverType
<1>2. /\ asked' \in [Clients -> Int]
      /\ \A c \in Clients : asked'[c] <= asked[c] /\ asked'[c] <= now'
  <2>1. asked \in [Clients -> Int]
    BY DEF DriverInv, DriverType
  <2>2. asked' = [c \in Clients |-> IF now' < asked[c] THEN now' ELSE asked[c]]
    BY DEF ClockStep
  <2> QED BY <1>1, <2>1, <2>2
<1>3. UNCHANGED <<engine, baseline, stopped, mu, left, pc, request, owed>>
  BY DEF ClockStep, driver
<1>4. DriverType' /\ LockCoherent' /\ Checked' /\ TimeExact' /\ ChecksHold'
  BY <1>1, <1>2, <1>3
  DEF DriverInv, DriverType, EngineShape, LockCoherent, Holds, Checked, TimeExact, ChecksHold,
      Engine!StationIDs, Full, Valid
<1>5. Called'
  BY <1>1, <1>2, <1>3 DEF DriverInv, Called
<1>6. SettledSince'
  BY <1>2, <1>3 DEF DriverInv, DriverType, SettledSince
<1> QED BY <1>4, <1>5, <1>6 DEF DriverInv

\* Nothing that the invariant speaks of changes.
LEMMA DriverFrame ==
  ASSUME DriverInv, UNCHANGED <<engine, now, driver, pc, request, history>>
  PROVE  DriverInv'
BY DEF DriverInv, DriverType, EngineShape, LockCoherent, Holds, Called, Checked, SettledSince,
       TimeExact, ChecksHold, Engine!StationIDs, Full, Valid, driver, history

LEMMA CallStep ==
  ASSUME DriverInv, NEW c \in Clients, NEW r, r.op \in Operations, Call(c, r)
  PROVE  DriverInv'
<1>1. pc[c] = "idle" /\ pc' = [pc EXCEPT ![c] = "lock"] /\ UNCHANGED <<mu, stopped>>
  BY DEF Call, driver
<1>2. /\ pc' \in [Processes -> Places]
      /\ LockCoherent'
      /\ \A q \in Processes :
           pc[q] \in {"deliver", "act"} \/ pc'[q] \in {"deliver", "act"} =>
             pc'[q] = pc[q] /\ q # c
  BY <1>1, Names, OutsideStep DEF Places
<1>3. /\ request' = [request EXCEPT ![c] = r]
      /\ asked' = [asked EXCEPT ![c] = now]
      /\ UNCHANGED <<engine, now, baseline, stopped, left, owed>>
  BY DEF Call, driver
<1>4. /\ DOMAIN request = Clients
      /\ request' = [a \in Clients |-> request'[a]]
      /\ request'[c] = r
      /\ \A a \in Clients : a # c => request'[a] = request[a]
  BY <1>3 DEF DriverInv, DriverType
<1>5. /\ asked' \in [Clients -> Int]
      /\ asked'[c] = now
      /\ \A a \in Clients : a # c => asked'[a] = asked[a]
  BY <1>3 DEF DriverInv, DriverType
<1>6. DriverType' /\ TimeExact'
  BY <1>2, <1>3, <1>4, <1>5 DEF DriverInv, DriverType, EngineShape, TimeExact
<1>7. Called'
  <2>1. now <= now
    BY DEF DriverInv, DriverType
  <2>2. \A a \in Clients : a # c => pc'[a] = pc[a]
    BY <1>1, Names DEF DriverInv, DriverType
  <2> QED BY <1>3, <1>4, <1>5, <2>1, <2>2 DEF DriverInv, Called
<1>8. Checked' /\ SettledSince' /\ ChecksHold'
  BY <1>2, <1>3, <1>4, <1>5, Names
  DEF DriverInv, Checked, Holds, SettledSince, ChecksHold, Engine!StationIDs, Full, Valid
<1> QED BY <1>2, <1>6, <1>7, <1>8 DEF DriverInv

\* The parts of the invariant that do not depend on who holds the lock.
EngineInt == EngineShape /\ engine.time \in Int /\ engine.speed \in Int

LEMMA ReturnStep ==
  ASSUME DriverInv, NEW c \in Clients, mu \in {"free", c}, Return(c),
         UNCHANGED <<now, stopped>>,
         EngineInt', baseline' \in Int, left' \in Int, owed' \in Int, TimeExact'
  PROVE  DriverInv'
<1>1. c \in Processes /\ "idle" \in Places \ {"deliver", "act"}
  BY Names DEF Places
<1>2. mu' = "free" /\ pc' = [pc EXCEPT ![c] = "idle"]
  BY DEF Return
<1>3. /\ pc' \in [Processes -> Places]
      /\ LockCoherent' /\ Checked' /\ SettledSince' /\ ChecksHold'
  BY <1>1, <1>2, FreedStep
<1>4. /\ request' = [request EXCEPT ![c] = NoRequest]
      /\ asked' = [asked EXCEPT ![c] = 0]
  BY DEF Return
<1>5. /\ request' = [a \in Clients |-> request'[a]]
      /\ \A a \in Clients : a # c => request'[a] = request[a]
  BY <1>4 DEF DriverInv, DriverType
<1>6. /\ asked' \in [Clients -> Int]
      /\ \A a \in Clients : a # c => asked'[a] = asked[a]
  BY <1>4 DEF DriverInv, DriverType
<1>7. DriverType'
  BY <1>3, <1>5, <1>6 DEF DriverInv, DriverType, EngineInt
<1>8. /\ pc'[c] = "idle"
      /\ \A a \in Clients : a # c => pc'[a] = pc[a]
  BY <1>1, <1>2, Names DEF DriverInv, DriverType
<1>9. Called'
  BY <1>5, <1>6, <1>8 DEF DriverInv, Called
<1> QED BY <1>3, <1>7, <1>9 DEF DriverInv

\* The goroutine of Run gives the lock up.
LEMMA RunStep ==
  ASSUME DriverInv, mu \in {"free", Run}, mu' = "free",
         NEW x \in {"select", "exit"}, pc' = [pc EXCEPT ![Run] = x],
         UNCHANGED <<now, stopped, request, asked>>,
         EngineInt', baseline' \in Int, left' \in Int, owed' \in Int, TimeExact'
  PROVE  DriverInv'
<1>1. Run \in Processes /\ x \in Places \ {"deliver", "act"}
  BY Names DEF Places
<1>2. /\ pc' \in [Processes -> Places]
      /\ LockCoherent' /\ Checked' /\ SettledSince' /\ ChecksHold'
  BY <1>1, FreedStep
<1>3. DriverType'
  BY <1>2 DEF DriverInv, DriverType, EngineInt
<1>4. \A a \in Clients : pc'[a] = pc[a]
  BY <1>1, Names DEF DriverInv, DriverType
<1>5. Called'
  BY <1>4 DEF DriverInv, Called
<1> QED BY <1>2, <1>3, <1>5 DEF DriverInv

LEMMA EngineFrame ==
  ASSUME DriverInv, UNCHANGED <<engine, baseline, owed>>
  PROVE  EngineInt' /\ baseline' \in Int /\ owed' \in Int /\ TimeExact'
BY DEF DriverInv, DriverType, EngineInt, EngineShape, TimeExact

LEMMA RunMoves ==
  ASSUME DriverInv, pc[Run] \notin {"deliver", "act"},
         NEW x \in Places \ {"deliver", "act"}, pc' = [pc EXCEPT ![Run] = x],
         UNCHANGED <<engine, now, driver, request, history>>
  PROVE  DriverInv'
<1>1. UNCHANGED <<mu, stopped, baseline, left, asked, owed>>
  BY DEF driver, history
<1>2. /\ pc' \in [Processes -> Places]
      /\ LockCoherent'
      /\ \A q \in Processes :
           pc[q] \in {"deliver", "act"} \/ pc'[q] \in {"deliver", "act"} =>
             pc'[q] = pc[q] /\ q # Run
  BY <1>1, Names, OutsideStep
<1>3. DriverType' /\ TimeExact'
  BY <1>1, <1>2 DEF DriverInv, DriverType, EngineShape, TimeExact
<1>4. \A a \in Clients : pc'[a] = pc[a]
  BY Names DEF DriverInv, DriverType
<1>5. Called' /\ Checked' /\ SettledSince' /\ ChecksHold'
  BY <1>1, <1>4
  DEF DriverInv, Called, Checked, Holds, SettledSince, ChecksHold, Engine!StationIDs, Full, Valid
<1> QED BY <1>2, <1>3, <1>5 DEF DriverInv

LEMMA ExitStep == ASSUME DriverInv, Exit PROVE DriverInv'
<1>1. /\ mu = "free" /\ mu' = "free" /\ pc[Run] = "exit"
      /\ pc' = [pc EXCEPT ![Run] = "returned"]
      /\ UNCHANGED <<engine, now, baseline, left, request, asked, owed>>
  BY DEF Exit, history
<1>2. "returned" \in Places \ {"deliver", "act"}
  BY DEF Places
<1>3. /\ pc' \in [Processes -> Places]
      /\ LockCoherent' /\ Checked' /\ SettledSince' /\ ChecksHold'
  BY <1>1, <1>2, Names, FreedStep
<1>4. DriverType' /\ TimeExact'
  BY <1>1, <1>3 DEF Exit, DriverInv, DriverType, EngineShape, TimeExact
<1>5. \A a \in Clients : pc'[a] = pc[a]
  BY <1>1, Names DEF DriverInv, DriverType
<1>6. Called'
  BY <1>1, <1>5 DEF DriverInv, Called
<1> QED BY <1>3, <1>4, <1>6 DEF DriverInv

-----------------------------------------------------------------------------
(***************************************************************************)
(* Settling                                                                *)
(***************************************************************************)
LEMMA RejectStep ==
  ASSUME DriverInv, NEW c \in Clients, Reject(c)
  PROVE  DriverInv'
<1>1. /\ mu \in {"free", c} /\ Return(c) /\ UNCHANGED <<now, stopped>>
      /\ UNCHANGED <<engine, baseline, left, owed>>
  BY DEF Reject
<1>2. left' \in Int
  BY <1>1 DEF DriverInv, DriverType
<1> QED BY <1>1, <1>2, EngineFrame, ReturnStep

LEMMA SettlementFailedStep ==
  ASSUME DriverInv, NEW p \in Processes, mu \in {"free", p}, SettlementFailed(p)
  PROVE  DriverInv'
<1>1. UNCHANGED <<engine, now, baseline, stopped, owed>> /\ left' \in Int
  BY DEF SettlementFailed
<1>2. EngineInt' /\ baseline' \in Int /\ owed' \in Int /\ TimeExact'
  BY <1>1, EngineFrame
<1>3. CASE p = Run
  <2>1. /\ mu \in {"free", Run} /\ mu' = "free" /\ pc' = [pc EXCEPT ![Run] = "exit"]
        /\ UNCHANGED <<request, asked>>
    BY <1>3, Names DEF SettlementFailed
  <2> QED BY <1>1, <1>2, <2>1, RunStep
<1>4. CASE p \in Clients
  <2>1. Return(p)
    BY <1>4, Names DEF SettlementFailed
  <2> QED BY <1>1, <1>2, <1>4, <2>1, ReturnStep
<1> QED BY <1>3, <1>4 DEF Processes

LEMMA SettleFailsStep ==
  ASSUME DriverInv, NEW p \in Processes, SettleFails(p)
  PROVE  DriverInv'
BY SettlementFailedStep DEF SettleFails, Enters

\* A process that holds the lock has it.
LEMMA HolderStep ==
  ASSUME DriverInv, NEW p \in Processes, pc[p] \in {"deliver", "act"}
  PROVE  /\ mu = p /\ ~stopped
         /\ \A q \in Processes : q # p => pc[q] \notin {"deliver", "act"}
<1>1. \A q \in Processes : pc[q] \in {"deliver", "act"} <=> mu = q
  BY DEF DriverInv, LockCoherent, Holds
<1>2. stopped => mu = "free"
  BY DEF DriverInv, LockCoherent
<1> QED BY <1>1, <1>2, Names

LEMMA DeliverFailsStep ==
  ASSUME DriverInv, NEW p \in Processes, DeliverFails(p)
  PROVE  DriverInv'
<1>1. mu = p
  BY HolderStep DEF DeliverFails
<1> QED BY <1>1, SettlementFailedStep DEF DeliverFails

\* A command takes the lock after its checks, and so does Run.
LEMMA TakesStep ==
  ASSUME DriverInv, NEW p \in Processes, Enters(p), ~stopped,
         NEW x \in {"deliver", "act"}, p = Run => x = "deliver",
         mu' = p, pc' = [pc EXCEPT ![p] = x],
         UNCHANGED <<engine, stopped, request, asked, now>>
  PROVE  /\ pc' \in [Processes -> Places]
         /\ pc'[p] = x
         /\ \A q \in Processes : q # p => pc'[q] \notin {"deliver", "act"}
         /\ LockCoherent' /\ Checked' /\ ChecksHold' /\ Called'
         /\ p \in Clients => asked[p] <= now
<1>1. mu = "free" /\ pc[p] = "lock" /\ (p \in Clients => ~Rejected(p))
  BY DEF Enters
<1>2. /\ pc \in [Processes -> Places] /\ x \in Places
      /\ pc[Run] # "act"
      /\ \A q \in Processes : pc[q] \notin {"deliver", "act"}
  BY <1>1, Names DEF DriverInv, DriverType, LockCoherent, Holds, Places
<1>3. /\ pc' \in [Processes -> Places]
      /\ pc'[p] = x
      /\ \A q \in Processes : q # p => pc'[q] = pc[q]
  BY <1>2
<1>4. \A q \in Processes : q # p => pc'[q] \notin {"deliver", "act"}
  BY <1>2, <1>3
<1>5. LockCoherent'
  <2>1. \A q \in Processes : pc'[q] \in {"deliver", "act"} <=> mu' = q
    BY <1>3, <1>4
  <2>2. pc'[Run] # "act"
    BY <1>2, <1>3, Names
  <2> QED BY <2>1, <2>2 DEF LockCoherent, Holds
<1>6. ASSUME NEW c \in Clients, c = p
      PROVE  /\ Valid(request[c])
             /\ request[c].op \in Edits =>
                  /\ request[c].expected = engine.stationRevision
                  /\ request[c].op = "add" => ~Full
                  /\ request[c].op # "add" => request[c].id \in Engine!StationIDs
  BY <1>1, <1>6 DEF Rejected
<1>7. Checked' /\ ChecksHold'
  BY <1>4, <1>6, Names DEF Checked, Holds, ChecksHold, Valid, Full, Engine!StationIDs
<1>8. Called' /\ (p \in Clients => asked[p] <= now)
  BY <1>1, <1>3, Names DEF DriverInv, Called
<1> QED BY <1>3, <1>4, <1>5, <1>7, <1>8

LEMMA SettleWithoutDeliveryStep ==
  ASSUME DriverInv, NEW p \in Processes, SettleWithoutDelivery(p)
  PROVE  DriverInv'
<1>1. /\ now \in Int /\ baseline \in Int /\ engine.speed \in Int /\ engine.time \in Int
      /\ owed \in Int /\ left \in Int
      /\ engine.time = owed + engine.speed * baseline
  BY DEF DriverInv, DriverType, TimeExact
<1>2. /\ Enters(p) /\ ~stopped
      /\ now - baseline <= 0 \/ engine.speed = 0
      /\ baseline' = IF now - baseline > 0 THEN now ELSE baseline
      /\ Settled(p)
      /\ UNCHANGED <<engine, now, stopped, left, request, asked, owed>>
  BY DEF SettleWithoutDelivery, Elapsed, history
<1>3. /\ baseline' \in Int /\ baseline' >= now
      /\ engine.time = owed + engine.speed * baseline'
  <2>1. CASE now - baseline > 0
    <3>1. baseline' = now /\ engine.speed = 0
      BY <1>1, <1>2, <2>1
    <3> QED BY <1>1, <3>1
  <2>2. CASE ~(now - baseline > 0)
    BY <1>1, <1>2, <2>2
  <2> QED BY <2>1, <2>2
<1>4. TimeExact' /\ EngineInt'
  BY <1>1, <1>2, <1>3 DEF TimeExact, EngineInt, DriverInv, DriverType, EngineShape
<1>5. CASE p = Run
  <2>1. mu \in {"free", Run} /\ mu' = "free" /\ pc' = [pc EXCEPT ![Run] = "select"]
    BY <1>2, <1>5 DEF Settled, Enters
  <2> QED BY <1>1, <1>2, <1>3, <1>4, <2>1, RunStep
<1>6. CASE p # Run
  <2>1. p \in Clients /\ mu' = p /\ pc' = [pc EXCEPT ![p] = "act"]
    BY <1>2, <1>6 DEF Settled, Processes
  <2>2. /\ pc' \in [Processes -> Places]
        /\ pc'[p] = "act"
        /\ \A q \in Processes : q # p => pc'[q] \notin {"deliver", "act"}
        /\ LockCoherent' /\ Checked' /\ ChecksHold' /\ Called'
        /\ asked[p] <= now
    BY <1>2, <1>6, <2>1, TakesStep
  <2>3. asked[p] \in Int
    BY <2>1 DEF DriverInv, DriverType
  <2>4. SettledSince'
    BY <1>1, <1>2, <1>3, <2>2, <2>3, Names DEF SettledSince
  <2>5. DriverType'
    BY <1>1, <1>2, <1>3, <2>2 DEF DriverInv, DriverType, EngineShape
  <2> QED BY <1>4, <2>2, <2>4, <2>5 DEF DriverInv
<1> QED BY <1>5, <1>6

LEMMA SettleStartStep ==
  ASSUME DriverInv, NEW p \in Processes, SettleStart(p)
  PROVE  DriverInv'
<1>1. now \in Int /\ baseline \in Int
  BY DEF DriverInv, DriverType
<1>2. /\ Enters(p) /\ ~stopped
      /\ left' = now - baseline /\ mu' = p /\ pc' = [pc EXCEPT ![p] = "deliver"]
      /\ UNCHANGED <<engine, now, baseline, stopped, request, asked, owed>>
  BY DEF SettleStart, Elapsed, history
<1>3. /\ pc' \in [Processes -> Places]
      /\ pc'[p] = "deliver"
      /\ \A q \in Processes : q # p => pc'[q] \notin {"deliver", "act"}
      /\ LockCoherent' /\ Checked' /\ ChecksHold' /\ Called'
      /\ p \in Clients => asked[p] <= now
  BY <1>2, TakesStep
<1>4. baseline' + left' = now /\ left' \in Int
  BY <1>1, <1>2
<1>5. SettledSince'
  BY <1>2, <1>3, <1>4, Names DEF SettledSince, DriverInv, DriverType
<1>6. DriverType' /\ TimeExact'
  BY <1>2, <1>3, <1>4 DEF DriverInv, DriverType, EngineShape, TimeExact
<1> QED BY <1>3, <1>5, <1>6 DEF DriverInv

\* A chunk moves time and baseline together.
LEMMA DeliverStep ==
  ASSUME DriverInv, NEW p \in Processes, Deliver(p)
  PROVE  DriverInv'
<1> DEFINE n == NextChunk
<1>1. /\ pc[p] = "deliver" /\ Engine!Elapse(n)
      /\ baseline' = baseline + n /\ left' = left - n
      /\ IF left' = 0 THEN Settled(p) ELSE UNCHANGED <<mu, pc>>
      /\ UNCHANGED <<now, stopped, request, asked, owed>>
  BY DEF Deliver, history
<1>2. /\ n \in Int /\ baseline \in Int /\ left \in Int /\ owed \in Int
      /\ engine.speed \in Int /\ engine.time \in Int
  BY DriverAssumption DEF NextChunk, DriverInv, DriverType
<1> HIDE DEF n
<1>3. /\ EngineShape'
      /\ engine'.time = engine.time + n * engine.speed
      /\ engine'.speed = engine.speed
      /\ engine'.stations = engine.stations
      /\ engine'.stationRevision = engine.stationRevision
  BY <1>1, ElapseEffect DEF DriverInv, DriverType
<1>4. /\ baseline' \in Int /\ left' \in Int /\ n * engine.speed \in Int
      /\ baseline' + left' = baseline + left
  BY <1>1, <1>2
<1>5. engine.time + n * engine.speed = owed + engine.speed * (baseline + n)
  BY <1>2 DEF DriverInv, TimeExact
<1>6. EngineInt' /\ TimeExact'
  BY <1>1, <1>2, <1>3, <1>4, <1>5 DEF EngineInt, TimeExact
<1>7. /\ mu = p
      /\ \A q \in Processes : q # p => pc[q] \notin {"deliver", "act"}
  BY <1>1, HolderStep
<1>8. CASE left' = 0 /\ p = Run
  <2>1. mu' = "free" /\ pc' = [pc EXCEPT ![Run] = "select"]
    BY <1>1, <1>8 DEF Settled
  <2> QED BY <1>1, <1>4, <1>6, <1>7, <1>8, <2>1, RunStep DEF DriverInv, DriverType
<1>9. CASE ~(left' = 0 /\ p = Run)
  <2>1. /\ mu' = p
        /\ pc' = pc \/ (p \in Clients /\ left' = 0 /\ pc' = [pc EXCEPT ![p] = "act"])
    BY <1>1, <1>7, <1>9 DEF Settled, Processes
  <2>2. pc \in [Processes -> Places]
    BY DEF DriverInv, DriverType
  <2>3. /\ pc' \in [Processes -> Places]
        /\ pc'[p] = "deliver" \/ (p \in Clients /\ pc'[p] = "act" /\ left' = 0)
        /\ \A q \in Processes : q # p => pc'[q] = pc[q]
    BY <1>1, <2>1, <2>2 DEF Places
  <2>4. \A q \in Processes : pc'[q] \in {"deliver", "act"} <=> mu' = q
    BY <1>7, <2>1, <2>3
  <2>5. pc'[Run] # "act"
    BY <2>3, Names DEF DriverInv, LockCoherent
  <2>6. LockCoherent'
    BY <1>1, <2>4, <2>5, HolderStep DEF LockCoherent, Holds
  <2>7. Called'
    BY <1>1, <2>3, Names DEF DriverInv, Called
  <2>8. Checked'
    BY <1>1, <1>7, <2>3, Names DEF DriverInv, Checked, Holds, Valid
  <2>9. ChecksHold'
    BY <1>1, <1>3, <1>7, <2>3, Names DEF DriverInv, ChecksHold, Full, Engine!StationIDs
  <2>10. SettledSince'
    <3>1. \A c \in Clients : c # p => pc'[c] \notin {"deliver", "act"}
      BY <1>7, <2>3, Names
    <3>2. ASSUME p \in Clients PROVE baseline' + left' >= asked[p]
      BY <1>1, <1>4, <3>2 DEF DriverInv, SettledSince
    <3>3. ASSUME p \in Clients PROVE pc'[p] = "act" => baseline' >= asked[p]
      BY <1>4, <2>3, <3>2, <3>3
    <3> QED BY <1>1, <3>1, <3>2, <3>3 DEF SettledSince
  <2>11. DriverType'
    BY <1>1, <1>4, <1>6, <2>3 DEF DriverInv, DriverType, EngineInt
  <2> QED BY <1>6, <2>6, <2>7, <2>8, <2>9, <2>10, <2>11 DEF DriverInv
<1> QED BY <1>8, <1>9

-----------------------------------------------------------------------------
(***************************************************************************)
(* Acting                                                                  *)
(***************************************************************************)
\* A command charges what was delivered before it at the speed of that period.
LEMMA ActStep ==
  ASSUME DriverInv, NEW c \in Clients, Act(c)
  PROVE  DriverInv'
<1>1. /\ pc[c] = "act" /\ Return(c)
      /\ Apply(request[c]) \/ engine' = engine
      /\ owed' = owed + (engine.speed - engine'.speed) * baseline
      /\ UNCHANGED <<now, baseline, stopped, left>>
  BY DEF Act
<1>2. /\ mu = c /\ Valid(request[c]) /\ request[c].op \in Operations
  BY <1>1, HolderStep, Names DEF DriverInv, Checked, Holds, Called
<1>3. /\ baseline \in Int /\ owed \in Int /\ left \in Int
      /\ engine.speed \in Int /\ engine.time \in Int
      /\ EngineShape
  BY DEF DriverInv, DriverType
<1>4. /\ EngineShape' /\ engine'.time = engine.time
      /\ engine'.speed = engine.speed \/ engine'.speed \in Speeds
  <2>1. CASE Apply(request[c])
    BY <1>2, <1>3, <2>1, ApplyEffect
  <2>2. CASE engine' = engine
    BY <1>3, <2>2 DEF EngineShape
  <2> QED BY <1>1, <2>1, <2>2
<1>5. engine'.speed \in Int
  <2>1. \A s \in Speeds : s \in Int
    BY DriverAssumption
  <2> QED BY <1>3, <1>4, <2>1
<1>6. owed' \in Int
  BY <1>1, <1>3, <1>5
<1>7. owed + engine.speed * baseline =
        owed + (engine.speed - engine'.speed) * baseline + engine'.speed * baseline
  BY <1>3, <1>5
<1>8. TimeExact'
  BY <1>1, <1>4, <1>7 DEF DriverInv, TimeExact
<1>9. EngineInt'
  BY <1>3, <1>4, <1>5 DEF EngineInt
<1> QED BY <1>1, <1>2, <1>3, <1>6, <1>8, <1>9, ReturnStep

LEMMA ActEndsStep ==
  ASSUME DriverInv, NEW c \in Clients, ActWithdrawn(c) \/ ActFails(c)
  PROVE  DriverInv'
<1>1. /\ pc[c] = "act" /\ Return(c)
      /\ UNCHANGED <<engine, now, baseline, stopped, left, owed>>
  BY DEF ActWithdrawn, ActFails
<1>2. mu = c
  BY <1>1, HolderStep, Names
<1>3. left' \in Int
  BY <1>1 DEF DriverInv, DriverType
<1> QED BY <1>1, <1>2, <1>3, EngineFrame, ReturnStep

-----------------------------------------------------------------------------
(***************************************************************************)
(* The theorems                                                            *)
(***************************************************************************)
LEMMA InitDriver == ASSUME Init PROVE DriverInv
<1>1. DriverType
  <2>1. EngineShape /\ engine.time = 0 /\ engine.speed = InitialSpeed
    BY DEF Init, EngineShape
  <2>2. InitialSpeed \in Int
    BY DriverAssumption
  <2>3. pc \in [Processes -> Places]
    BY DEF Init, Places
  <2>4. request = [c \in Clients |-> request[c]] /\ asked \in [Clients -> Int]
    BY DEF Init
  <2>5. now = 0 /\ baseline = 0 /\ left = 0 /\ owed = 0 /\ stopped \in BOOLEAN
    BY Zenon DEF Init
  <2> QED BY <2>1, <2>2, <2>3, <2>4, <2>5 DEF DriverType
<1>2. /\ \A p \in Processes : pc[p] \in {"new", "idle"} /\ p # "free"
      /\ \A c \in Clients : pc[c] = "idle"
      /\ mu = "free" /\ ~stopped
  BY Names DEF Init
<1>3. LockCoherent /\ Called /\ Checked /\ SettledSince /\ ChecksHold
  BY <1>2, Names DEF LockCoherent, Holds, Called, Checked, SettledSince, ChecksHold
<1>4. TimeExact
  BY DriverAssumption DEF Init, TimeExact
<1> QED BY <1>1, <1>3, <1>4 DEF DriverInv

\* Every call of a client names an operation.
LEMMA CallsStep ==
  ASSUME DriverInv, NEW c \in Clients, Calls(c)
  PROVE  DriverInv'
<1>1. PICK r : Call(c, r) /\ r.op \in Operations
  <2>1. CASE \E count \in CountRequests : Call(c, CountRequest(count))
    BY <2>1 DEF CountRequest, Operations
  <2>2. CASE \E speed \in SpeedRequests : Call(c, SpeedRequest(speed))
    BY <2>2 DEF SpeedRequest, Operations
  <2>3. ASSUME NEW run \in SimulationIDs, NEW expected \in 1..engine.stationRevision,
               \E d \in DefinitionRequests : Call(c, AddRequest(run, expected, d))
        PROVE  \E r : Call(c, r) /\ r.op \in Operations
    BY <2>3 DEF AddRequest, Operations, Edits
  <2>4. ASSUME NEW run \in SimulationIDs, NEW expected \in 1..engine.stationRevision,
               NEW id \in 1..engine.lastStationID,
               \/ \E d \in DefinitionRequests : Call(c, UpdateRequest(run, expected, id, d))
               \/ Call(c, RemoveRequest(run, expected, id))
        PROVE  \E r : Call(c, r) /\ r.op \in Operations
    <3>1. CASE \E d \in DefinitionRequests : Call(c, UpdateRequest(run, expected, id, d))
      BY <3>1 DEF UpdateRequest, Operations, Edits
    <3>2. CASE Call(c, RemoveRequest(run, expected, id))
      <4>1. RemoveRequest(run, expected, id).op = "remove"
        BY DEF RemoveRequest
      <4> QED BY <3>2, <4>1 DEF Operations, Edits
    <3> QED BY <2>4, <3>1, <3>2
  <2> QED BY <2>1, <2>2, <2>3, <2>4 DEF Calls
<1> QED BY <1>1, CallStep

LEMMA NextDriver == ASSUME DriverInv, [Next]_vars PROVE DriverInv'
<1>1. CASE \E d \in ClockSteps : ClockStep(d)
  BY <1>1, ClockStepInv
<1>2. CASE \E p \in Processes : CancelContext(p)
  BY <1>2, DriverFrame DEF CancelContext
<1>3. CASE \E c \in Clients : Calls(c)
  BY <1>3, CallsStep
<1>4. CASE StartRun \/ Tick \/ ContextDone
  <2>1. PICK x \in {"select", "lock", "exit"} :
          /\ pc[Run] \in {"new", "select"}
          /\ pc' = [pc EXCEPT ![Run] = x]
          /\ UNCHANGED <<engine, now, driver, request, history>>
    BY <1>4 DEF StartRun, Tick, ContextDone
  <2>2. x \in Places \ {"deliver", "act"}
    BY DEF Places
  <2> QED BY <2>1, <2>2, RunMoves
<1>5. CASE Exit
  BY <1>5, ExitStep
<1>6. CASE \E p \in Processes : Enter(p)
  BY <1>6, RejectStep, SettleFailsStep, SettleWithoutDeliveryStep, SettleStartStep DEF Enter
<1>7. CASE \E p \in Processes : Hold(p)
  BY <1>7, DeliverStep, DeliverFailsStep, ActStep, ActEndsStep DEF Hold
<1>8. CASE UNCHANGED vars
  BY <1>8, DriverFrame DEF vars
<1> QED BY <1>1, <1>2, <1>3, <1>4, <1>5, <1>6, <1>7, <1>8 DEF Next

\* What every reachable state of the driver satisfies; the theorems below follow
\* from it.
THEOREM DriverInvariant == Spec => []DriverInv
<1>1. Init => DriverInv
  BY InitDriver
<1>2. DriverInv /\ [Next]_vars => DriverInv'
  BY NextDriver
<1> QED BY <1>1, <1>2, PTL DEF Spec

\* Virtual time is the integral of the speed over the real time that was
\* delivered (settleLocked, SetSpeed).
THEOREM TimeCorrect == Spec => []TimeExact
<1>1. DriverInv => TimeExact
  BY DEF DriverInv
<1> QED BY <1>1, DriverInvariant, PTL

\* What an edit checked before it settled holds when the engine is called
\* (prepareStationEdit).
THEOREM ChecksCorrect == Spec => []ChecksHold
<1>1. DriverInv => ChecksHold
  BY DEF DriverInv
<1> QED BY <1>1, DriverInvariant, PTL

\* A command that has settled is not before its call.
Settles == \A c \in Clients : pc[c] = "act" /\ pc'[c] = "idle" => baseline >= asked[c]

LEMMA SettlesStep == DriverInv => Settles
BY DEF DriverInv, SettledSince, Settles

\* Every command that took the lock and was applied or failed then saw all real
\* time up to its call settled (SetCount, SetSpeed, AddStation).
THEOREM SettledCorrect == Spec => CommandsSettled
<1>1. DriverInv /\ [Next]_vars => [Settles]_vars
  BY SettlesStep
<1>2. Spec => [][Settles]_vars
  BY <1>1, DriverInvariant, PTL DEF Spec
<1> QED BY <1>2 DEF CommandsSettled, Settles

\* Only the holder of the lock changes the engine or the baseline.
Frozen == stopped => UNCHANGED <<engine, baseline>>

LEMMA FrozenStep == ASSUME DriverInv, [Next]_vars PROVE Frozen
<1> SUFFICES ASSUME stopped PROVE UNCHANGED <<engine, baseline>>
  BY DEF Frozen
<1>1. \A p \in Processes : pc[p] \notin {"deliver", "act"}
  BY HolderStep
<1>2. CASE \/ \E d \in ClockSteps : ClockStep(d)
           \/ \E p \in Processes : CancelContext(p)
           \/ StartRun \/ Tick \/ ContextDone \/ Exit
  BY <1>2 DEF ClockStep, CancelContext, StartRun, Tick, ContextDone, Exit, driver
<1>3. CASE \E c \in Clients : Calls(c)
  BY <1>3 DEF Calls, Call, driver
<1>4. CASE \E p \in Processes : Enter(p)
  BY <1>4
  DEF Enter, Reject, SettleFails, SettlementFailed, SettleWithoutDelivery, SettleStart
<1>5. CASE \E p \in Processes : Hold(p)
  BY <1>1, <1>5, Names DEF Hold, Deliver, DeliverFails, Act, ActWithdrawn, ActFails
<1>6. CASE UNCHANGED vars
  BY <1>6 DEF vars, driver
<1> QED BY <1>2, <1>3, <1>4, <1>5, <1>6 DEF Next

\* After Run has stopped nothing changes the engine, because whoever waits for the
\* lock finds out before it settles (Run's deferred function, settleLocked).
THEOREM FrozenCorrect == Spec => StoppedFrozen
<1>1. DriverInv /\ [Next]_vars => [Frozen]_vars
  BY FrozenStep
<1>2. Spec => [][Frozen]_vars
  BY <1>1, DriverInvariant, PTL DEF Spec
<1> QED BY <1>2 DEF StoppedFrozen, Frozen
=============================================================================
