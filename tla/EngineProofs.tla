---------------------------- MODULE EngineProofs ----------------------------
(***************************************************************************)
(* Safety of the engine: type correctness, contiguous report history,      *)
(* exact virtual time, advancing revisions, coherent stations, and a fleet *)
(* that is as the messages show it.                                        *)
(*                                                                         *)
(* TypeOK is not inductive: a step that publishes staged data needs the    *)
(* shape of what was staged, deleting a station needs distinct IDs, and    *)
(* recomputing receivedAt needs finitely many observations.  TypeInv adds  *)
(* these three.                                                            *)
(***************************************************************************)
EXTENDS EngineAtomic, FiniteSetTheorems, SequenceTheorems, TLAPS

-----------------------------------------------------------------------------
(***************************************************************************)
(* What the operators that Engine is built from return                     *)
(***************************************************************************)
\* A nonempty finite set of naturals has a maximum (removeObservations relies on
\* it): a smallest subset without one could lose an element.
LEMMA FiniteMax ==
  ASSUME NEW S \in SUBSET Nat, S # {}, IsFiniteSet(S)
  PROVE  Max(S) \in S /\ \A y \in S : y <= Max(S)
<1> DEFINE HasMax(T) == \E m \in T : \A y \in T : m >= y
           Bad == {T \in SUBSET S : T # {} /\ ~HasMax(T)}
<1>1. Bad = {}
  <2> SUFFICES ASSUME Bad # {} PROVE FALSE
    OBVIOUS
  <2>1. Bad \subseteq FiniteSubsetsOf(S)
    BY FS_FiniteSubsetsOfFinite
  <2> HIDE DEF Bad
  <2>2. PICK T \in Bad : \A U \in Bad : <<U, T>> \notin StrictSubsetOrdering(S)
    BY <2>1, WFMin, FS_StrictSubsetOrderingWellFounded
  <2>3. T \subseteq S /\ T # {} /\ ~HasMax(T)
    BY DEF Bad
  <2>4. PICK x \in T : TRUE
    BY <2>3
  <2>5. T \ {x} \notin Bad
    BY <2>2, <2>3, <2>4 DEF StrictSubsetOrdering
  <2>6. CASE T \ {x} = {}
    BY <2>3, <2>4, <2>6
  <2>7. CASE HasMax(T \ {x})
    <3>1. PICK m \in T \ {x} : \A y \in T \ {x} : m >= y
      BY <2>7
    <3>2. m \in Nat /\ x \in Nat
      BY <2>3, <3>1
    <3>3. CASE m >= x
      BY <2>3, <3>1, <3>3
    <3>4. CASE x >= m
      BY <2>3, <3>1, <3>2, <3>4
    <3> QED BY <3>2, <3>3, <3>4
  <2> QED BY <2>3, <2>5, <2>6, <2>7 DEF Bad
<1>2. HasMax(S)
  BY <1>1
<1> QED BY <1>2 DEF Max

\* slices.Delete of one element, as RemoveStation uses it.
LEMMA RemoveAtProperties ==
  ASSUME NEW S, NEW s \in Seq(S), NEW i \in 1..Len(s)
  PROVE  /\ RemoveAt(s, i) \in Seq(S)
         /\ Len(RemoveAt(s, i)) = Len(s) - 1
         /\ \A k \in 1..(Len(s) - 1) :
              RemoveAt(s, i)[k] = IF k < i THEN s[k] ELSE s[k + 1]
<1> DEFINE a == SubSeq(s, 1, i - 1)
           b == SubSeq(s, i + 1, Len(s))
<1>0. Len(s) \in Nat /\ i \in Nat /\ \A k \in 1..Len(s) : s[k] \in S
  BY ElementOfSeq, LenProperties
<1>1. a \in Seq(S) /\ Len(a) = i - 1 /\ \A k \in 1..(i - 1) : a[k] = s[k]
  <2>1. \A k \in 1..(i - 1) : s[k] \in S
    BY <1>0
  <2> QED BY <1>0, <2>1, SubSeqProperties
<1>2. b \in Seq(S) /\ Len(b) = Len(s) - i /\ \A k \in 1..(Len(s) - i) : b[k] = s[i + k]
  <2>1. \A k \in (i + 1)..Len(s) : s[k] \in S
    BY <1>0
  <2>2. /\ b \in Seq(S)
        /\ Len(b) = IF i + 1 <= Len(s) THEN Len(s) - (i + 1) + 1 ELSE 0
        /\ \A k \in 1..(Len(s) - (i + 1) + 1) : b[k] = s[i + 1 + k - 1]
    BY <1>0, <2>1, SubSeqProperties
  <2> QED BY <1>0, <2>2
<1> HIDE DEF a, b
<1>3. /\ a \o b \in Seq(S)
      /\ Len(a \o b) = Len(a) + Len(b)
      /\ \A k \in 1..(Len(a) + Len(b)) : (a \o b)[k] = IF k <= Len(a) THEN a[k] ELSE b[k - Len(a)]
  BY <1>1, <1>2, ConcatProperties
<1>4. RemoveAt(s, i) = a \o b
  BY DEF RemoveAt, a, b
<1>5. ASSUME NEW k \in 1..(Len(s) - 1)
      PROVE RemoveAt(s, i)[k] = IF k < i THEN s[k] ELSE s[k + 1]
  <2>1. CASE k < i
    BY <1>0, <1>1, <1>2, <1>3, <1>4, <2>1
  <2>2. CASE ~(k < i)
    <3>1. RemoveAt(s, i)[k] = b[k - (i - 1)]
      BY <1>0, <1>1, <1>2, <1>3, <1>4, <2>2
    <3>2. k - (i - 1) \in 1..(Len(s) - i) /\ i + (k - (i - 1)) = k + 1
      BY <1>0, <2>2
    <3> QED BY <1>0, <1>2, <3>1, <3>2, <2>2
  <2> QED BY <2>1, <2>2
<1>6. RemoveAt(s, i) \in Seq(S) /\ Len(RemoveAt(s, i)) = Len(s) - 1
  BY SMTT(30), <1>0, <1>1, <1>2, <1>3, <1>4
<1> QED BY <1>5, <1>6

\* Replacing the last element of a sequence that was just extended.
LEMMA AppendReplace ==
  ASSUME NEW S, NEW s \in Seq(S), NEW v, NEW w
  PROVE  [Append(s, v) EXCEPT ![Len(s) + 1] = w] = Append(s, w)
<1> DEFINE T == S \cup {v, w}
           a == Append(s, v)
           e == [a EXCEPT ![Len(s) + 1] = w]
<1>1. s \in Seq(T) /\ v \in T /\ w \in T /\ Len(s) \in Nat
  BY SeqMonotonic, LenProperties
<1> HIDE DEF T
<1>2. /\ a \in Seq(T) /\ Len(a) = Len(s) + 1
      /\ \A i \in 1..Len(s) : a[i] = s[i]
  BY <1>1, AppendProperties
<1>3. /\ Append(s, w) \in Seq(T) /\ Len(Append(s, w)) = Len(s) + 1
      /\ \A i \in 1..Len(s) : Append(s, w)[i] = s[i]
      /\ Append(s, w)[Len(s) + 1] = w
  BY <1>1, AppendProperties
<1>4. Len(s) + 1 \in 1..Len(a)
  BY <1>1, <1>2
<1> HIDE DEF a
<1>5. /\ e \in Seq(T) /\ Len(e) = Len(a)
      /\ \A j \in 1..Len(a) : e[j] = IF j = Len(s) + 1 THEN w ELSE a[j]
  BY <1>1, <1>2, <1>4, ExceptSeq
<1> HIDE DEF e
<1>6. \A j \in 1..Len(e) : e[j] = Append(s, w)[j]
  BY <1>1, <1>2, <1>3, <1>5
<1> QED BY <1>2, <1>3, <1>5, <1>6, SeqEqual DEF e, a

-----------------------------------------------------------------------------
(***************************************************************************)
(* Observations                                                            *)
(***************************************************************************)
TargetRecord == [observations : SUBSET ReceptionRecord, receivedAt : Nat]

TargetsType(ts) ==
  \A m \in DOMAIN ts :
    m \in Nat /\ ts[m] \in TargetRecord /\ IsFiniteSet(ts[m].observations)

\* The timestamps of finitely many receptions are finitely many naturals.
LEMMA TimestampsFinite ==
  ASSUME NEW obs \in SUBSET ReceptionRecord, IsFiniteSet(obs)
  PROVE  Timestamps(obs) \in SUBSET Nat /\ IsFiniteSet(Timestamps(obs))
<1> DEFINE f == [r \in obs |-> r.timestamp]
<1>1. Timestamps(obs) \in SUBSET Nat
  BY DEF Timestamps, ReceptionRecord
<1>2. f \in Surjection(obs, Timestamps(obs))
  BY DEF Surjection, Timestamps
<1> QED BY <1>1, <1>2, FS_Surjection

\* removeObservations keeps the store well formed: a target that keeps an
\* observation has a newest one.
LEMMA RemoveObservationsType ==
  ASSUME NEW ts, NEW gone, TargetsType(ts)
  PROVE  TargetsType(RemoveObservations(ts, gone))
<1> DEFINE rs == RemoveObservations(ts, gone)
           kept(m) == ts[m].observations \ gone
<1> SUFFICES ASSUME NEW m \in DOMAIN rs
             PROVE  m \in Nat /\ rs[m] \in TargetRecord /\ IsFiniteSet(rs[m].observations)
  BY DEF TargetsType
<1>1. m \in DOMAIN ts /\ kept(m) # {}
  BY DEF RemoveObservations
<1>2. m \in Nat /\ ts[m] \in TargetRecord /\ IsFiniteSet(ts[m].observations)
  BY <1>1 DEF TargetsType
<1>3. /\ kept(m) \in SUBSET ReceptionRecord
      /\ IsFiniteSet(kept(m))
  BY <1>2, FS_Difference DEF TargetRecord
<1>4. CASE kept(m) = ts[m].observations
  <2>1. rs[m] = ts[m]
    BY <1>1, <1>4 DEF RemoveObservations
  <2> QED BY <1>2, <2>1
<1>5. CASE kept(m) # ts[m].observations
  <2>1. rs[m] = [observations |-> kept(m), receivedAt |-> Max(Timestamps(kept(m)))]
    BY <1>1, <1>5 DEF RemoveObservations
  <2>2. Timestamps(kept(m)) # {}
    BY <1>1 DEF Timestamps
  <2>3. Max(Timestamps(kept(m))) \in Nat
    BY <1>3, <2>2, TimestampsFinite, FiniteMax
  <2>4. rs[m] \in TargetRecord /\ rs[m].observations = kept(m)
    BY <1>3, <2>1, <2>3 DEF TargetRecord
  <2> QED BY <1>2, <1>3, <2>4
<1> QED BY <1>4, <1>5

\* expire is a removal of observations.
LEMMA ExpireType ==
  ASSUME NEW ts, NEW at, TargetsType(ts)
  PROVE  TargetsType(Expire(ts, at))
BY RemoveObservationsType DEF Expire

\* record keeps the store well formed.
LEMMA RecordType ==
  ASSUME NEW ts, NEW r \in ReceptionRecord, TargetsType(ts)
  PROVE  TargetsType(Record(ts, r))
<1> DEFINE rs == Record(ts, r)
<1>1. DOMAIN rs \subseteq DOMAIN ts \cup {r.mmsi}
  BY DEF Record
<1>2. r.mmsi \in Nat /\ r.timestamp \in Nat
  BY DEF ReceptionRecord
<1>3. Others(ts, r) \in SUBSET ReceptionRecord /\ IsFiniteSet(Others(ts, r))
  <2>1. CASE r.mmsi \in DOMAIN ts
    <3>1. Others(ts, r) \in SUBSET ts[r.mmsi].observations
      BY <2>1 DEF Others
    <3>2. /\ ts[r.mmsi].observations \in SUBSET ReceptionRecord
          /\ IsFiniteSet(ts[r.mmsi].observations)
      BY <2>1 DEF TargetsType, TargetRecord
    <3> QED BY <3>1, <3>2, FS_Subset
  <2>2. CASE r.mmsi \notin DOMAIN ts
    BY <2>2, FS_EmptySet DEF Others
  <2> QED BY <2>1, <2>2
<1>4. IsFiniteSet(Others(ts, r) \cup {r})
  BY <1>3, FS_AddElement
<1>5. rs[r.mmsi] = [observations |-> Others(ts, r) \cup {r}, receivedAt |-> r.timestamp]
  BY DEF Record
<1>6. \A m \in DOMAIN rs \ {r.mmsi} : rs[m] = ts[m]
  BY DEF Record
<1>7. rs[r.mmsi] \in TargetRecord /\ IsFiniteSet(rs[r.mmsi].observations)
  BY <1>2, <1>3, <1>4, <1>5 DEF TargetRecord
<1> QED BY <1>1, <1>2, <1>6, <1>7 DEF TargetsType

-----------------------------------------------------------------------------
(***************************************************************************)
(* Counters and bounded histories                                          *)
(***************************************************************************)
LEMMA CountType ==
  ASSUME NEW st \in Stats, NEW outcome \in Outcomes, NEW channel \in Channels,
         NEW second \in Nat
  PROVE  /\ Count(st, outcome, channel, second) \in Stats
         /\ Count(st, outcome, channel, second).lastReception \in Nat
<1> DEFINE got == outcome = "received"
           slot == second % RateBuckets
           Bucket == [second : Nat, opportunities : Nat, received : Nat]
           PerChannel == [opportunities : Nat, received : Nat]
           bs == [st.buckets EXCEPT ![slot] = CountBucket(@, second, got)]
           os == [st.outcome EXCEPT ![outcome] = @ + 1]
           cs == [st.channel EXCEPT ![channel] = [opportunities |-> @.opportunities + 1,
                                                  received |-> @.received + Bump(got)]]
<1>1. /\ st.lastReception \in Nat /\ st.opportunities \in Nat
      /\ st.outcome \in [Outcomes -> Nat]
      /\ st.channel \in [Channels -> PerChannel]
      /\ st.buckets \in [0..(RateBuckets - 1) -> Bucket]
  BY DEF Stats
<1>2. Bump(got) \in Nat
  BY DEF Bump
<1>3. ASSUME NEW b \in Bucket PROVE CountBucket(b, second, got) \in Bucket
  <2>1. b.opportunities + 1 \in Nat /\ b.received + Bump(got) \in Nat
    BY <1>2
  <2>2. CASE b.second = second
    <3>1. CountBucket(b, second, got) =
            [b EXCEPT !.opportunities = @ + 1, !.received = @ + Bump(got)]
      BY <2>2 DEF CountBucket
    <3> QED BY <2>1, <3>1
  <2>3. CASE b.second # second
    <3>1. CountBucket(b, second, got) =
            [second |-> second, opportunities |-> 1, received |-> Bump(got)]
      BY <2>3 DEF CountBucket
    <3> QED BY <1>2, <3>1
  <2> QED BY <2>2, <2>3
<1>4. bs \in [0..(RateBuckets - 1) -> Bucket]
  BY <1>1, <1>3
<1>5. os \in [Outcomes -> Nat]
  BY <1>1
<1>6. cs \in [Channels -> PerChannel]
  BY <1>1, <1>2
<1>7. Count(st, outcome, channel, second) =
        [st EXCEPT !.opportunities = @ + 1, !.outcome = os, !.channel = cs,
                   !.buckets = bs, !.lastReception = @ + Bump(got)]
  BY DEF Count, Stats
<1> HIDE DEF bs, os, cs, got
<1>8. /\ st.opportunities + 1 \in Nat
      /\ st.lastReception + Bump(got) \in Nat
  BY <1>1, <1>2
<1> QED BY <1>1, <1>4, <1>5, <1>6, <1>7, <1>8 DEF Stats

\* push keeps a sequence of receptions.
LEMMA PushType ==
  ASSUME NEW S, NEW h \in Seq(S), NEW r \in S
  PROVE  Push(h, r) \in Seq(S)
<1>1. CASE Len(h) < ReceptionHistoryLimit
  BY <1>1, AppendProperties DEF Push
<1>2. CASE ~(Len(h) < ReceptionHistoryLimit)
  <2>1. h # <<>>
    BY <1>2, LimitsAssumption
  <2>2. Tail(h) \in Seq(S)
    BY <2>1, HeadTailProperties
  <2> QED BY <1>2, <2>2, AppendProperties DEF Push
<1> QED BY <1>1, <1>2

\* commit keeps the newest MessageLimit reports.
LEMMA RetainProperties ==
  ASSUME NEW S, NEW s \in Seq(S)
  PROVE  /\ Retain(s) \in Seq(S)
         /\ Len(Retain(s)) = Minimum(Len(s), MessageLimit)
         /\ \A i \in 1..Len(Retain(s)) : Retain(s)[i] = s[Len(s) - Len(Retain(s)) + i]
<1>0. Len(s) \in Nat /\ MessageLimit \in Nat /\ \A k \in 1..Len(s) : s[k] \in S
  BY ElementOfSeq, LenProperties, LimitsAssumption
<1>1. CASE Len(s) > MessageLimit
  <2> DEFINE m == Len(s) - MessageLimit + 1
  <2>1. Retain(s) = SubSeq(s, m, Len(s))
    BY <1>1 DEF Retain
  <2>2. m \in Int /\ \A k \in m..Len(s) : s[k] \in S
    BY <1>0, <1>1
  <2> HIDE DEF m
  <2>3. /\ SubSeq(s, m, Len(s)) \in Seq(S)
        /\ Len(SubSeq(s, m, Len(s))) = IF m <= Len(s) THEN Len(s) - m + 1 ELSE 0
        /\ \A i \in 1..(Len(s) - m + 1) : SubSeq(s, m, Len(s))[i] = s[m + i - 1]
    BY <1>0, <2>2, SubSeqProperties
  <2>4. Len(Retain(s)) = MessageLimit
    BY <1>0, <1>1, <2>1, <2>3 DEF m
  <2>5. ASSUME NEW i \in 1..MessageLimit
        PROVE  Retain(s)[i] = s[Len(s) - MessageLimit + i]
    <3>1. i \in 1..(Len(s) - m + 1) /\ m + i - 1 = Len(s) - MessageLimit + i
      BY <1>0 DEF m
    <3> QED BY <2>1, <2>3, <3>1
  <2>6. Retain(s) \in Seq(S)
    BY <2>1, <2>3
  <2>7. MessageLimit = Minimum(Len(s), MessageLimit)
    BY <1>0, <1>1 DEF Minimum
  <2>8. \A i \in 1..MessageLimit : Retain(s)[i] = s[Len(s) - MessageLimit + i]
    BY <2>5, Zenon
  <2> QED BY <2>4, <2>6, <2>7, <2>8, Zenon
<1>2. CASE ~(Len(s) > MessageLimit)
  BY <1>0, <1>2 DEF Retain, Minimum
<1> QED BY <1>1, <1>2

-----------------------------------------------------------------------------
(***************************************************************************)
(* The inductive invariant                                                 *)
(***************************************************************************)
Working == pc \in {"spawn", "tick", "receive"}

\* Station edits cannot happen while a call holds the lock.
SameStations(n) ==
  /\ n.stations = state.stations
  /\ n.lastStationID = state.lastStationID
  /\ n.stationRevision = state.stationRevision

\* What SetCount and advance have staged fits the committed stations.
StagedShape ==
  /\ Working => /\ SameStations(next)
                /\ Len(batch.stats) = Len(state.stations)
  /\ pc = "receive" => reports # <<>> /\ loop.station >= 1
  /\ pc = "tick" => loop.vessel >= 1

ObservationsFinite == \A m \in DOMAIN targets : IsFiniteSet(targets[m].observations)

\* IDs come from one allocator and keep their order.
StationIDsOrdered ==
  /\ \A i \in DOMAIN state.stations : state.stations[i].id <= state.lastStationID
  /\ \A i, j \in DOMAIN state.stations : i < j => state.stations[i].id < state.stations[j].id

TypeInv == TypeOK /\ StagedShape /\ ObservationsFinite /\ StationIDsOrdered

USE DEF store, committed, staged

\* The two forms of the type of the observation store.
LEMMA TargetsTypeEquiv == TargetsTypeOK /\ ObservationsFinite <=> TargetsType(targets)
BY DEF TargetsTypeOK, ObservationsFinite, TargetsType, TargetRecord

\* The counters of a new station are well typed.
LEMMA NewStatsType == NewStats \in Stats
BY DEF NewStats, Stats, Outcomes, Channels

\* So are the locals of no call.
LEMMA NoLoopType == NoLoop \in LoopRecord
BY DEF NoLoop, LoopRecord

\* RF needs no more of a definition than that it has the three fields.
LEMMA NewStationType ==
  ASSUME NEW id \in Nat, NEW d \in Definitions, NEW now \in Nat
  PROVE  NewStation(id, d, now) \in Station
BY DEF NewStation, Station, FirstRevision

\* A new run is well typed.
LEMMA TypeInit == Init => TypeInv
<1> SUFFICES ASSUME Init PROVE TypeInv
  OBVIOUS
<1>0. /\ InitialStations \in Seq(Definitions)
      /\ Len(InitialStations) \in Nat
      /\ DOMAIN InitialStations = 1..Len(InitialStations)
      /\ \A i \in 1..Len(InitialStations) : InitialStations[i] \in Definitions
  BY ConfigAssumption, LenProperties, ElementOfSeq
<1> DEFINE ss == [i \in DOMAIN InitialStations |-> NewStation(i, InitialStations[i], 0)]
<1>1. ss \in Seq(Station) /\ DOMAIN ss = 1..Len(InitialStations) /\ Len(ss) = Len(InitialStations)
  BY <1>0, NewStationType
<1>2. \A i \in DOMAIN ss : ss[i].id = i
  BY DEF NewStation
<1>3. /\ state \in StateRecord
      /\ state.stations = ss
      /\ state.lastStationID = Len(InitialStations)
  <2>1. InitialSpeed \in Nat
    BY ConfigAssumption, InputsAssumption
  <2> HIDE DEF ss
  <2> QED BY <1>0, <1>1, <2>1 DEF Init, StateRecord, FirstRevision, ss
<1>4. StationIDs = 1..Len(InitialStations)
  BY <1>1, <1>2, <1>3 DEF StationIDs
<1>5. StateTypeOK
  BY <1>3 DEF Init, StateTypeOK
<1>6. StatsTypeOK
  BY <1>0, <1>4, NewStatsType DEF Init, StatsTypeOK
<1>7. TargetsTypeOK /\ ObservationsFinite
  BY DEF Init, TargetsTypeOK, ObservationsFinite
<1>8. batch.stats = [i \in 1..Len(InitialStations) |-> NewStats]
  BY <1>0, <1>1, <1>2, <1>3 DEF Init, StageReceptions
<1>9. BatchTypeOK /\ Len(batch.stats) = Len(InitialStations)
  <2>1. batch.stats \in Seq(Stats) /\ Len(batch.stats) = Len(InitialStations)
    BY <1>0, <1>8, NewStatsType
  <2> QED BY <2>1 DEF Init, StageReceptions, BatchTypeOK
<1>10. ControlTypeOK
  <2>1. InitialVesselCount \in Nat
    BY ConfigAssumption, LimitsAssumption
  <2>2. loop \in LoopRecord
    BY <2>1, NoLoopType DEF Init, LoopRecord
  <2> QED BY <2>2 DEF Init, ControlTypeOK
<1>11. StagedShape
  BY <1>1, <1>3, <1>9 DEF Init, StagedShape, Working, SameStations
<1>12. StationIDsOrdered
  BY <1>0, <1>1, <1>2, <1>3 DEF StationIDsOrdered
<1> QED BY <1>5, <1>6, <1>7, <1>9, <1>10, <1>11, <1>12 DEF TypeInv, TypeOK

-----------------------------------------------------------------------------
(***************************************************************************)
(* Facts that several actions share                                        *)
(***************************************************************************)
BatchRecord ==
  [stats : Seq(Stats), records : Seq(ReceptionRecord), receptions : Nat,
   receivedTransmissions : Nat]

\* The fields of the committed state.
LEMMA StateFields ==
  ASSUME TypeInv
  PROVE  /\ state \in StateRecord
         /\ state.revision \in Nat /\ state.sequence \in Nat /\ state.nextMMSI \in Nat
         /\ state.elapsed \in Nat /\ state.remainder \in Nat /\ state.speed \in Nat
         /\ state.stations \in Seq(Station) /\ state.vessels \in Seq(Vessel)
         /\ state.lastStationID \in Nat /\ state.stationRevision \in Nat
BY DEF TypeInv, TypeOK, StateTypeOK, StateRecord

\* A step that leaves the committed state and store alone keeps their types.
LEMMA CommittedSame ==
  ASSUME TypeInv, UNCHANGED <<state, stats, history, targets>>
  PROVE  StatsTypeOK' /\ TargetsTypeOK' /\ ObservationsFinite' /\ StationIDsOrdered'
BY DEF TypeInv, TypeOK, StatsTypeOK, TargetsTypeOK, ObservationsFinite,
       StationIDsOrdered, StationIDs

\* stageReceptions gives one stationStats per configured station.
LEMMA StageType ==
  ASSUME TypeInv
  PROVE  /\ StageReceptions(state.stations) \in BatchRecord
         /\ Len(StageReceptions(state.stations).stats) = Len(state.stations)
<1> DEFINE ss == state.stations
           st == [i \in DOMAIN ss |-> stats[ss[i].id]]
<1>1. Len(ss) \in Nat /\ DOMAIN ss = 1..Len(ss)
  BY DEF TypeInv, TypeOK, StateTypeOK, StateRecord
<1>2. \A i \in 1..Len(ss) : stats[ss[i].id] \in Stats
  BY <1>1 DEF TypeInv, TypeOK, StatsTypeOK, StationIDs
<1>3. st \in Seq(Stats) /\ Len(st) = Len(ss)
  BY <1>1, <1>2
<1>4. totals.receptions \in Nat /\ totals.receivedTransmissions \in Nat
  BY DEF TypeInv, TypeOK, ControlTypeOK
<1> QED BY <1>3, <1>4 DEF StageReceptions, BatchRecord

\* A dropped call leaves nothing staged.
LEMMA DropType ==
  ASSUME TypeInv, Drop
  PROVE  /\ next' \in StateRecord /\ reports' \in Seq(Message)
         /\ BatchTypeOK' /\ loop' \in LoopRecord /\ pc' = "idle" /\ StagedShape'
<1>1. BatchTypeOK'
  BY DEF Drop, NoBatch, BatchTypeOK
<1>2. next' \in StateRecord /\ reports' \in Seq(Message)
  BY DEF Drop, TypeInv, TypeOK, StateTypeOK
<1>3. loop' \in LoopRecord
  BY NoLoopType DEF Drop
<1> QED BY <1>1, <1>2, <1>3 DEF Drop, StagedShape, Working

\* A call that fails keeps the invariant.
LEMMA FailType ==
  ASSUME TypeInv, Drop, UNCHANGED <<committed, credited>>
  PROVE  TypeInv'
<1>1. StatsTypeOK' /\ TargetsTypeOK' /\ ObservationsFinite' /\ StationIDsOrdered'
  BY CommittedSame
<1>2. StateTypeOK'
  BY DropType DEF TypeInv, TypeOK, StateTypeOK
<1>3. ControlTypeOK'
  BY DropType DEF TypeInv, TypeOK, ControlTypeOK
<1> QED BY <1>1, <1>2, <1>3, DropType DEF TypeInv, TypeOK

\* An edit outside a call: nothing is staged before or after it.
LEMMA IdleEdit ==
  ASSUME TypeInv, Idle, state' \in StateRecord, next' = state',
         UNCHANGED <<messages, totals, pc, reports, batch, loop, credited>>
  PROVE  StateTypeOK' /\ BatchTypeOK' /\ ControlTypeOK' /\ StagedShape'
BY DEF TypeInv, TypeOK, StateTypeOK, BatchTypeOK, ControlTypeOK, StagedShape, Working, Idle

-----------------------------------------------------------------------------
(***************************************************************************)
(* One lemma per action                                                    *)
(***************************************************************************)
LEMMA TypeBeginSetCount ==
  ASSUME TypeInv, NEW count \in 0..MaxVessels, BeginSetCount(count)
  PROVE  TypeInv'
<1> DEFINE added == count - Len(state.vessels)
<1>1. StatsTypeOK' /\ TargetsTypeOK' /\ ObservationsFinite' /\ StationIDsOrdered'
  BY CommittedSame DEF BeginSetCount
<1>2. state \in StateRecord /\ count \in Nat /\ Len(state.vessels) \in Nat
  BY LimitsAssumption DEF TypeInv, TypeOK, StateTypeOK, StateRecord
<1>3. added < 0 => SubSeq(state.vessels, 1, count) \in Seq(Vessel)
  BY <1>2 DEF StateRecord
<1>4. next' \in StateRecord /\ SameStations(next')
  <2> DEFINE vs == IF added < 0 THEN SubSeq(state.vessels, 1, count) ELSE state.vessels
  <2>1. vs \in Seq(Vessel)
    BY <1>2, <1>3 DEF StateRecord
  <2>2. next' = [state EXCEPT !.revision = @ + 1, !.updatedAt = state.elapsed, !.vessels = vs]
    BY DEF BeginSetCount
  <2>3. state.revision + 1 \in Nat /\ state.elapsed \in Nat
    BY <1>2 DEF StateRecord
  <2> HIDE DEF vs
  <2> QED BY <1>2, <2>1, <2>2, <2>3 DEF StateRecord, SameStations
<1>5. StateTypeOK'
  BY <1>4 DEF BeginSetCount, TypeInv, TypeOK, StateTypeOK
<1>6. BatchTypeOK' /\ Len(batch'.stats) = Len(state.stations)
  BY StageType DEF BeginSetCount, BatchTypeOK, BatchRecord
<1>7. loop' \in LoopRecord
  <2>1. (IF added > 0 THEN added ELSE 0) \in Nat /\ state.elapsed \in Nat
    BY <1>2 DEF StateRecord
  <2> QED BY <2>1, NoLoopType DEF BeginSetCount, LoopRecord
<1>8. ControlTypeOK'
  BY <1>7 DEF BeginSetCount, TypeInv, TypeOK, ControlTypeOK
<1>9. StagedShape'
  BY <1>4, <1>6 DEF BeginSetCount, StagedShape, Working, SameStations
<1> QED BY <1>1, <1>5, <1>6, <1>8, <1>9 DEF TypeInv, TypeOK

\* The common part of Advance and Elapse, from any staged state of the committed stations.
LEMMA TypeStartAdvance ==
  ASSUME TypeInv, NEW n \in StateRecord, NEW delta \in Nat, NEW credit \in Nat,
         SameStations(n), StartAdvance(n, delta, credit)
  PROVE  TypeInv'
<1> DEFINE first == n.elapsed \div TickInterval + 1
           last == (n.elapsed + delta) \div TickInterval
<1>1. StatsTypeOK' /\ TargetsTypeOK' /\ ObservationsFinite' /\ StationIDsOrdered'
  BY CommittedSame DEF StartAdvance
<1>2. n.elapsed \in Nat /\ TickInterval \in Nat \ {0}
  BY LimitsAssumption DEF StateRecord
<1>3. first \in Nat /\ last \in Nat /\ n.elapsed + delta \in Nat
  BY <1>2
<1>4. next' \in StateRecord /\ SameStations(next')
  <2> DEFINE revision == IF delta > 0 THEN n.revision + 1 ELSE n.revision
  <2>1. revision \in Nat
    BY DEF StateRecord
  <2>2. next' = [n EXCEPT !.revision = revision]
    BY DEF StartAdvance
  <2> HIDE DEF revision
  <2> QED BY <2>1, <2>2 DEF StateRecord, SameStations
<1>5. StateTypeOK'
  BY <1>4 DEF StartAdvance, TypeInv, TypeOK, StateTypeOK
<1>6. BatchTypeOK' /\ Len(batch'.stats) = Len(state.stations)
  BY StageType DEF StartAdvance, BatchTypeOK, BatchRecord, SameStations
<1>7. loop' = [NoLoop EXCEPT !.kind = "advance", !.first = first, !.tick = first,
                             !.last = last, !.target = n.elapsed + delta,
                             !.vessel = 1, !.credit = credit]
  BY DEF StartAdvance
<1> HIDE DEF first, last
<1>8. loop' \in LoopRecord /\ loop'.vessel = 1
  BY <1>3, <1>7, NoLoopType DEF LoopRecord
<1>9. ControlTypeOK'
  BY <1>8 DEF StartAdvance, TypeInv, TypeOK, ControlTypeOK
<1>10. StagedShape'
  BY <1>4, <1>6, <1>8 DEF StartAdvance, StagedShape, Working, SameStations
<1> QED BY <1>1, <1>5, <1>6, <1>9, <1>10 DEF TypeInv, TypeOK

\* Advance stages the committed state.
LEMMA TypeBeginAdvance ==
  ASSUME TypeInv, NEW delta \in VirtualDeltas, BeginAdvance(delta)
  PROVE  TypeInv'
<1>1. delta \in Nat /\ delta * SpeedScale \in Nat
  BY InputsAssumption, LimitsAssumption
<1>2. state \in StateRecord
  BY DEF TypeInv, TypeOK, StateTypeOK
<1> QED BY <1>1, <1>2, TypeStartAdvance DEF BeginAdvance, SameStations

\* Elapse stages the committed state with the new remainder.
LEMMA TypeBeginElapse ==
  ASSUME TypeInv, NEW delta \in RealDeltas, BeginElapse(delta)
  PROVE  TypeInv'
<1> DEFINE scaled == delta * state.speed + state.remainder
           n == [state EXCEPT !.remainder = scaled % SpeedScale]
<1>1. state \in StateRecord /\ delta \in Nat /\ SpeedScale \in Nat \ {0}
  BY InputsAssumption, LimitsAssumption DEF TypeInv, TypeOK, StateTypeOK
<1>2. delta * state.speed \in Nat /\ scaled \in Nat
  <2>1. state.speed \in Nat /\ state.remainder \in Nat
    BY <1>1 DEF StateRecord
  <2> QED BY <1>1, <2>1
<1>3. scaled % SpeedScale \in Nat /\ scaled \div SpeedScale \in Nat
  BY <1>1, <1>2
<1>4. n \in StateRecord /\ SameStations(n)
  BY <1>1, <1>3 DEF StateRecord, SameStations
<1>5. StartAdvance(n, scaled \div SpeedScale, delta * state.speed)
  BY DEF BeginElapse
<1> HIDE DEF n, scaled
<1> QED BY <1>2, <1>3, <1>4, <1>5, TypeStartAdvance

\* emit builds a vessel with its latest report.
LEMMA EmittedType ==
  ASSUME NEW v, v.mmsi \in Nat, v.updatedAt \in Nat, v.reports \in Nat, NEW q \in Nat
  PROVE  /\ Emitted(v, q) \in Vessel
         /\ Emitted(v, q).report \in Message
         /\ Emitted(v, q).report.sequence = q
<1>1. Channel(v) \in Channels
  BY DEF Channel, Channels
<1>2. Report(v, q) \in Message /\ Report(v, q).sequence = q
  BY <1>1 DEF Report, Message
<1> QED BY <1>2 DEF Emitted, Vessel

\* Send: vs is the staged fleet in which the i-th vessel is replaced.
LEMMA SendType ==
  ASSUME TypeInv, Working, NEW n, NEW v, NEW i, NEW vs \in Seq(Vessel),
         [n EXCEPT !.sequence = n.sequence + 1,
                   !.vessels[i] = Emitted(v, n.sequence + 1)] =
           [next EXCEPT !.sequence = next.sequence + 1, !.vessels = vs,
                        !.nextMMSI = n.nextMMSI],
         n.nextMMSI \in Nat, n.sequence = next.sequence,
         v.mmsi \in Nat, v.updatedAt \in Nat, v.reports \in Nat,
         Send(n, v, i), loop' \in LoopRecord, loop'.station = 1
  PROVE  TypeInv'
<1>0. next \in StateRecord /\ SameStations(next) /\ reports \in Seq(Message)
  BY DEF TypeInv, TypeOK, StateTypeOK, StagedShape
<1>1. StatsTypeOK' /\ TargetsTypeOK' /\ ObservationsFinite' /\ StationIDsOrdered'
  BY CommittedSame DEF Send
<1>2. next' = [next EXCEPT !.sequence = next.sequence + 1, !.vessels = vs, !.nextMMSI = n.nextMMSI]
  BY DEF Send
<1>3. next.sequence + 1 \in Nat
  BY SMTT(30), <1>0 DEF StateRecord
<1>4. next' \in StateRecord /\ SameStations(next')
  BY <1>0, <1>2, <1>3 DEF StateRecord, SameStations
<1>5. reports' \in Seq(Message) /\ reports' # <<>>
  <2>1. Emitted(v, n.sequence + 1).report \in Message
    BY <1>3, EmittedType
  <2>2. reports' = Append(reports, Emitted(v, n.sequence + 1).report)
    BY DEF Send
  <2> QED BY <1>0, <2>1, <2>2, AppendProperties
<1>6. StateTypeOK' /\ BatchTypeOK' /\ ControlTypeOK'
  BY <1>4, <1>5 DEF Send, TypeInv, TypeOK, StateTypeOK, BatchTypeOK, ControlTypeOK
<1>7. StagedShape'
  BY <1>4, <1>5 DEF Send, TypeInv, StagedShape, Working, SameStations
<1> QED BY <1>1, <1>6, <1>7 DEF TypeInv, TypeOK

\* A created vessel and its report are well typed.
LEMMA TypeSpawn ==
  ASSUME TypeInv, Spawn
  PROVE  TypeInv'
<1> DEFINE v == [mmsi |-> next.nextMMSI, updatedAt |-> next.elapsed, reports |-> 0]
           n == [next EXCEPT !.vessels = Append(next.vessels, v), !.nextMMSI = next.nextMMSI + 1]
           i == Len(next.vessels) + 1
           w == Emitted(v, next.sequence + 1)
<1>1. next \in StateRecord /\ Working
  BY DEF TypeInv, TypeOK, StateTypeOK, Spawn, Working
<1>2. /\ next.vessels \in Seq(Vessel) /\ next.nextMMSI \in Nat /\ next.elapsed \in Nat
      /\ next.sequence \in Nat
  BY <1>1 DEF StateRecord
<1>3. w \in Vessel
  BY <1>2, EmittedType
<1>4. Append(next.vessels, w) \in Seq(Vessel)
  BY <1>2, <1>3
<1>5. [Append(next.vessels, v) EXCEPT ![i] = w] = Append(next.vessels, w)
  BY <1>2, AppendReplace
<1>6. n.sequence = next.sequence /\ n.nextMMSI = next.nextMMSI + 1
      /\ n.vessels = Append(next.vessels, v)
  BY <1>1 DEF StateRecord
<1>7. [n EXCEPT !.sequence = n.sequence + 1, !.vessels[i] = Emitted(v, n.sequence + 1)] =
        [next EXCEPT !.sequence = next.sequence + 1, !.vessels = Append(next.vessels, w),
                     !.nextMMSI = n.nextMMSI]
  <2> HIDE DEF w, v, i
  <2>1. Emitted(v, n.sequence + 1) = w
    BY <1>6 DEF w
  <2>2. n.vessels = Append(next.vessels, v)
    BY <1>6
  <2> QED BY <1>1, <1>5, <1>6, <2>1 DEF StateRecord
<1>8. v.mmsi \in Nat /\ v.updatedAt \in Nat /\ v.reports \in Nat
  BY <1>2
<1>9. Send(n, v, i)
  BY DEF Spawn
<1>10. loop' \in LoopRecord /\ loop'.station = 1
  <2>1. loop \in LoopRecord /\ loop.spawn > 0
    BY DEF Spawn, TypeInv, TypeOK, ControlTypeOK
  <2>2. loop.spawn - 1 \in Nat
    BY <2>1 DEF LoopRecord
  <2>3. loop' = [loop EXCEPT !.spawn = loop.spawn - 1, !.station = 1, !.heard = FALSE]
    BY DEF Spawn
  <2> QED BY <2>1, <2>2, <2>3 DEF LoopRecord
<1> HIDE DEF n, v, i, w
<1>11. n.nextMMSI \in Nat
  BY <1>2, <1>6
<1> QED BY <1>1, <1>4, <1>6, <1>7, <1>8, <1>9, <1>10, <1>11, SendType

\* So are a moved vessel and its report.
LEMMA TypeTickVessel ==
  ASSUME TypeInv, TickVessel
  PROVE  TypeInv'
<1> DEFINE i == loop.vessel
           v == [next.vessels[i] EXCEPT !.updatedAt = loop.tick * TickInterval]
           w == Emitted(v, next.sequence + 1)
           vs == [next.vessels EXCEPT ![i] = w]
<1>1. next \in StateRecord /\ Working /\ loop \in LoopRecord /\ i >= 1 /\ i <= Len(next.vessels)
  BY DEF TypeInv, TypeOK, StateTypeOK, ControlTypeOK, StagedShape, TickVessel, Working
<1>2. /\ next.vessels \in Seq(Vessel) /\ next.nextMMSI \in Nat /\ next.sequence \in Nat
      /\ loop.tick \in Nat /\ i \in 1..Len(next.vessels) /\ TickInterval \in Nat
  BY <1>1, LimitsAssumption DEF StateRecord, LoopRecord
<1>3. loop.tick * TickInterval \in Nat
  BY <1>2
<1>4. next.vessels[i] \in Vessel
  BY <1>2, ElementOfSeq
<1>5. v.mmsi \in Nat /\ v.updatedAt \in Nat /\ v.reports \in Nat
  <2> HIDE DEF i
  <2> QED BY <1>3, <1>4 DEF Vessel
<1>6. w \in Vessel
  <2> HIDE DEF v
  <2> QED BY <1>2, <1>5, EmittedType
<1>7. vs \in Seq(Vessel)
  <2> HIDE DEF i, w
  <2> QED BY <1>2, <1>6, ExceptSeq
<1>8. [next EXCEPT !.sequence = next.sequence + 1, !.vessels[i] = Emitted(v, next.sequence + 1)] =
        [next EXCEPT !.sequence = next.sequence + 1, !.vessels = vs, !.nextMMSI = next.nextMMSI]
  <2> HIDE DEF v, i
  <2> QED BY <1>1 DEF StateRecord
<1>9. Send(next, v, i)
  BY DEF TickVessel
<1>10. loop' \in LoopRecord /\ loop'.station = 1
  BY <1>1 DEF TickVessel, LoopRecord
<1> HIDE DEF v, i, w, vs
<1> QED BY <1>1, <1>2, <1>5, <1>7, <1>8, <1>9, <1>10, SendType

\* The end of a tick stages an instant.
LEMMA TypeTickEnd ==
  ASSUME TypeInv, TickEnd
  PROVE  TypeInv'
<1>1. StatsTypeOK' /\ TargetsTypeOK' /\ ObservationsFinite' /\ StationIDsOrdered'
  BY CommittedSame DEF TickEnd
<1>2. next \in StateRecord /\ loop \in LoopRecord /\ loop.tick \in Nat /\ TickInterval \in Nat
  BY LimitsAssumption DEF TypeInv, TypeOK, StateTypeOK, ControlTypeOK, LoopRecord
<1>3. loop.tick * TickInterval \in Nat
  BY <1>2
<1>4. /\ next' \in StateRecord /\ next'.stations = next.stations
      /\ next'.lastStationID = next.lastStationID
      /\ next'.stationRevision = next.stationRevision
  BY <1>2, <1>3 DEF TickEnd, StateRecord
<1>5. loop' \in LoopRecord /\ loop'.vessel = 1
  <2>1. loop.tick + 1 \in Nat
    BY <1>2
  <2>2. loop' = [loop EXCEPT !.tick = loop.tick + 1, !.vessel = 1]
    BY DEF TickEnd
  <2> QED BY <1>2, <2>1, <2>2 DEF LoopRecord
<1>6. StateTypeOK' /\ BatchTypeOK' /\ ControlTypeOK'
  BY <1>4, <1>5 DEF TickEnd, TypeInv, TypeOK, StateTypeOK, BatchTypeOK, ControlTypeOK
<1>7. StagedShape'
  BY <1>4, <1>5 DEF TickEnd, TypeInv, StagedShape, Working, SameStations
<1> QED BY <1>1, <1>6, <1>7 DEF TypeInv, TypeOK

\* decide only gives outcomes of the catalog.
LEMMA DecideOutcomes ==
  ASSUME NEW d, NEW c PROVE Decide(d, c) \subseteq Outcomes
BY InputsAssumption DEF Decide, Outcomes

\* Counting an opportunity and staging a reception keep their types.
LEMMA TypeReceive ==
  ASSUME TypeInv, NEW outcome \in Outcomes, Receive(outcome)
  PROVE  TypeInv'
<1> DEFINE i == loop.station
           station == next.stations[i]
           t == Last(reports)
           counted == Count(batch.stats[i], outcome, t.channel, t.timestamp \div TickInterval)
           got == outcome = "received"
           rs == IF got THEN Append(batch.records, Reception(station, counted.lastReception, t))
                        ELSE batch.records
<1>1. StatsTypeOK' /\ TargetsTypeOK' /\ ObservationsFinite' /\ StationIDsOrdered'
  BY CommittedSame DEF Receive
<1>2. /\ next \in StateRecord /\ next.stations = state.stations
      /\ loop \in LoopRecord /\ i >= 1 /\ i <= Len(next.stations)
      /\ batch \in BatchRecord /\ Len(batch.stats) = Len(next.stations)
      /\ reports \in Seq(Message) /\ reports # <<>>
  BY DEF TypeInv, TypeOK, StateTypeOK, BatchTypeOK, ControlTypeOK, StagedShape, Receive,
         Working, BatchRecord, SameStations
<1>3. /\ next.stations \in Seq(Station) /\ batch.stats \in Seq(Stats)
      /\ batch.records \in Seq(ReceptionRecord) /\ batch.receptions \in Nat
      /\ i \in 1..Len(next.stations) /\ i \in 1..Len(batch.stats)
  <2>1. next.stations \in Seq(Station) /\ loop.station \in Nat
    BY <1>2 DEF StateRecord, LoopRecord
  <2>2. /\ batch.stats \in Seq(Stats) /\ batch.records \in Seq(ReceptionRecord)
        /\ batch.receptions \in Nat
    BY <1>2 DEF BatchRecord
  <2> QED BY <1>2, <2>1, <2>2
<1>4. t \in Message
  BY <1>2 DEF Last
<1>5. station \in Station /\ batch.stats[i] \in Stats
  BY <1>3, ElementOfSeq
<1>6. t.timestamp \div TickInterval \in Nat /\ t.channel \in Channels
  BY <1>4, LimitsAssumption DEF Message
<1>7. counted \in Stats /\ counted.lastReception \in Nat
  <2> HIDE DEF t, i
  <2> QED BY <1>5, <1>6, CountType
<1>8. Reception(station, counted.lastReception, t) \in ReceptionRecord
  <2> HIDE DEF t, counted, station
  <2>1. /\ station.definition \in Definitions /\ station.id \in Nat
        /\ station.configRevision \in Nat /\ station.rfRevision \in Nat
    BY <1>5 DEF Station
  <2>2. /\ t.sequence \in Nat /\ t.mmsi \in Nat /\ t.timestamp \in Nat
        /\ t.channel \in Channels
    BY <1>4 DEF Message
  <2> DEFINE x == Receiver(station.definition, t.channel)
  <2>3. x \in {Receiver(d, c) : d \in Definitions, c \in Channels}
    BY <2>1, <2>2
  <2> HIDE DEF x
  <2>4. Reception(station, counted.lastReception, t) =
          [station |-> station.id, sequence |-> counted.lastReception,
           transmission |-> t.sequence, mmsi |-> t.mmsi, timestamp |-> t.timestamp,
           channel |-> t.channel, configRevision |-> station.configRevision,
           rfRevision |-> station.rfRevision, receiver |-> x]
    BY DEF Reception, x
  <2> QED BY <1>7, <2>1, <2>2, <2>3, <2>4 DEF ReceptionRecord
<1>9. rs \in Seq(ReceptionRecord)
  <2> HIDE DEF t, counted, station
  <2> QED BY <1>3, <1>8, AppendProperties
<1>10. /\ [batch.stats EXCEPT ![i] = counted] \in Seq(Stats)
       /\ Len([batch.stats EXCEPT ![i] = counted]) = Len(batch.stats)
  <2> HIDE DEF counted, i
  <2> QED BY <1>3, <1>7, ExceptSeq
<1>11. batch' = [batch EXCEPT !.stats[i] = counted, !.receptions = batch.receptions + Bump(got),
                              !.records = rs]
  BY DEF Receive
<1>12. batch.receptions + Bump(got) \in Nat
  BY <1>3 DEF Bump
<1>13. BatchTypeOK' /\ Len(batch'.stats) = Len(batch.stats)
  <2> HIDE DEF counted, rs, i, got
  <2> QED BY <1>2, <1>9, <1>10, <1>11, <1>12 DEF BatchTypeOK, BatchRecord
<1>14. loop' \in LoopRecord /\ loop'.station >= 1
  <2>1. loop.station + 1 \in Nat /\ loop.station + 1 >= 1 /\ (loop.heard \/ got) \in BOOLEAN
    BY <1>2 DEF LoopRecord
  <2>2. loop' = [loop EXCEPT !.station = loop.station + 1, !.heard = loop.heard \/ got]
    BY DEF Receive
  <2> HIDE DEF got
  <2> QED BY <1>2, <2>1, <2>2 DEF LoopRecord
<1>15. StateTypeOK' /\ ControlTypeOK'
  BY <1>14 DEF Receive, TypeInv, TypeOK, StateTypeOK, ControlTypeOK
<1>16. StagedShape'
  BY <1>2, <1>13, <1>14 DEF Receive, TypeInv, StagedShape, Working, SameStations
<1> QED BY <1>1, <1>13, <1>15, <1>16 DEF TypeInv, TypeOK

\* The loops go on from a received report.
LEMMA TypeReceiveEnd ==
  ASSUME TypeInv, ReceiveEnd
  PROVE  TypeInv'
<1>1. StatsTypeOK' /\ TargetsTypeOK' /\ ObservationsFinite' /\ StationIDsOrdered'
  BY CommittedSame DEF ReceiveEnd
<1>2. batch \in BatchRecord /\ loop \in LoopRecord
  BY DEF TypeInv, TypeOK, BatchTypeOK, ControlTypeOK, BatchRecord
<1>3. BatchTypeOK' /\ batch'.stats = batch.stats
  <2>1. batch.receivedTransmissions + Bump(loop.heard) \in Nat
    BY <1>2 DEF BatchRecord, Bump
  <2>2. batch' = [batch EXCEPT !.receivedTransmissions =
                                 batch.receivedTransmissions + Bump(loop.heard)]
    BY DEF ReceiveEnd
  <2> QED BY <1>2, <2>1, <2>2 DEF BatchRecord, BatchTypeOK
<1>4. loop' \in LoopRecord /\ loop'.vessel >= 1
  <2>1. loop.vessel + 1 \in Nat /\ loop.vessel + 1 >= 1
    BY <1>2 DEF LoopRecord
  <2>2. loop' = [loop EXCEPT !.vessel = loop.vessel + 1, !.station = 0, !.heard = FALSE]
    BY DEF ReceiveEnd
  <2> QED BY <1>2, <2>1, <2>2 DEF LoopRecord
<1>5. StateTypeOK' /\ ControlTypeOK'
  BY <1>4 DEF ReceiveEnd, TypeInv, TypeOK, StateTypeOK, ControlTypeOK
<1>6. StagedShape'
  BY <1>3, <1>4 DEF ReceiveEnd, TypeInv, StagedShape, Working, SameStations
<1> QED BY <1>1, <1>3, <1>5, <1>6 DEF TypeInv, TypeOK

\* findStation finds every configured station.
LEMMA StationIndexType ==
  ASSUME NEW id \in StationIDs
  PROVE  StationIndex(id) \in DOMAIN state.stations /\ state.stations[StationIndex(id)].id = id
BY DEF StationIDs, StationIndex

\* What commit publishes has the types of what it replaces.
LEMMA TypeCommit ==
  ASSUME TypeInv, Commit
  PROVE  TypeInv'
<1>0. Working
  BY DEF Commit, Working
<1>1. /\ next \in StateRecord /\ state \in StateRecord /\ next.stations = state.stations
      /\ batch.stats \in Seq(Stats) /\ Len(batch.stats) = Len(state.stations)
      /\ loop \in LoopRecord /\ loop.target \in Nat /\ loop.credit \in Nat /\ credited \in Nat
  BY <1>0 DEF TypeInv, TypeOK, StateTypeOK, BatchTypeOK, ControlTypeOK, StagedShape, LoopRecord,
              SameStations
<1>2. /\ state' \in StateRecord /\ state'.stations = state.stations
      /\ state'.lastStationID = state.lastStationID
  BY <1>0, <1>1 DEF Commit, StateRecord, TypeInv, StagedShape, SameStations
<1>3. StateTypeOK'
  <2>1. messages \o reports \in Seq(Message)
    BY ConcatProperties DEF TypeInv, TypeOK, StateTypeOK
  <2>2. messages' \in Seq(Message)
    BY <2>1, RetainProperties DEF Commit
  <2> QED BY <1>2, <2>2 DEF Commit, StateTypeOK
<1>4. StationIDs' = StationIDs
  BY <1>2 DEF StationIDs
<1>5. StatsTypeOK'
  <2>1. ASSUME NEW id \in StationIDs PROVE stats'[id] \in Stats
    <3>1. StationIndex(id) \in 1..Len(batch.stats)
      <4>1. DOMAIN state.stations = 1..Len(state.stations)
        BY <1>1, LenProperties DEF StateRecord
      <4> QED BY <1>1, <4>1, StationIndexType
    <3>2. stats'[id] = batch.stats[StationIndex(id)]
      BY DEF Commit
    <3> QED BY <1>1, <3>1, <3>2, ElementOfSeq
  <2>2. DOMAIN stats' = StationIDs /\ history' = history
    BY DEF Commit
  <2> QED BY <1>4, <2>1, <2>2 DEF TypeInv, TypeOK, StatsTypeOK
<1>6. TargetsTypeOK' /\ ObservationsFinite' /\ BatchTypeOK'
  BY DEF Commit, TypeInv, TypeOK, TargetsTypeOK, ObservationsFinite, BatchTypeOK
<1>7. ControlTypeOK'
  <2>1. credited + loop.credit \in Nat
    BY <1>1
  <2> QED BY <2>1 DEF Commit, TypeInv, TypeOK, ControlTypeOK
<1>8. StagedShape'
  BY DEF Commit, StagedShape, Working
<1>9. StationIDsOrdered'
  BY <1>2 DEF TypeInv, StationIDsOrdered
<1> QED BY <1>3, <1>5, <1>6, <1>7, <1>8, <1>9 DEF TypeInv, TypeOK

\* Recording a reception keeps the store well typed.
LEMMA TypeApplyRecord ==
  ASSUME TypeInv, ApplyRecord
  PROVE  TypeInv'
<1> DEFINE r == batch.records[loop.applied + 1]
           current == ExpiredBefore(r)
<1>1. loop \in LoopRecord /\ loop.applied \in Nat /\ loop.applied < Len(batch.records)
  BY DEF TypeInv, TypeOK, ControlTypeOK, LoopRecord, ApplyRecord
<1>2. r \in ReceptionRecord
  <2>1. batch.records \in Seq(ReceptionRecord)
    BY DEF TypeInv, TypeOK, BatchTypeOK
  <2>2. loop.applied + 1 \in 1..Len(batch.records)
    BY <1>1, <2>1
  <2> QED BY <2>1, <2>2, ElementOfSeq
<1> HIDE DEF r
<1>3. TargetsType(current)
  BY ExpireType, TargetsTypeEquiv DEF ExpiredBefore, TypeInv, TypeOK
<1> HIDE DEF current
<1>4. targets' = Record(current, r)
  BY DEF ApplyRecord, r, current
<1>5. TargetsType(targets')
  BY <1>2, <1>3, <1>4, RecordType
<1>6. TargetsTypeOK' /\ ObservationsFinite'
  BY <1>5 DEF TargetsType, TargetRecord, TargetsTypeOK, ObservationsFinite
<1>7. StatsTypeOK' /\ StationIDsOrdered'
  <2>1. history' = [history EXCEPT ![r.station] = Push(history[r.station], r)]
    BY DEF ApplyRecord, r
  <2>2. ASSUME NEW id \in StationIDs PROVE history'[id] \in Seq(ReceptionRecord)
    <3>1. history[id] \in Seq(ReceptionRecord) /\ id \in DOMAIN history
      BY DEF TypeInv, TypeOK, StatsTypeOK
    <3>2. CASE id = r.station
      BY <1>2, <2>1, <3>1, <3>2, PushType
    <3>3. CASE id # r.station
      BY <2>1, <3>1, <3>3
    <3> QED BY <3>2, <3>3
  <2>3. DOMAIN history' = DOMAIN history /\ state' = state /\ stats' = stats
    BY <2>1 DEF ApplyRecord
  <2> QED BY <2>2, <2>3 DEF TypeInv, TypeOK, StatsTypeOK, StationIDs, StationIDsOrdered
<1>8. totals' \in [receptions : Nat, receivedTransmissions : Nat, evictions : Nat]
  <2>1. totals.evictions + Bump(MustEvict(current, r)) \in Nat
    BY DEF TypeInv, TypeOK, ControlTypeOK, Bump
  <2>2. totals' = [totals EXCEPT !.evictions = totals.evictions + Bump(MustEvict(current, r))]
    BY DEF ApplyRecord, r, current
  <2> QED BY <2>1, <2>2 DEF TypeInv, TypeOK, ControlTypeOK
<1>9. loop' \in LoopRecord
  <2> DEFINE expired == IF r.timestamp > loop.expired THEN r.timestamp ELSE loop.expired
  <2>1. expired \in Int /\ loop.applied + 1 \in Nat
    <3>1. r.timestamp \in Nat
      BY <1>2 DEF ReceptionRecord
    <3>2. loop.expired \in Int /\ loop.applied \in Nat
      BY <1>1 DEF LoopRecord
    <3> QED BY <3>1, <3>2
  <2>2. loop' = [loop EXCEPT !.applied = loop.applied + 1, !.expired = expired]
    BY DEF ApplyRecord, r
  <2> HIDE DEF expired
  <2> QED BY <1>1, <2>1, <2>2 DEF LoopRecord
<1>10. StateTypeOK' /\ BatchTypeOK' /\ ControlTypeOK'
  BY <1>8, <1>9 DEF ApplyRecord, TypeInv, TypeOK, StateTypeOK, BatchTypeOK, ControlTypeOK
<1>11. StagedShape'
  BY DEF ApplyRecord, StagedShape, Working
<1> QED BY <1>6, <1>7, <1>10, <1>11 DEF TypeInv, TypeOK

\* The final expiry and the published totals are well typed.
LEMMA TypeFinish ==
  ASSUME TypeInv, Finish
  PROVE  TypeInv'
<1>1. TargetsType(targets')
  BY ExpireType, TargetsTypeEquiv DEF Finish, TypeInv, TypeOK
<1>2. TargetsTypeOK' /\ ObservationsFinite'
  BY <1>1 DEF TargetsType, TargetRecord, TargetsTypeOK, ObservationsFinite
<1>3. StatsTypeOK' /\ StationIDsOrdered'
  BY DEF Finish, TypeInv, TypeOK, StatsTypeOK, StationIDs, StationIDsOrdered
<1>4. Drop
  BY DEF Finish
<1>5. totals' \in [receptions : Nat, receivedTransmissions : Nat, evictions : Nat]
  BY DEF Finish, TypeInv, TypeOK, ControlTypeOK, BatchTypeOK
<1>6. StateTypeOK' /\ ControlTypeOK'
  BY <1>4, <1>5, DropType DEF Finish, TypeInv, TypeOK, StateTypeOK, ControlTypeOK
<1> QED BY <1>2, <1>3, <1>4, <1>6, DropType DEF TypeInv, TypeOK

\* A speed change touches no other type.
LEMMA TypeSetSpeed ==
  ASSUME TypeInv, NEW speed \in Speeds, SetSpeed(speed)
  PROVE  TypeInv'
<1>1. state' \in StateRecord /\ state'.stations = state.stations
      /\ state'.lastStationID = state.lastStationID
  <2>1. state \in StateRecord /\ speed \in Nat
    BY InputsAssumption DEF TypeInv, TypeOK, StateTypeOK
  <2>2. state.revision + 1 \in Nat
    BY <2>1 DEF StateRecord
  <2>3. state' = [state EXCEPT !.speed = speed, !.revision = state.revision + 1]
    BY DEF SetSpeed
  <2> QED BY <2>1, <2>2, <2>3 DEF StateRecord
<1>2. StateTypeOK' /\ BatchTypeOK' /\ ControlTypeOK' /\ StagedShape'
  BY <1>1, IdleEdit DEF SetSpeed
<1>3. StatsTypeOK' /\ TargetsTypeOK' /\ ObservationsFinite' /\ StationIDsOrdered'
  BY <1>1 DEF SetSpeed, TypeInv, TypeOK, StatsTypeOK, TargetsTypeOK, ObservationsFinite,
              StationIDsOrdered, StationIDs
<1> QED BY <1>2, <1>3 DEF TypeInv, TypeOK

\* A new station has a new ID, counters and an empty history.
LEMMA TypeAddStation ==
  ASSUME TypeInv, NEW expected, NEW d \in Definitions, AddStation(expected, d)
  PROVE  TypeInv'
<1> DEFINE id == state.lastStationID + 1
           s == NewStation(id, d, state.elapsed)
           ss == Append(state.stations, s)
<1>1. /\ state \in StateRecord /\ state.stations \in Seq(Station) /\ id \in Nat
      /\ state.lastStationID \in Nat /\ state.elapsed \in Nat
      /\ state.revision + 1 \in Nat /\ state.stationRevision + 1 \in Nat
  BY SMTT(30), StateFields
<1>2. s \in Station /\ s.id = id
  <2>1. s \in Station
    BY <1>1, NewStationType
  <2> QED BY <2>1 DEF NewStation
<1> HIDE DEF s
<1>3. /\ ss \in Seq(Station) /\ Len(ss) = Len(state.stations) + 1
      /\ \A i \in 1..Len(state.stations) : ss[i] = state.stations[i]
      /\ ss[Len(state.stations) + 1] = s
  BY <1>1, <1>2, AppendProperties
<1>4. state' = [state EXCEPT !.lastStationID = id, !.stations = ss,
                             !.stationRevision = state.stationRevision + 1,
                             !.revision = state.revision + 1]
  BY DEF AddStation, NextStationID, s
<1> HIDE DEF ss, id
<1>5. state' \in StateRecord /\ state'.stations = ss /\ state'.lastStationID = id
  BY <1>1, <1>3, <1>4 DEF StateRecord
<1>6. StateTypeOK' /\ BatchTypeOK' /\ ControlTypeOK' /\ StagedShape'
  BY <1>5, IdleEdit DEF AddStation
<1>7. Len(state.stations) \in Nat /\ DOMAIN state.stations = 1..Len(state.stations)
      /\ DOMAIN ss = 1..(Len(state.stations) + 1)
  BY <1>1, <1>3, LenProperties
<1>8. StationIDs' = StationIDs \cup {id}
  BY <1>2, <1>3, <1>5, <1>7 DEF StationIDs
<1>9. StatsTypeOK'
  <2>1. /\ stats' = [k \in DOMAIN stats \cup {id} |-> IF k = id THEN NewStats ELSE stats[k]]
        /\ history' = [k \in DOMAIN history \cup {id} |-> IF k = id THEN <<>> ELSE history[k]]
    BY DEF AddStation, NextStationID, id
  <2> QED BY <1>8, <2>1, NewStatsType DEF TypeInv, TypeOK, StatsTypeOK
<1>10. TargetsTypeOK' /\ ObservationsFinite'
  BY DEF AddStation, TypeInv, TypeOK, TargetsTypeOK, ObservationsFinite
<1>11. StationIDsOrdered'
  <2>1. \A i \in 1..Len(state.stations) :
          state.stations[i].id \in Nat /\ state.stations[i].id <= state.lastStationID
    <3>1. \A i \in 1..Len(state.stations) : state.stations[i] \in Station
      BY <1>1, ElementOfSeq
    <3> QED BY <1>7, <3>1 DEF TypeInv, StationIDsOrdered, Station
  <2>2. \A i \in 1..Len(state.stations) : ss[i].id < id
    <3> SUFFICES ASSUME NEW i \in 1..Len(state.stations) PROVE state.stations[i].id < id
      BY <1>3
    <3> QED BY <1>1, <2>1 DEF id
  <2>3. \A i \in DOMAIN ss : ss[i].id <= id
    BY <1>1, <1>2, <1>3, <1>7, <2>1, <2>2
  <2>4. ASSUME NEW i \in DOMAIN ss, NEW j \in DOMAIN ss, i < j
        PROVE  ss[i].id < ss[j].id
    <3>1. i \in 1..Len(state.stations)
      BY <1>7, <2>4
    <3>2. CASE j \in 1..Len(state.stations)
      BY <1>3, <1>7, <2>4, <3>1, <3>2 DEF TypeInv, StationIDsOrdered
    <3>3. CASE j = Len(state.stations) + 1
      BY <1>2, <1>3, <2>2, <3>1, <3>3
    <3> QED BY <1>7, <3>2, <3>3
  <2> QED BY <1>5, <2>3, <2>4 DEF StationIDsOrdered
<1> QED BY <1>6, <1>9, <1>10, <1>11 DEF TypeInv, TypeOK

\* An edited station keeps its ID and its type.
LEMMA EditedType ==
  ASSUME NEW s \in Station, NEW d \in Definitions, state.elapsed \in Nat
  PROVE  Edited(s, d) \in Station /\ Edited(s, d).id = s.id
<1>1. s.configRevision + 1 \in Nat /\ s.rfRevision + 1 \in Nat
  <2>1. s.configRevision \in Nat /\ s.rfRevision \in Nat
    BY DEF Station
  <2> QED BY <2>1
<1>2. CASE RF(d) = RF(s.definition)
  <2>1. Edited(s, d) = [s EXCEPT !.definition = d, !.configRevision = s.configRevision + 1]
    BY <1>2 DEF Edited
  <2> QED BY <1>1, <2>1 DEF Station
<1>3. CASE RF(d) # RF(s.definition)
  <2>1. Edited(s, d) = [s EXCEPT !.definition = d, !.configRevision = s.configRevision + 1,
                                 !.rfRevision = s.rfRevision + 1,
                                 !.rfUpdatedAt = state.elapsed, !.coverage = RF(d)]
    BY <1>3 DEF Edited
  <2>2. RF(d) \in {RF(e) : e \in Definitions}
    OBVIOUS
  <2> QED BY <1>1, <2>1, <2>2 DEF Station
<1> QED BY <1>2, <1>3

\* An edit keeps the order of the IDs.
LEMMA TypeUpdateStation ==
  ASSUME TypeInv, NEW expected, NEW id \in StationIDs, NEW d \in Definitions,
         UpdateStation(expected, id, d)
  PROVE  TypeInv'
<1> DEFINE i == StationIndex(id)
           e == Edited(state.stations[i], d)
           ss == [state.stations EXCEPT ![i] = e]
<1>1. /\ state \in StateRecord /\ state.stations \in Seq(Station) /\ state.elapsed \in Nat
      /\ state.revision + 1 \in Nat /\ state.stationRevision + 1 \in Nat
  BY StateFields
<1>2. DOMAIN state.stations = 1..Len(state.stations) /\ i \in 1..Len(state.stations)
  BY <1>1, StationIndexType, LenProperties
<1> HIDE DEF i
<1>3. e \in Station /\ e.id = state.stations[i].id
  BY <1>1, <1>2, ElementOfSeq, EditedType
<1> HIDE DEF e
<1>4. /\ ss \in Seq(Station) /\ Len(ss) = Len(state.stations)
      /\ \A j \in 1..Len(state.stations) : ss[j] = IF j = i THEN e ELSE state.stations[j]
  BY <1>1, <1>2, <1>3, ExceptSeq
<1>5. state' = [state EXCEPT !.stations = ss, !.stationRevision = state.stationRevision + 1,
                             !.revision = state.revision + 1]
  BY <1>1 DEF UpdateStation, i, e, StateRecord
<1> HIDE DEF ss
<1>6. /\ state' \in StateRecord /\ state'.stations = ss
      /\ state'.lastStationID = state.lastStationID
  BY <1>1, <1>4, <1>5 DEF StateRecord
<1>7. StateTypeOK' /\ BatchTypeOK' /\ ControlTypeOK' /\ StagedShape'
  BY <1>6, IdleEdit DEF UpdateStation
<1>8. DOMAIN ss = DOMAIN state.stations /\ \A j \in DOMAIN ss : ss[j].id = state.stations[j].id
  BY <1>2, <1>3, <1>4, LenProperties
<1>9. StationIDs' = StationIDs
  BY <1>6, <1>8 DEF StationIDs
<1>10. StatsTypeOK' /\ TargetsTypeOK' /\ ObservationsFinite'
  BY <1>9 DEF UpdateStation, TypeInv, TypeOK, StatsTypeOK, TargetsTypeOK, ObservationsFinite
<1>11. StationIDsOrdered'
  BY <1>6, <1>8 DEF TypeInv, StationIDsOrdered
<1> QED BY <1>7, <1>10, <1>11 DEF TypeInv, TypeOK

\* A removal keeps the order of the IDs and drops what belonged to the station.
LEMMA TypeRemoveStation ==
  ASSUME TypeInv, NEW expected, NEW id \in StationIDs, RemoveStation(expected, id)
  PROVE  TypeInv'
<1> DEFINE i == StationIndex(id)
           s == state.stations
           ss == RemoveAt(s, i)
<1>1. /\ state \in StateRecord /\ s \in Seq(Station)
      /\ state.revision + 1 \in Nat /\ state.stationRevision + 1 \in Nat
  BY StateFields
<1>2. DOMAIN s = 1..Len(s) /\ Len(s) \in Nat /\ i \in 1..Len(s) /\ s[i].id = id
  BY <1>1, StationIndexType, LenProperties
<1>3. state' = [state EXCEPT !.stations = ss, !.stationRevision = state.stationRevision + 1,
                             !.revision = state.revision + 1]
  BY DEF RemoveStation
<1>4. /\ ss \in Seq(Station) /\ Len(ss) = Len(s) - 1
      /\ \A k \in 1..(Len(s) - 1) : ss[k] = IF k < i THEN s[k] ELSE s[k + 1]
  <2> HIDE DEF i
  <2> QED BY <1>1, <1>2, RemoveAtProperties
<1> HIDE DEF ss, i
<1>5. /\ state' \in StateRecord /\ state'.stations = ss
      /\ state'.lastStationID = state.lastStationID
  BY <1>1, <1>3, <1>4 DEF StateRecord
<1>6. StateTypeOK' /\ BatchTypeOK' /\ ControlTypeOK' /\ StagedShape'
  BY <1>5, IdleEdit DEF RemoveStation
<1>7. DOMAIN ss = 1..(Len(s) - 1)
  BY <1>4, LenProperties
<1>8. \A j, k \in 1..Len(s) : j # k => s[j].id # s[k].id
  <2> SUFFICES ASSUME NEW j \in 1..Len(s), NEW k \in 1..Len(s), j < k
               PROVE  s[j].id # s[k].id
    BY <1>2
  <2>1. s[j].id < s[k].id
    BY <1>2 DEF TypeInv, StationIDsOrdered
  <2>2. s[j].id \in Nat /\ s[k].id \in Nat
    <3>1. s[j] \in Station /\ s[k] \in Station
      BY <1>1, ElementOfSeq
    <3> QED BY <3>1 DEF Station
  <2> QED BY <2>1, <2>2
<1>9. StationIDs' = StationIDs \ {id}
  <2>1. StationIDs' = {ss[k].id : k \in 1..(Len(s) - 1)} /\ StationIDs = {s[k].id : k \in 1..Len(s)}
    BY <1>2, <1>5, <1>7 DEF StationIDs
  <2>2. ASSUME NEW k \in 1..(Len(s) - 1) PROVE ss[k].id \in StationIDs \ {id}
    <3> DEFINE j == IF k < i THEN k ELSE k + 1
    <3>1. j \in 1..Len(s) /\ j # i /\ ss[k] = s[j]
      BY <1>2, <1>4
    <3> QED BY <1>2, <1>8, <2>1, <3>1
  <2>3. ASSUME NEW j \in 1..Len(s), s[j].id # id PROVE \E k \in 1..(Len(s) - 1) : ss[k].id = s[j].id
    <3>1. j # i
      BY <1>2, <2>3
    <3>2. CASE j < i
      <4>1. j \in 1..(Len(s) - 1) /\ ss[j] = s[j]
        BY <1>2, <1>4, <3>2
      <4> QED BY <4>1
    <3>3. CASE j > i
      <4>1. j - 1 \in 1..(Len(s) - 1) /\ ~(j - 1 < i) /\ (j - 1) + 1 = j
        BY <1>2, <3>3
      <4>2. ss[j - 1] = s[j]
        BY <1>4, <4>1
      <4> QED BY <4>1, <4>2
    <3> QED BY <1>2, <3>1, <3>2, <3>3
  <2> QED BY <2>1, <2>2, <2>3
<1>10. StatsTypeOK'
  BY <1>9 DEF RemoveStation, Without, TypeInv, TypeOK, StatsTypeOK
<1>11. TargetsTypeOK' /\ ObservationsFinite'
  <2>1. TargetsType(targets')
    BY RemoveObservationsType, TargetsTypeEquiv DEF RemoveStation, TypeInv, TypeOK
  <2> QED BY <2>1 DEF TargetsType, TargetRecord, TargetsTypeOK, ObservationsFinite
<1>12. StationIDsOrdered'
  <2>1. ASSUME NEW k \in 1..(Len(s) - 1) PROVE ss[k].id <= state.lastStationID
    <3> DEFINE j == IF k < i THEN k ELSE k + 1
    <3>1. j \in DOMAIN s /\ ss[k] = s[j]
      BY <1>2, <1>4
    <3> HIDE DEF j
    <3> QED BY <3>1 DEF TypeInv, StationIDsOrdered
  <2>2. ASSUME NEW j \in 1..(Len(s) - 1), NEW k \in 1..(Len(s) - 1), j < k
        PROVE  ss[j].id < ss[k].id
    <3> DEFINE a == IF j < i THEN j ELSE j + 1
               b == IF k < i THEN k ELSE k + 1
    <3>1. a \in 1..Len(s) /\ b \in 1..Len(s) /\ a < b /\ ss[j] = s[a] /\ ss[k] = s[b]
      BY <1>2, <1>4, <2>2
    <3> HIDE DEF a, b
    <3> QED BY <1>2, <3>1 DEF TypeInv, StationIDsOrdered
  <2> QED BY <1>5, <1>7, <2>1, <2>2 DEF StationIDsOrdered
<1> QED BY <1>6, <1>10, <1>11, <1>12 DEF TypeInv, TypeOK

-----------------------------------------------------------------------------
\* Every step keeps TypeInv.
LEMMA TypeStep == TypeInv /\ [Next]_vars => TypeInv'
<1> SUFFICES ASSUME TypeInv, [Next]_vars PROVE TypeInv'
  OBVIOUS
<1>1. ASSUME NEW count \in 0..MaxVessels, BeginSetCount(count) PROVE TypeInv'
  BY <1>1, TypeBeginSetCount
<1>2. ASSUME NEW delta \in VirtualDeltas, BeginAdvance(delta) PROVE TypeInv'
  BY <1>2, TypeBeginAdvance
<1>3. ASSUME NEW delta \in RealDeltas, BeginElapse(delta) PROVE TypeInv'
  BY <1>3, TypeBeginElapse
<1>4. ASSUME NEW speed \in Speeds, SetSpeed(speed) PROVE TypeInv'
  BY <1>4, TypeSetSpeed
<1>5. ASSUME NEW expected \in FirstRevision..MaxRevision, NEW d \in Definitions,
             AddStation(expected, d)
      PROVE  TypeInv'
  BY <1>5, TypeAddStation
<1>6. ASSUME NEW expected \in FirstRevision..MaxRevision, NEW id \in StationIDs,
             NEW d \in Definitions, UpdateStation(expected, id, d)
      PROVE  TypeInv'
  BY <1>6, TypeUpdateStation
<1>7. ASSUME NEW expected \in FirstRevision..MaxRevision, NEW id \in StationIDs,
             RemoveStation(expected, id)
      PROVE  TypeInv'
  BY <1>7, TypeRemoveStation
<1>8. CASE Spawn
  BY <1>8, TypeSpawn
<1>9. CASE TickVessel
  BY <1>9, TypeTickVessel
<1>10. CASE TickEnd
  BY <1>10, TypeTickEnd
<1>11. CASE SpawnFails \/ Cancel \/ ReceiveFails
  BY <1>11, FailType DEF SpawnFails, Cancel, ReceiveFails
<1>12. ASSUME NEW outcome \in Outcomes, Receive(outcome) PROVE TypeInv'
  BY <1>12, TypeReceive
<1>13. CASE ReceiveEnd
  BY <1>13, TypeReceiveEnd
<1>14. CASE Commit
  BY <1>14, TypeCommit
<1>15. CASE ApplyRecord
  BY <1>15, TypeApplyRecord
<1>16. CASE Finish
  BY <1>16, TypeFinish
<1>17. CASE UNCHANGED vars
  BY <1>17 DEF vars, TypeInv, TypeOK, StateTypeOK, StatsTypeOK, TargetsTypeOK, BatchTypeOK,
               ControlTypeOK, StagedShape, Working, SameStations, ObservationsFinite,
               StationIDsOrdered, StationIDs
<1> QED BY <1>1, <1>2, <1>3, <1>4, <1>5, <1>6, <1>7, <1>8, <1>9, <1>10, <1>11, <1>12,
           <1>13, <1>14, <1>15, <1>16, <1>17 DEF Next

\* TypeInv is an invariant of the engine.
THEOREM TypeInvariance == Spec => []TypeInv
BY TypeInit, TypeStep, PTL DEF Spec

\* The engine is type correct for every configuration that New accepts: in
\* particular the reception store always holds exactly the configured stations.
THEOREM TypeCorrect == Spec => []TypeOK
<1>1. TypeInv => TypeOK
  BY DEF TypeInv
<1> QED BY <1>1, TypeInvariance, PTL

-----------------------------------------------------------------------------
(***************************************************************************)
(* History, clock, edits and stations: each proof relates what a call has  *)
(* staged so far to the committed state that it will replace.              *)
(***************************************************************************)
\* The staged reports continue the committed sequence.
StagedReports ==
  Working =>
    /\ next.sequence = state.sequence + Len(reports)
    /\ \A k \in 1..Len(reports) : reports[k].sequence = state.sequence + k

HistoryInv == HistoryContiguous /\ StagedReports

\* A new run has no reports and has staged none.
LEMMA HistoryInit == Init => HistoryInv
<1> SUFFICES ASSUME Init PROVE HistoryInv
  OBVIOUS
<1>1. /\ state.sequence = 0 /\ next.sequence = 0 /\ messages = <<>> /\ reports = <<>>
      /\ MessageLimit \in Nat
  BY LimitsAssumption DEF Init
<1> QED BY <1>1 DEF HistoryInv, HistoryContiguous, StagedReports, Minimum

\* A step that commits nothing and is not working afterwards, or stages nothing new.
LEMMA HistorySame ==
  ASSUME HistoryInv, messages' = messages, state'.sequence = state.sequence,
         ~Working' \/ (Working /\ UNCHANGED <<next, reports>>)
                   \/ (reports' = <<>> /\ next'.sequence = state.sequence /\ state.sequence \in Nat)
  PROVE  HistoryInv'
<1>1. HistoryContiguous'
  BY DEF HistoryInv, HistoryContiguous
<1>2. StagedReports'
  <2>1. CASE ~Working'
    BY <2>1 DEF StagedReports
  <2>2. CASE Working /\ UNCHANGED <<next, reports>>
    BY <2>2 DEF HistoryInv, StagedReports
  <2>3. CASE reports' = <<>> /\ next'.sequence = state.sequence /\ state.sequence \in Nat
    BY <2>3 DEF StagedReports
  <2> QED BY <2>1, <2>2, <2>3
<1> QED BY <1>1, <1>2 DEF HistoryInv

\* What one iteration of SetCount or advance stages, whichever it is.
LEMMA SendShape ==
  ASSUME TypeInv, Spawn \/ TickVessel
  PROVE  /\ Working /\ pc' = "receive"
         /\ next'.sequence = next.sequence + 1
         /\ next'.elapsed = next.elapsed /\ next'.remainder = next.remainder
         /\ next'.revision = next.revision
         /\ \E m \in Message : m.sequence = next.sequence + 1 /\ reports' = Append(reports, m)
         /\ UNCHANGED <<state, messages, credited>>
         /\ loop'.target = loop.target /\ loop'.credit = loop.credit
<1>1. /\ next \in StateRecord /\ loop \in LoopRecord
      /\ next.sequence \in Nat /\ next.nextMMSI \in Nat /\ next.elapsed \in Nat
      /\ next.vessels \in Seq(Vessel)
  BY DEF TypeInv, TypeOK, StateTypeOK, ControlTypeOK, StateRecord
<1>2. CASE Spawn
  <2> DEFINE v == [mmsi |-> next.nextMMSI, updatedAt |-> next.elapsed, reports |-> 0]
             n == [next EXCEPT !.vessels = Append(next.vessels, v),
                               !.nextMMSI = next.nextMMSI + 1]
             i == Len(next.vessels) + 1
             m == Emitted(v, n.sequence + 1).report
  <2>1. Send(n, v, i)
    BY <1>2 DEF Spawn
  <2>2. /\ n.sequence = next.sequence /\ n.elapsed = next.elapsed
        /\ n.remainder = next.remainder /\ n.revision = next.revision
    BY <1>1 DEF StateRecord
  <2>3. m \in Message /\ m.sequence = next.sequence + 1
    BY <1>1, <2>2, EmittedType
  <2>4. DOMAIN n = DOMAIN next
    OBVIOUS
  <2> HIDE DEF v, i, n
  <2>5. /\ next' = [n EXCEPT !.sequence = n.sequence + 1,
                             !.vessels[i] = Emitted(v, n.sequence + 1)]
        /\ reports' = Append(reports, m) /\ pc' = "receive"
        /\ UNCHANGED <<state, messages, credited>>
    BY <2>1 DEF Send
  <2>6. /\ next'.sequence = next.sequence + 1 /\ next'.elapsed = next.elapsed
        /\ next'.remainder = next.remainder /\ next'.revision = next.revision
    BY <1>1, <2>2, <2>4, <2>5 DEF StateRecord
  <2>7. loop'.target = loop.target /\ loop'.credit = loop.credit
    BY <1>1, <1>2 DEF Spawn, LoopRecord
  <2> HIDE DEF m
  <2> QED BY <1>2, <2>3, <2>5, <2>6, <2>7 DEF Spawn, Working
<1>3. CASE TickVessel
  <2> DEFINE i == loop.vessel
             v == [next.vessels[i] EXCEPT !.updatedAt = loop.tick * TickInterval]
             m == Emitted(v, next.sequence + 1).report
  <2>1. Send(next, v, i) /\ pc = "tick"
    BY <1>3 DEF TickVessel
  <2>2. v.mmsi \in Nat /\ v.updatedAt \in Nat /\ v.reports \in Nat
    <3>1. loop.tick \in Nat /\ TickInterval \in Nat /\ i \in 1..Len(next.vessels)
      BY <1>1, <1>3, LimitsAssumption DEF TickVessel, TypeInv, StagedShape, LoopRecord
    <3>2. next.vessels[i] \in Vessel /\ loop.tick * TickInterval \in Nat
      BY <1>1, <3>1, ElementOfSeq
    <3> HIDE DEF i
    <3> QED BY <3>2 DEF Vessel
  <2> HIDE DEF v, i
  <2>3. m \in Message /\ m.sequence = next.sequence + 1
    BY <1>1, <2>2, EmittedType
  <2>4. /\ next' = [next EXCEPT !.sequence = next.sequence + 1,
                                !.vessels[i] = Emitted(v, next.sequence + 1)]
        /\ reports' = Append(reports, m) /\ pc' = "receive"
        /\ UNCHANGED <<state, messages, credited>>
    BY <2>1 DEF Send
  <2>5. /\ next'.sequence = next.sequence + 1 /\ next'.elapsed = next.elapsed
        /\ next'.remainder = next.remainder /\ next'.revision = next.revision
    BY <1>1, <2>4 DEF StateRecord
  <2>6. loop'.target = loop.target /\ loop'.credit = loop.credit
    BY <1>1, <1>3 DEF TickVessel, LoopRecord
  <2> HIDE DEF m
  <2> QED BY <2>1, <2>3, <2>4, <2>5, <2>6 DEF Working
<1> QED BY <1>2, <1>3

\* emit numbers the next report.
LEMMA HistorySend ==
  ASSUME TypeInv, HistoryInv, Spawn \/ TickVessel
  PROVE  HistoryInv'
<1>0. Working /\ next'.sequence = next.sequence + 1
  BY SendShape
<1>1. /\ reports \in Seq(Message) /\ next.sequence \in Nat /\ state.sequence \in Nat
      /\ next.sequence = state.sequence + Len(reports)
      /\ \A k \in 1..Len(reports) : reports[k].sequence = state.sequence + k
  BY <1>0 DEF TypeInv, TypeOK, StateTypeOK, StateRecord, HistoryInv, StagedReports
<1>2. PICK m \in Message : m.sequence = next.sequence + 1 /\ reports' = Append(reports, m)
  BY SendShape
<1>3. UNCHANGED <<state, messages>>
  BY SendShape
<1>4. /\ Len(reports) \in Nat
      /\ Len(reports') = Len(reports) + 1
      /\ \A k \in 1..Len(reports) : reports'[k] = reports[k]
      /\ reports'[Len(reports) + 1] = m
  BY <1>1, <1>2, <1>3, AppendProperties, LenProperties
<1> DEFINE q == state.sequence
           l == Len(reports)
<1>5. q \in Nat /\ l \in Nat /\ next.sequence = q + l /\ m.sequence = (q + l) + 1
  BY <1>1, <1>2, <1>4
<1>6. next'.sequence = q + Len(reports')
  <2> HIDE DEF q, l
  <2>1. next'.sequence = (q + l) + 1 /\ Len(reports') = l + 1
    BY <1>0, <1>4, <1>5 DEF l
  <2> QED BY <1>5, <2>1
<1>7. ASSUME NEW k \in 1..Len(reports') PROVE reports'[k].sequence = q + k
  <2>1. CASE k \in 1..l
    BY <1>1, <1>4, <2>1
  <2>2. CASE k = l + 1
    <3> HIDE DEF q
    <3>1. reports'[k].sequence = (q + l) + 1
      BY <1>4, <1>5, <2>2
    <3> HIDE DEF l
    <3> QED BY <1>5, <2>2, <3>1
  <2> QED BY <1>4, <2>1, <2>2
<1>8. HistoryContiguous'
  BY <1>3 DEF HistoryInv, HistoryContiguous
<1> QED BY <1>3, <1>6, <1>7, <1>8 DEF HistoryInv, StagedReports

\* commit appends the staged reports and keeps the newest MessageLimit.
LEMMA HistoryCommit ==
  ASSUME TypeInv, HistoryInv, Commit
  PROVE  HistoryInv'
<1> DEFINE all == messages \o reports
           lenM == Len(messages)
           lenR == Len(reports)
<1>0. Working /\ messages \in Seq(Message) /\ reports \in Seq(Message)
      /\ next \in StateRecord /\ state.sequence \in Nat /\ MessageLimit \in Nat
  BY LimitsAssumption DEF Commit, Working, TypeInv, TypeOK, StateTypeOK, StateRecord
<1>1. /\ lenM \in Nat /\ lenR \in Nat /\ DOMAIN messages = 1..lenM
      /\ lenM = Minimum(state.sequence, MessageLimit)
      /\ \A k \in 1..lenM : messages[k].sequence = state.sequence - lenM + k
      /\ \A k \in 1..lenR : reports[k].sequence = state.sequence + k
      /\ next.sequence = state.sequence + lenR
  BY <1>0, LenProperties DEF HistoryInv, HistoryContiguous, StagedReports
<1>2. /\ all \in Seq(Message) /\ Len(all) = lenM + lenR
      /\ \A k \in 1..(lenM + lenR) : all[k] = IF k <= lenM THEN messages[k] ELSE reports[k - lenM]
  BY <1>0, ConcatProperties
<1> HIDE DEF all, lenM, lenR
<1>3. ASSUME NEW k \in 1..(lenM + lenR) PROVE all[k].sequence = state.sequence - lenM + k
  <2>1. CASE k <= lenM
    BY <1>0, <1>1, <1>2, <2>1
  <2>2. CASE k > lenM
    <3>1. k - lenM \in 1..lenR
      BY <1>1, <2>2
    <3>2. reports[k - lenM].sequence = state.sequence + (k - lenM)
      BY <1>1, <3>1
    <3>3. all[k] = reports[k - lenM]
      BY <1>1, <1>2, <2>2
    <3> QED BY <1>0, <1>1, <3>2, <3>3
  <2> QED BY <1>1, <2>1, <2>2
<1>4. messages' = Retain(all) /\ state'.sequence = state.sequence + lenR /\ ~Working'
  BY <1>0, <1>1 DEF Commit, StateRecord, Working, all
<1> DEFINE new == Retain(all)
           lenN == Len(new)
<1>5. /\ new \in Seq(Message)
      /\ lenN = Minimum(lenM + lenR, MessageLimit)
      /\ \A i \in 1..lenN : new[i] = all[(lenM + lenR) - lenN + i]
  BY <1>2, RetainProperties
<1> HIDE DEF new
<1>6. lenN \in Nat /\ DOMAIN new = 1..lenN /\ lenN <= lenM + lenR
  BY <1>0, <1>1, <1>5, LenProperties DEF Minimum
<1> HIDE DEF lenN
<1>7. lenN = Minimum(state.sequence + lenR, MessageLimit)
  BY <1>0, <1>1, <1>5 DEF Minimum
<1>8. ASSUME NEW i \in 1..lenN PROVE new[i].sequence = (state.sequence + lenR) - lenN + i
  <2>1. (lenM + lenR) - lenN + i \in 1..(lenM + lenR)
    BY <1>1, <1>6
  <2>2. new[i].sequence = state.sequence - lenM + ((lenM + lenR) - lenN + i)
    BY <1>3, <1>5, <2>1
  <2> QED BY <1>0, <1>1, <1>6, <2>2
<1>9. HistoryContiguous'
  BY <1>4, <1>6, <1>7, <1>8 DEF HistoryContiguous, lenN, new
<1> QED BY <1>4, <1>9 DEF HistoryInv, StagedReports

\* Calls begin with nothing staged, at the committed sequence.
LEMMA HistoryBegin ==
  ASSUME TypeInv, HistoryInv, UNCHANGED <<state, messages>>, reports' = <<>>,
         next'.sequence = state.sequence
  PROVE  HistoryInv'
BY HistorySame, StateFields

\* Every step keeps the history contiguous and the staged reports its continuation.
LEMMA HistoryStep == TypeInv /\ HistoryInv /\ [Next]_vars => HistoryInv'
<1> SUFFICES ASSUME TypeInv, HistoryInv, [Next]_vars PROVE HistoryInv'
  OBVIOUS
<1>0. state \in StateRecord /\ next \in StateRecord
  BY DEF TypeInv, TypeOK, StateTypeOK
<1>1. ASSUME NEW count \in 0..MaxVessels, BeginSetCount(count) PROVE HistoryInv'
  <2>1. next'.sequence = state.sequence
    BY <1>0, <1>1 DEF BeginSetCount, StateRecord
  <2> QED BY <1>1, <2>1, HistoryBegin DEF BeginSetCount
<1>2. ASSUME NEW delta \in VirtualDeltas, BeginAdvance(delta) PROVE HistoryInv'
  <2>1. next'.sequence = state.sequence
    BY <1>0, <1>2 DEF BeginAdvance, StartAdvance, StateRecord
  <2> QED BY <1>2, <2>1, HistoryBegin DEF BeginAdvance, StartAdvance
<1>3. ASSUME NEW delta \in RealDeltas, BeginElapse(delta) PROVE HistoryInv'
  <2>1. next'.sequence = state.sequence
    BY <1>0, <1>3 DEF BeginElapse, StartAdvance, StateRecord
  <2> QED BY <1>3, <2>1, HistoryBegin DEF BeginElapse, StartAdvance
<1>4. ASSUME NEW speed \in Speeds, SetSpeed(speed) PROVE HistoryInv'
  <2>1. state'.sequence = state.sequence
    BY <1>0, <1>4 DEF SetSpeed, StateRecord
  <2> QED BY <1>4, <2>1, HistorySame DEF SetSpeed, Idle, Working
<1>5. ASSUME NEW expected \in FirstRevision..MaxRevision, NEW d \in Definitions,
             AddStation(expected, d)
      PROVE  HistoryInv'
  <2>1. state'.sequence = state.sequence
    BY <1>0, <1>5 DEF AddStation, StateRecord
  <2> QED BY <1>5, <2>1, HistorySame DEF AddStation, Idle, Working
<1>6. ASSUME NEW expected \in FirstRevision..MaxRevision, NEW id \in StationIDs,
             NEW d \in Definitions, UpdateStation(expected, id, d)
      PROVE  HistoryInv'
  <2>1. state'.sequence = state.sequence
    BY <1>0, <1>6 DEF UpdateStation, StateRecord
  <2> QED BY <1>6, <2>1, HistorySame DEF UpdateStation, Idle, Working
<1>7. ASSUME NEW expected \in FirstRevision..MaxRevision, NEW id \in StationIDs,
             RemoveStation(expected, id)
      PROVE  HistoryInv'
  <2>1. state'.sequence = state.sequence
    BY <1>0, <1>7 DEF RemoveStation, StateRecord
  <2> QED BY <1>7, <2>1, HistorySame DEF RemoveStation, Idle, Working
<1>8. CASE Spawn \/ TickVessel
  BY <1>8, HistorySend
<1>9. CASE TickEnd
  <2>1. next'.sequence = next.sequence /\ UNCHANGED <<state, messages, reports, pc>>
    BY <1>0, <1>9 DEF TickEnd, StateRecord
  <2> QED BY <2>1 DEF HistoryInv, HistoryContiguous, StagedReports, Working
<1>10. CASE SpawnFails \/ Cancel \/ ReceiveFails
  BY <1>10, HistorySame DEF SpawnFails, Cancel, ReceiveFails, Drop, Working
<1>11. ASSUME NEW outcome \in Outcomes, Receive(outcome) PROVE HistoryInv'
  BY <1>11, HistorySame DEF Receive, Working
<1>12. CASE ReceiveEnd
  BY <1>12, HistorySame DEF ReceiveEnd, Working
<1>13. CASE Commit
  BY <1>13, HistoryCommit
<1>14. CASE ApplyRecord
  BY <1>14, HistorySame DEF ApplyRecord, Working
<1>15. CASE Finish
  BY <1>15, HistorySame DEF Finish, Drop, Working
<1>16. CASE UNCHANGED vars
  BY <1>16 DEF vars, HistoryInv, HistoryContiguous, StagedReports, Working
<1> QED BY <1>1, <1>2, <1>3, <1>4, <1>5, <1>6, <1>7, <1>8, <1>9, <1>10, <1>11, <1>12,
           <1>13, <1>14, <1>15, <1>16 DEF Next

\* For every configuration and every sequence of calls, the retained history is
\* exactly the newest MessageLimit reports: commit, emit and every failure path
\* lose, repeat and reorder nothing.
THEOREM HistoryCorrect == Spec => []HistoryContiguous
<1>1. HistoryInv => HistoryContiguous
  BY DEF HistoryInv
<1> QED BY <1>1, HistoryInit, HistoryStep, TypeInvariance, PTL DEF Spec

-----------------------------------------------------------------------------
(***************************************************************************)
(* Virtual time                                                            *)
(***************************************************************************)

\* The call in progress will add exactly its credit, and never goes back.
StagedClock ==
  Working =>
    /\ next.remainder < SpeedScale
    /\ loop.target * SpeedScale + next.remainder = credited + loop.credit
    /\ loop.target >= state.elapsed

ClockInv == ClockExact /\ StagedClock

\* A new run stands at its start with nothing credited.
LEMMA ClockInit == Init => ClockInv
<1> SUFFICES ASSUME Init PROVE ClockInv
  OBVIOUS
<1>1. /\ state.elapsed = 0 /\ state.remainder = 0 /\ next.remainder = 0 /\ credited = 0
      /\ loop.target = 0 /\ loop.credit = 0 /\ SpeedScale \in Nat \ {0}
  BY LimitsAssumption DEF Init, NoLoop
<1>2. 0 * SpeedScale + 0 = 0 + 0
  BY <1>1
<1> QED BY <1>1, <1>2 DEF ClockInv, ClockExact, StagedClock

\* Steps that neither commit nor stage a new duration.
LEMMA ClockSame ==
  ASSUME ClockInv, state'.elapsed = state.elapsed, state'.remainder = state.remainder,
         credited' = credited,
         ~Working' \/ (Working /\ next'.remainder = next.remainder
                               /\ loop'.target = loop.target /\ loop'.credit = loop.credit)
  PROVE  ClockInv'
BY DEF ClockInv, ClockExact, StagedClock

\* The quotient and remainder that Elapse takes, for every positive divisor.
LEMMA DivMod ==
  ASSUME NEW a \in Nat, NEW b \in Nat \ {0}
  PROVE  a = b * (a \div b) + (a % b) /\ a % b < b /\ a % b \in Nat /\ a \div b \in Nat
OBVIOUS

\* advance: the staged remainder and the new target account for the credit.
LEMMA ClockStartAdvance ==
  ASSUME TypeInv, ClockInv, NEW n \in StateRecord, NEW delta \in Nat, NEW credit \in Nat,
         n.elapsed = state.elapsed, n.remainder < SpeedScale,
         delta * SpeedScale + n.remainder = credit + state.remainder,
         StartAdvance(n, delta, credit)
  PROVE  ClockInv'
<1>1. /\ state.elapsed \in Nat /\ state.remainder \in Nat /\ n.remainder \in Nat
      /\ SpeedScale \in Nat \ {0}
  BY StateFields, LimitsAssumption DEF StateRecord
<1>2. /\ next'.remainder = n.remainder
      /\ UNCHANGED <<state, credited>>
  BY DEF StartAdvance, StateRecord
<1>3. loop'.target = state.elapsed + delta /\ loop'.credit = credit
  BY DEF StartAdvance, NoLoop
<1>4. (state.elapsed + delta) * SpeedScale = state.elapsed * SpeedScale + delta * SpeedScale
  BY <1>1
<1>5. state.elapsed * SpeedScale + state.remainder = credited
  BY DEF ClockInv, ClockExact
<1>6. state.elapsed * SpeedScale \in Nat /\ delta * SpeedScale \in Nat
  BY <1>1
<1>7. (state.elapsed + delta) * SpeedScale + n.remainder = credited + credit
  BY <1>1, <1>4, <1>5, <1>6
<1>8. state.elapsed + delta >= state.elapsed
  BY <1>1
<1> QED BY <1>2, <1>3, <1>7, <1>8 DEF ClockInv, ClockExact, StagedClock

\* Every step keeps the clock, and what a call has staged, in balance with the credit.
LEMMA ClockStep == TypeInv /\ ClockInv /\ [Next]_vars => ClockInv'
<1> SUFFICES ASSUME TypeInv, ClockInv, [Next]_vars PROVE ClockInv'
  OBVIOUS
<1>0. /\ state \in StateRecord /\ next \in StateRecord /\ loop \in LoopRecord
      /\ credited \in Nat /\ SpeedScale \in Nat \ {0}
  BY LimitsAssumption DEF TypeInv, TypeOK, StateTypeOK, ControlTypeOK
<1>a. /\ state.elapsed \in Nat /\ state.remainder \in Nat /\ state.speed \in Nat
      /\ state.remainder < SpeedScale
      /\ state.elapsed * SpeedScale + state.remainder = credited
  BY StateFields DEF ClockInv, ClockExact
<1>1. ASSUME NEW count \in 0..MaxVessels, BeginSetCount(count) PROVE ClockInv'
  <2>1. next'.remainder = state.remainder /\ UNCHANGED <<state, credited>>
    BY <1>0, <1>1 DEF BeginSetCount, StateRecord
  <2>2. loop'.target = state.elapsed /\ loop'.credit = 0
    BY <1>1 DEF BeginSetCount, NoLoop
  <2>3. state.elapsed * SpeedScale + state.remainder = credited + 0
    BY <1>0, <1>a
  <2> QED BY <1>a, <2>1, <2>2, <2>3 DEF ClockInv, ClockExact, StagedClock
<1>2. ASSUME NEW delta \in VirtualDeltas, BeginAdvance(delta) PROVE ClockInv'
  <2>1. delta \in Nat /\ delta * SpeedScale \in Nat
    BY <1>0, InputsAssumption
  <2> QED BY <1>0, <1>2, <1>a, <2>1, ClockStartAdvance DEF BeginAdvance
<1>3. ASSUME NEW delta \in RealDeltas, BeginElapse(delta) PROVE ClockInv'
  <2> DEFINE scaled == delta * state.speed + state.remainder
             n == [state EXCEPT !.remainder = scaled % SpeedScale]
  <2>1. delta \in Nat /\ delta * state.speed \in Nat
    BY <1>a, InputsAssumption
  <2>2. scaled \in Nat /\ scaled = delta * state.speed + state.remainder
    BY <1>a, <2>1
  <2>3. StartAdvance(n, scaled \div SpeedScale, delta * state.speed)
    BY <1>3 DEF BeginElapse
  <2> HIDE DEF scaled
  <2>4. /\ scaled = SpeedScale * (scaled \div SpeedScale) + (scaled % SpeedScale)
        /\ scaled % SpeedScale < SpeedScale /\ scaled % SpeedScale \in Nat
        /\ scaled \div SpeedScale \in Nat
    BY <1>0, <2>2, DivMod
  <2>5. SpeedScale * (scaled \div SpeedScale) = (scaled \div SpeedScale) * SpeedScale
    BY <1>0, <2>4
  <2>6. /\ n \in StateRecord /\ n.elapsed = state.elapsed
        /\ n.remainder = scaled % SpeedScale
    BY <1>0, <2>4 DEF StateRecord
  <2> HIDE DEF n
  <2>7. (scaled \div SpeedScale) * SpeedScale + n.remainder = delta * state.speed + state.remainder
    BY <2>2, <2>4, <2>5, <2>6
  <2> QED BY <2>1, <2>3, <2>4, <2>6, <2>7, ClockStartAdvance
<1>4. ASSUME NEW speed \in Speeds, SetSpeed(speed) PROVE ClockInv'
  <2>1. state'.elapsed = state.elapsed /\ state'.remainder = state.remainder
    BY <1>0, <1>4 DEF SetSpeed, StateRecord
  <2> QED BY <1>4, <2>1, ClockSame DEF SetSpeed, Idle, Working
<1>5. ASSUME NEW expected \in FirstRevision..MaxRevision, NEW d \in Definitions,
             AddStation(expected, d)
      PROVE  ClockInv'
  <2>1. state'.elapsed = state.elapsed /\ state'.remainder = state.remainder
    BY <1>0, <1>5 DEF AddStation, StateRecord
  <2> QED BY <1>5, <2>1, ClockSame DEF AddStation, Idle, Working
<1>6. ASSUME NEW expected \in FirstRevision..MaxRevision, NEW id \in StationIDs,
             NEW d \in Definitions, UpdateStation(expected, id, d)
      PROVE  ClockInv'
  <2>1. state'.elapsed = state.elapsed /\ state'.remainder = state.remainder
    BY <1>0, <1>6 DEF UpdateStation, StateRecord
  <2> QED BY <1>6, <2>1, ClockSame DEF UpdateStation, Idle, Working
<1>7. ASSUME NEW expected \in FirstRevision..MaxRevision, NEW id \in StationIDs,
             RemoveStation(expected, id)
      PROVE  ClockInv'
  <2>1. state'.elapsed = state.elapsed /\ state'.remainder = state.remainder
    BY <1>0, <1>7 DEF RemoveStation, StateRecord
  <2> QED BY <1>7, <2>1, ClockSame DEF RemoveStation, Idle, Working
<1>8. CASE Spawn \/ TickVessel
  BY <1>8, SendShape, ClockSame
<1>9. CASE TickEnd
  <2>1. next'.remainder = next.remainder /\ loop'.target = loop.target /\ loop'.credit = loop.credit
    BY <1>0, <1>9 DEF TickEnd, StateRecord, LoopRecord
  <2> QED BY <1>9, <2>1, ClockSame DEF TickEnd, Working
<1>10. CASE SpawnFails \/ Cancel \/ ReceiveFails
  BY <1>10, ClockSame DEF SpawnFails, Cancel, ReceiveFails, Drop, Working
<1>11. ASSUME NEW outcome \in Outcomes, Receive(outcome) PROVE ClockInv'
  <2>1. loop'.target = loop.target /\ loop'.credit = loop.credit
    BY <1>0, <1>11 DEF Receive, LoopRecord
  <2> QED BY <1>11, <2>1, ClockSame DEF Receive, Working
<1>12. CASE ReceiveEnd
  <2>1. loop'.target = loop.target /\ loop'.credit = loop.credit
    BY <1>0, <1>12 DEF ReceiveEnd, LoopRecord
  <2> QED BY <1>12, <2>1, ClockSame DEF ReceiveEnd, Working
<1>13. CASE Commit
  <2>1. /\ state'.elapsed = loop.target /\ state'.remainder = next.remainder
        /\ credited' = credited + loop.credit /\ ~Working' /\ Working
    BY <1>0, <1>13 DEF Commit, StateRecord, Working
  <2> QED BY <2>1 DEF ClockInv, ClockExact, StagedClock
<1>14. CASE ApplyRecord
  BY <1>14, ClockSame DEF ApplyRecord, Working
<1>15. CASE Finish
  BY <1>15, ClockSame DEF Finish, Drop, Working
<1>16. CASE UNCHANGED vars
  BY <1>16 DEF vars, ClockInv, ClockExact, StagedClock, Working
<1> QED BY <1>1, <1>2, <1>3, <1>4, <1>5, <1>6, <1>7, <1>8, <1>9, <1>10, <1>11, <1>12,
           <1>13, <1>14, <1>15, <1>16 DEF Next

\* For every speed scale and every mix of Advance, Elapse, speed changes and
\* failed calls, no fraction of virtual time is lost or invented.
THEOREM ClockCorrect == Spec => []ClockExact
<1>1. ClockInv => ClockExact
  BY DEF ClockInv
<1> QED BY <1>1, ClockInit, ClockStep, TypeInvariance, PTL DEF Spec

-----------------------------------------------------------------------------
\* The stations and their histories as the proofs use them.
LEMMA StationFacts ==
  ASSUME TypeInv
  PROVE  /\ Len(state.stations) \in Nat /\ DOMAIN state.stations = 1..Len(state.stations)
         /\ DOMAIN history = StationIDs
         /\ \A i \in DOMAIN state.stations :
              /\ state.stations[i] \in Station /\ state.stations[i].id \in StationIDs
              /\ state.stations[i].id \in Nat
              /\ history[state.stations[i].id] \in Seq(ReceptionRecord)
         /\ \A i, j \in DOMAIN state.stations :
              state.stations[i].id = state.stations[j].id => i = j
<1>1. state.stations \in Seq(Station)
  BY StateFields
<1>2. Len(state.stations) \in Nat /\ DOMAIN state.stations = 1..Len(state.stations)
  BY <1>1, LenProperties
<1>3. ASSUME NEW i \in DOMAIN state.stations
      PROVE  /\ state.stations[i] \in Station /\ state.stations[i].id \in StationIDs
             /\ state.stations[i].id \in Nat
  <2>1. state.stations[i] \in Station
    BY <1>1, <1>2, ElementOfSeq
  <2>2. state.stations[i].id \in Nat
    BY <2>1 DEF Station
  <2> QED BY <2>1, <2>2 DEF StationIDs
<1>4. DOMAIN history = StationIDs
      /\ \A i \in DOMAIN state.stations :
           history[state.stations[i].id] \in Seq(ReceptionRecord)
  BY <1>3 DEF TypeInv, TypeOK, StatsTypeOK
<1>5. ASSUME NEW i \in DOMAIN state.stations, NEW j \in DOMAIN state.stations,
             state.stations[i].id = state.stations[j].id
      PROVE  i = j
  <2>1. ~(i < j) /\ ~(j < i)
    BY <1>3, <1>5 DEF TypeInv, StationIDsOrdered
  <2>2. i \in Nat /\ j \in Nat
    BY <1>2
  <2> QED BY <2>1, <2>2
<1> QED BY <1>2, <1>3, <1>4, <1>5

\* No staged state goes back to an earlier revision.
StagedRevision == Working => next.revision >= state.revision

\* New starts from the revision it stages.
LEMMA RevisionInit == Init => StagedRevision
<1> SUFFICES ASSUME Init PROVE StagedRevision
  OBVIOUS
<1>1. state.revision = FirstRevision /\ next = state
  BY DEF Init
<1> QED BY <1>1 DEF StagedRevision, FirstRevision

\* A station that no edit touches has not advanced.
LEMMA UntouchedAdvance ==
  ASSUME TypeInv, state'.stations = state.stations
  PROVE  StationsAdvance
<1> SUFFICES ASSUME NEW i \in DOMAIN state.stations, NEW j \in DOMAIN state.stations,
                    state.stations[j].id = state.stations[i].id
             PROVE  Advanced(state.stations[i], state.stations[j])
  BY DEF StationsAdvance
<1>1. i = j
  BY StationFacts
<1> QED BY <1>1 DEF Advanced

\* A step that leaves the committed state and the staged revision alone.
LEMMA RevisionSame ==
  ASSUME StagedRevision, TypeInv, state' = state,
         ~Working' \/ (Working /\ next'.revision = next.revision)
  PROVE  StagedRevision' /\ EditStep
<1>1. state.revision \in Nat /\ state.stationRevision \in Nat
  BY StateFields
<1>2. StationIDs' = StationIDs /\ StationsAdvance
  BY UntouchedAdvance DEF StationIDs
<1> QED BY <1>1, <1>2 DEF StagedRevision, EditStep

\* A call that starts from a staged state of the same or the next revision.
LEMMA RevisionBegin ==
  ASSUME TypeInv, state' = state,
         next'.revision = state.revision \/ next'.revision = state.revision + 1
  PROVE  StagedRevision' /\ EditStep
<1>1. state.revision \in Nat /\ state.stationRevision \in Nat
  BY StateFields
<1>2. StationIDs' = StationIDs /\ StationsAdvance
  BY UntouchedAdvance DEF StationIDs
<1> QED BY <1>1, <1>2 DEF StagedRevision, EditStep

\* advance stages the next revision, or the same one when no whole unit passes.
LEMMA RevisionAdvance ==
  ASSUME TypeInv, NEW n \in StateRecord, NEW delta, NEW credit,
         n.revision = state.revision, StartAdvance(n, delta, credit)
  PROVE  StagedRevision' /\ EditStep
<1>1. next'.revision = n.revision \/ next'.revision = n.revision + 1
  BY DEF StartAdvance, StateRecord
<1> QED BY <1>1, RevisionBegin DEF StartAdvance

\* An edit advances the revisions that it has to, and no other.
LEMMA EditedAdvances ==
  ASSUME NEW s \in Station, NEW d
  PROVE  Advanced(s, Edited(s, d))
<1>1. s.configRevision \in Nat /\ s.rfRevision \in Nat
  BY DEF Station
<1>2. CASE RF(d) = RF(s.definition)
  <2>1. Edited(s, d) = [s EXCEPT !.definition = d, !.configRevision = s.configRevision + 1]
    BY <1>2 DEF Edited
  <2> DEFINE e == Edited(s, d)
  <2>2. /\ e.definition = d /\ e.configRevision = s.configRevision + 1
        /\ e.createdAt = s.createdAt
        /\ e.rfRevision = s.rfRevision /\ e.rfUpdatedAt = s.rfUpdatedAt
    BY <2>1 DEF Station
  <2> HIDE DEF e
  <2>3. Advanced(s, e)
    BY <1>1, <1>2, <2>2 DEF Advanced
  <2> QED BY <2>3 DEF e
<1>3. CASE RF(d) # RF(s.definition)
  <2>1. Edited(s, d) = [s EXCEPT !.definition = d, !.configRevision = s.configRevision + 1,
                                 !.rfRevision = s.rfRevision + 1,
                                 !.rfUpdatedAt = state.elapsed, !.coverage = RF(d)]
    BY <1>3 DEF Edited
  <2> DEFINE e == Edited(s, d)
  <2>2. /\ e.definition = d /\ e.configRevision = s.configRevision + 1
        /\ e.createdAt = s.createdAt
        /\ e.rfRevision = s.rfRevision + 1 /\ e.rfUpdatedAt = state.elapsed
    BY <2>1 DEF Station
  <2> HIDE DEF e
  <2>3. Advanced(s, e)
    BY <1>1, <1>3, <2>2 DEF Advanced
  <2> QED BY <2>3 DEF e
<1> QED BY <1>2, <1>3

\* Every step is an advancing one, because no call stages an earlier revision.
LEMMA RevisionStep == TypeInv /\ StagedRevision /\ [Next]_vars => StagedRevision' /\ [EditStep]_vars
<1> SUFFICES ASSUME TypeInv, StagedRevision, [Next]_vars PROVE StagedRevision' /\ [EditStep]_vars
  OBVIOUS
<1>0. /\ state \in StateRecord /\ next \in StateRecord
      /\ state.revision \in Nat /\ state.stationRevision \in Nat /\ state.lastStationID \in Nat
      /\ state.stations \in Seq(Station)
  BY StateFields DEF TypeInv, TypeOK, StateTypeOK, StateRecord
<1>1. ASSUME NEW count \in 0..MaxVessels, BeginSetCount(count)
      PROVE  StagedRevision' /\ EditStep
  <2>1. next'.revision = state.revision + 1 /\ state' = state
    BY <1>0, <1>1 DEF BeginSetCount, StateRecord
  <2> QED BY <2>1, RevisionBegin
<1>2. ASSUME NEW delta \in VirtualDeltas, BeginAdvance(delta)
      PROVE  StagedRevision' /\ EditStep
  BY <1>0, <1>2, RevisionAdvance DEF BeginAdvance
<1>3. ASSUME NEW delta \in RealDeltas, BeginElapse(delta)
      PROVE  StagedRevision' /\ EditStep
  <2> DEFINE scaled == delta * state.speed + state.remainder
             n == [state EXCEPT !.remainder = scaled % SpeedScale]
  <2>1. scaled % SpeedScale \in Nat
    <3>1. delta * state.speed \in Nat /\ state.remainder \in Nat /\ SpeedScale \in Nat \ {0}
      <4>1. delta \in Nat /\ state.speed \in Nat /\ state.remainder \in Nat
        BY StateFields, InputsAssumption
      <4> QED BY <4>1, LimitsAssumption
    <3>2. scaled \in Nat
      BY <3>1
    <3> HIDE DEF scaled
    <3> QED BY <3>1, <3>2, DivMod
  <2>2. StartAdvance(n, scaled \div SpeedScale, delta * state.speed)
    BY <1>3 DEF BeginElapse
  <2> HIDE DEF scaled
  <2>3. n \in StateRecord /\ n.revision = state.revision
    BY <1>0, <2>1 DEF StateRecord
  <2> HIDE DEF n
  <2> QED BY <2>2, <2>3, RevisionAdvance
<1>4. ASSUME NEW speed \in Speeds, SetSpeed(speed)
      PROVE  StagedRevision' /\ EditStep
  <2>1. /\ state'.revision = state.revision + 1 /\ state'.stations = state.stations
        /\ state'.stationRevision = state.stationRevision
    BY <1>0, <1>4 DEF SetSpeed, StateRecord
  <2>2. StationIDs' = StationIDs /\ StationsAdvance
    BY <2>1, UntouchedAdvance DEF StationIDs
  <2> QED BY <1>0, <1>4, <2>1, <2>2 DEF SetSpeed, Idle, EditStep, StagedRevision, Working
<1>5. ASSUME NEW expected \in FirstRevision..MaxRevision, NEW d \in Definitions,
             AddStation(expected, d)
      PROVE  StagedRevision' /\ EditStep
  <2> DEFINE id == state.lastStationID + 1
             s == NewStation(id, d, state.elapsed)
  <2>1. /\ state'.revision = state.revision + 1
        /\ state'.stationRevision = state.stationRevision + 1
        /\ state'.stations = Append(state.stations, s)
    BY <1>0, <1>5 DEF AddStation, NextStationID, StateRecord
  <2>2. s.id = id
    BY DEF NewStation
  <2> HIDE DEF s
  <2>3. ASSUME NEW k \in StationIDs' \ StationIDs PROVE k > state.lastStationID
    <3>1. PICK i \in DOMAIN Append(state.stations, s) : Append(state.stations, s)[i].id = k
      BY <2>1 DEF StationIDs
    <3>2. i \in DOMAIN state.stations => Append(state.stations, s)[i] = state.stations[i]
      BY <1>0
    <3>3. i \notin DOMAIN state.stations
      BY <3>1, <3>2 DEF StationIDs
    <3>4. Append(state.stations, s)[i] = s
      BY <1>0, <3>1, <3>3
    <3>5. k = id
      BY <2>2, <3>1, <3>4
    <3> QED BY <1>0, <3>5
  <2>4. StationsAdvance
    <3> SUFFICES ASSUME NEW i \in DOMAIN state.stations, NEW j \in DOMAIN state'.stations,
                        state'.stations[j].id = state.stations[i].id
                 PROVE  Advanced(state.stations[i], state'.stations[j])
      BY DEF StationsAdvance
    <3>1. CASE j \in DOMAIN state.stations
      <4>1. state'.stations[j] = state.stations[j]
        BY <1>0, <2>1, <3>1
      <4>2. i = j
        BY <4>1, <3>1, StationFacts
      <4> QED BY <4>1, <4>2 DEF Advanced
    <3>2. CASE j \notin DOMAIN state.stations
      <4>1. state'.stations[j] = s
        BY <1>0, <2>1, <3>2
      <4>2. state.stations[i].id <= state.lastStationID /\ state.stations[i].id \in Nat
        BY StationFacts DEF TypeInv, StationIDsOrdered
      <4>3. state.stations[i].id = id
        BY <2>2, <4>1
      <4> QED BY <1>0, <4>2, <4>3
    <3> QED BY <3>1, <3>2
  <2> HIDE DEF id
  <2> QED BY <1>0, <1>5, <2>1, <2>3, <2>4 DEF AddStation, Idle, EditStep, StagedRevision, Working
<1>6. ASSUME NEW expected \in FirstRevision..MaxRevision, NEW id \in StationIDs,
             NEW d \in Definitions, UpdateStation(expected, id, d)
      PROVE  StagedRevision' /\ EditStep
  <2> DEFINE i == StationIndex(id)
             s == state.stations[i]
  <2>1. /\ state'.revision = state.revision + 1
        /\ state'.stationRevision = state.stationRevision + 1
        /\ state'.stations = [state.stations EXCEPT ![i] = Edited(s, d)]
    BY <1>0, <1>6 DEF UpdateStation, StateRecord
  <2>2. i \in DOMAIN state.stations /\ s \in Station
    <3>1. i \in DOMAIN state.stations
      BY StationIndexType
    <3> HIDE DEF i
    <3> QED BY <1>0, <3>1, ElementOfSeq
  <2>3. Edited(s, d).id = s.id
    <3> HIDE DEF s
    <3> QED BY <2>2 DEF Edited, Station
  <2> HIDE DEF i
  <2>4. StationIDs' = StationIDs
    <3>1. /\ DOMAIN state'.stations = DOMAIN state.stations
          /\ \A k \in DOMAIN state.stations : state'.stations[k].id = state.stations[k].id
      <4> HIDE DEF s
      <4>1. state'.stations[i].id = s.id
        BY <2>1, <2>2, <2>3
      <4>2. \A k \in DOMAIN state.stations : k # i => state'.stations[k] = state.stations[k]
        BY <2>1
      <4> QED BY <2>1, <4>1, <4>2 DEF s
    <3> QED BY <3>1 DEF StationIDs
  <2>5. Advanced(s, Edited(s, d))
    <3> HIDE DEF s
    <3> QED BY <2>2, EditedAdvances
  <2>6. StationsAdvance
    <3> SUFFICES ASSUME NEW k \in DOMAIN state.stations, NEW j \in DOMAIN state.stations,
                        state'.stations[j].id = state.stations[k].id
                 PROVE  Advanced(state.stations[k], state'.stations[j])
      BY <2>1 DEF StationsAdvance
    <3>1. CASE j = i
      <4>1. state'.stations[j] = Edited(s, d)
        BY <2>1, <2>2, <3>1
      <4>2. state.stations[k].id = state.stations[i].id
        BY <2>3, <4>1
      <4>3. k = i
        BY <2>2, <4>2, StationFacts
      <4> QED BY <2>5, <4>1, <4>3
    <3>2. CASE j # i
      <4>1. state'.stations[j] = state.stations[j]
        BY <2>1, <3>2
      <4>2. k = j
        BY <4>1, StationFacts
      <4> QED BY <4>1, <4>2 DEF Advanced
    <3> QED BY <3>1, <3>2
  <2> QED BY <1>0, <1>6, <2>1, <2>4, <2>6 DEF UpdateStation, Idle, EditStep, StagedRevision, Working
<1>7. ASSUME NEW expected \in FirstRevision..MaxRevision, NEW id \in StationIDs,
             RemoveStation(expected, id)
      PROVE  StagedRevision' /\ EditStep
  <2>1. /\ state'.revision = state.revision + 1
        /\ state'.stationRevision = state.stationRevision + 1
        /\ state'.stations = RemoveAt(state.stations, StationIndex(id))
    BY <1>0, <1>7 DEF RemoveStation, StateRecord
  <2>2. StationIndex(id) \in DOMAIN state.stations
    BY StationIndexType
  <2>3. \A j \in DOMAIN state'.stations :
          \E k \in DOMAIN state.stations : state'.stations[j] = state.stations[k]
    <3> DEFINE ss == state.stations
               i == StationIndex(id)
               l == Len(ss)
    <3>1. /\ l \in Nat /\ i \in 1..l /\ DOMAIN ss = 1..l
          /\ RemoveAt(ss, i) \in Seq(Station) /\ Len(RemoveAt(ss, i)) = l - 1
          /\ \A k \in 1..(l - 1) : RemoveAt(ss, i)[k] = IF k < i THEN ss[k] ELSE ss[k + 1]
      BY <1>0, <2>2, LenProperties, RemoveAtProperties
    <3> HIDE DEF ss, i, l
    <3>2. DOMAIN RemoveAt(ss, i) = 1..(l - 1)
      BY <3>1, LenProperties
    <3>3. \A j \in DOMAIN RemoveAt(ss, i) : \E k \in DOMAIN ss : RemoveAt(ss, i)[j] = ss[k]
      <4>1. \A j \in 1..(l - 1) : j \in 1..l /\ j + 1 \in 1..l
        BY <3>1
      <4> QED BY <3>1, <3>2, <4>1
    <3> QED BY <2>1, <3>3 DEF ss, i
  <2>4. StationIDs' \subseteq StationIDs
    BY <2>3 DEF StationIDs
  <2>5. StationsAdvance
    <3> SUFFICES ASSUME NEW k \in DOMAIN state.stations, NEW j \in DOMAIN state'.stations,
                        state'.stations[j].id = state.stations[k].id
                 PROVE  Advanced(state.stations[k], state'.stations[j])
      BY DEF StationsAdvance
    <3>1. PICK n \in DOMAIN state.stations : state'.stations[j] = state.stations[n]
      BY <2>3
    <3>2. n = k
      BY <3>1, StationFacts
    <3> QED BY <3>1, <3>2 DEF Advanced
  <2> QED BY <1>0, <1>7, <2>1, <2>4, <2>5 DEF RemoveStation, Idle, EditStep, StagedRevision, Working
<1>8. CASE Spawn \/ TickVessel
  BY <1>8, SendShape, RevisionSame
<1>9. CASE TickEnd
  <2>1. next'.revision = next.revision
    BY <1>0, <1>9 DEF TickEnd, StateRecord
  <2> QED BY <1>9, <2>1, RevisionSame DEF TickEnd, Working
<1>10. CASE SpawnFails \/ Cancel \/ ReceiveFails
  BY <1>10, RevisionSame DEF SpawnFails, Cancel, ReceiveFails, Drop, Working
<1>11. ASSUME NEW outcome \in Outcomes, Receive(outcome) PROVE StagedRevision' /\ EditStep
  BY <1>11, RevisionSame DEF Receive, Working
<1>12. CASE ReceiveEnd
  BY <1>12, RevisionSame DEF ReceiveEnd, Working
<1>13. CASE Commit
  <2>1. Working /\ ~Working' /\ SameStations(next)
    BY <1>13 DEF Commit, Working, TypeInv, StagedShape
  <2>2. /\ state'.revision = next.revision /\ state'.stations = next.stations
        /\ state'.stationRevision = next.stationRevision
    BY <1>0, <1>13 DEF Commit, StateRecord
  <2>3. /\ state'.stations = state.stations /\ state'.stationRevision = state.stationRevision
        /\ state'.revision >= state.revision
    BY <2>1, <2>2 DEF SameStations, StagedRevision
  <2>4. StationIDs' = StationIDs /\ StationsAdvance
    BY <2>3, UntouchedAdvance DEF StationIDs
  <2> QED BY <1>0, <2>1, <2>3, <2>4 DEF StagedRevision, EditStep
<1>14. CASE ApplyRecord
  BY <1>14, RevisionSame DEF ApplyRecord, Working
<1>15. CASE Finish
  BY <1>15, RevisionSame DEF Finish, Drop, Working
<1>16. CASE UNCHANGED vars
  BY <1>16 DEF vars, StagedRevision, Working
<1> QED BY <1>1, <1>2, <1>3, <1>4, <1>5, <1>6, <1>7, <1>8, <1>9, <1>10, <1>11, <1>12,
           <1>13, <1>14, <1>15, <1>16 DEF Next

\* However calls fail or interleave, no step reuses a station ID, changes the
\* stations without a new revision of the set, or takes a revision back, and a
\* station's RF revision and its instant change with its RF configuration only.
THEOREM EditsCorrect == Spec => EditsAdvance
<1> QED BY RevisionInit, RevisionStep, TypeInvariance, PTL DEF Spec, EditsAdvance

-----------------------------------------------------------------------------
(***************************************************************************)
(* Stations and what they received                                         *)
(***************************************************************************)
\* A reception names its station and a transmission, nothing that the station has
\* not reached, and the configuration that it was made under.
Fits(r, s) ==
  /\ r.station = s.id
  /\ 1 <= r.rfRevision /\ r.rfRevision <= s.rfRevision
  /\ 1 <= r.configRevision /\ r.configRevision <= s.configRevision
  /\ 1 <= r.transmission /\ s.createdAt <= r.timestamp
  /\ MadeUnder(r, s)

StationsSound ==
  \A i \in DOMAIN state.stations :
    LET s == state.stations[i]
    IN /\ s.coverage = RF(s.definition)
       /\ 1 <= s.rfRevision /\ s.rfRevision <= s.configRevision
       /\ s.createdAt <= s.rfUpdatedAt /\ s.rfUpdatedAt <= state.elapsed

HistoryFits ==
  \A i \in DOMAIN state.stations : \A k \in DOMAIN history[state.stations[i].id] :
    Fits(history[state.stations[i].id][k], state.stations[i])

\* Nothing has been received after the committed instant.
HistoryDated ==
  \A i \in DOMAIN state.stations : \A k \in DOMAIN history[state.stations[i].id] :
    history[state.stations[i].id][k].timestamp <= state.elapsed

\* Staged receptions fit the committed stations, which no edit can touch meanwhile.
BatchFits ==
  pc # "idle" =>
    \A k \in DOMAIN batch.records :
      /\ batch.records[k].timestamp <= loop.target
      /\ \E i \in DOMAIN state.stations : Fits(batch.records[k], state.stations[i])

\* A call reports no instant before the one it began at and none after the one it
\* ends at, and counts from 1.
ReportsLate ==
  /\ Working => next.elapsed = state.elapsed
  /\ Working /\ loop.kind = "count" => loop.target = state.elapsed
  /\ Working /\ loop.kind # "count" => loop.last * TickInterval <= loop.target
  /\ pc = "apply" => loop.target = state.elapsed
  /\ pc = "spawn" => loop.kind = "count"
  /\ pc = "tick" => loop.kind = "advance"
  /\ Working /\ loop.kind # "count" => loop.tick * TickInterval >= state.elapsed
  /\ pc = "receive" => /\ loop.kind \in {"count", "advance"}
                       /\ Last(reports).timestamp >= state.elapsed
                       /\ Last(reports).timestamp <= loop.target
                       /\ Last(reports).sequence >= 1

CoherentInv == StationsSound /\ HistoryFits /\ HistoryDated /\ BatchFits /\ ReportsLate

\* A reception stays fit through an edit, which comes after it: a new revision is
\* later than the one it carries, and an RF revision that is kept has kept its
\* configuration.
LEMMA FitsEdited ==
  ASSUME NEW s \in Station, NEW r \in ReceptionRecord, NEW d,
         Fits(r, s), r.timestamp <= state.elapsed
  PROVE  Fits(r, Edited(s, d))
<1> DEFINE e == Edited(s, d)
<1>1. /\ s.configRevision \in Nat /\ s.rfRevision \in Nat
      /\ r.configRevision \in Nat /\ r.rfRevision \in Nat
  BY DEF Station, ReceptionRecord
<1>2. /\ r.receiver.enabled
      /\ r.rfRevision = s.rfRevision =>
           /\ s.definition.enabled
           /\ r.channel \in s.definition.channels
           /\ r.receiver.site = s.definition.site
           /\ s.rfUpdatedAt <= r.timestamp
      /\ r.rfRevision < s.rfRevision => r.timestamp <= s.rfUpdatedAt
  BY DEF Fits, MadeUnder
<1>3. /\ r.station = s.id
      /\ 1 <= r.rfRevision /\ r.rfRevision <= s.rfRevision
      /\ 1 <= r.configRevision /\ r.configRevision <= s.configRevision
      /\ 1 <= r.transmission /\ s.createdAt <= r.timestamp
  BY DEF Fits
<1>4. CASE RF(d) = RF(s.definition)
  <2>1. e = [s EXCEPT !.definition = d, !.configRevision = s.configRevision + 1]
    BY <1>4 DEF Edited
  <2>2. /\ e.definition = d /\ e.configRevision = s.configRevision + 1
        /\ e.id = s.id /\ e.createdAt = s.createdAt
        /\ e.rfRevision = s.rfRevision /\ e.rfUpdatedAt = s.rfUpdatedAt
    BY <2>1 DEF Station
  <2>3. /\ d.enabled = s.definition.enabled /\ d.channels = s.definition.channels
        /\ d.site = s.definition.site
    BY <1>4 DEF RF
  <2> HIDE DEF e
  <2>4. e.configRevision # r.configRevision
    BY <1>1, <1>3, <2>2
  <2>5. MadeUnder(r, e)
    BY <1>2, <2>2, <2>3, <2>4 DEF MadeUnder
  <2>6. r.configRevision <= e.configRevision
    BY <1>1, <1>3, <2>2
  <2>7. Fits(r, e)
    BY <1>3, <2>2, <2>5, <2>6 DEF Fits
  <2> QED BY <2>7 DEF e
<1>5. CASE RF(d) # RF(s.definition)
  <2>1. e = [s EXCEPT !.definition = d, !.configRevision = s.configRevision + 1,
                      !.rfRevision = s.rfRevision + 1,
                      !.rfUpdatedAt = state.elapsed, !.coverage = RF(d)]
    BY <1>5 DEF Edited
  <2>2. /\ e.configRevision = s.configRevision + 1
        /\ e.id = s.id /\ e.createdAt = s.createdAt
        /\ e.rfRevision = s.rfRevision + 1 /\ e.rfUpdatedAt = state.elapsed
    BY <2>1 DEF Station
  <2> HIDE DEF e
  <2>3. /\ e.configRevision # r.configRevision /\ e.rfRevision # r.rfRevision
        /\ r.configRevision <= e.configRevision /\ r.rfRevision <= e.rfRevision
    BY <1>1, <1>3, <2>2
  <2>4. MadeUnder(r, e)
    BY <1>2, <2>2, <2>3 DEF MadeUnder
  <2>5. Fits(r, e)
    BY <1>3, <2>2, <2>3, <2>4 DEF Fits
  <2> QED BY <2>5 DEF e
<1> QED BY <1>4, <1>5

\* New stations have computed their coverage and received nothing.
LEMMA CoherentInit == Init => CoherentInv
<1> SUFFICES ASSUME Init PROVE CoherentInv
  OBVIOUS
<1>1. StationsSound
  BY DEF Init, StationsSound, NewStation, FirstRevision
<1>2. HistoryFits /\ HistoryDated
  <2> SUFFICES ASSUME NEW i \in DOMAIN state.stations PROVE history[state.stations[i].id] = <<>>
    BY DEF HistoryFits, HistoryDated
  <2>1. state.stations[i].id = i /\ i \in DOMAIN InitialStations
    BY DEF Init, NewStation
  <2> QED BY <2>1 DEF Init
<1>3. BatchFits
  BY DEF Init, BatchFits, StageReceptions
<1>4. ReportsLate
  BY DEF Init, ReportsLate, NoLoop
<1> QED BY <1>1, <1>2, <1>3, <1>4 DEF CoherentInv

\* A step that leaves stations and histories alone and stages nothing new.
LEMMA CoherentSame ==
  ASSUME CoherentInv, state' = state, history' = history, ReportsLate',
         \/ pc' = "idle"
         \/ batch'.records = <<>>
         \/ pc # "idle" /\ batch'.records = batch.records /\ loop'.target = loop.target
  PROVE  CoherentInv'
<1>1. StationsSound' /\ HistoryFits' /\ HistoryDated'
  BY DEF CoherentInv, StationsSound, HistoryFits, HistoryDated
<1>2. BatchFits'
  BY DEF CoherentInv, BatchFits
<1> QED BY <1>1, <1>2 DEF CoherentInv

\* advance begins with the first tick after the committed instant.
LEMMA CoherentStartAdvance ==
  ASSUME TypeInv, CoherentInv, NEW n \in StateRecord, NEW delta \in Nat, NEW credit,
         n.elapsed = state.elapsed, StartAdvance(n, delta, credit)
  PROVE  CoherentInv'
<1> DEFINE before == state.elapsed \div TickInterval
           after == (state.elapsed + delta) \div TickInterval
<1>1. /\ state' = state /\ history' = history /\ pc' = "tick" /\ batch'.records = <<>>
      /\ next'.elapsed = state.elapsed
      /\ loop'.kind = "advance" /\ loop'.tick = before + 1
      /\ loop'.last = after /\ loop'.target = state.elapsed + delta
  BY DEF StartAdvance, StageReceptions, StateRecord, NoLoop
<1>2. (before + 1) * TickInterval >= state.elapsed
  <2>1. /\ state.elapsed \in Nat /\ TickInterval \in Nat \ {0}
    BY StateFields, LimitsAssumption
  <2>2. /\ state.elapsed = TickInterval * before + (state.elapsed % TickInterval)
        /\ state.elapsed % TickInterval < TickInterval
        /\ state.elapsed % TickInterval \in Nat /\ before \in Nat
    BY <2>1, DivMod
  <2> HIDE DEF before, after
  <2>3. (before + 1) * TickInterval = TickInterval * before + TickInterval
    BY <2>1, <2>2
  <2>4. TickInterval * before \in Nat
    BY <2>1, <2>2
  <2> QED BY <2>1, <2>2, <2>3, <2>4
<1>3. after * TickInterval <= state.elapsed + delta
  <2>0. state.elapsed \in Nat
    BY StateFields
  <2>1. /\ state.elapsed + delta \in Nat /\ TickInterval \in Nat \ {0}
    BY <2>0, LimitsAssumption
  <2>2. /\ state.elapsed + delta =
             TickInterval * after + ((state.elapsed + delta) % TickInterval)
        /\ (state.elapsed + delta) % TickInterval \in Nat /\ after \in Nat
    BY <2>1, DivMod
  <2> HIDE DEF after
  <2>3. after * TickInterval = TickInterval * after
    BY <2>1, <2>2
  <2> QED BY <2>1, <2>2, <2>3
<1> HIDE DEF before, after
<1>4. ReportsLate'
  BY <1>1, <1>2, <1>3 DEF ReportsLate, Working
<1> QED BY <1>1, <1>4, CoherentSame

\* The report that is sent carries the instant of its tick, or of the creation, and
\* the next number.
LEMMA ReportInstant ==
  ASSUME TypeInv, Spawn \/ TickVessel
  PROVE  /\ Last(reports').timestamp =
              IF pc = "spawn" THEN next.elapsed ELSE loop.tick * TickInterval
         /\ Last(reports').sequence = next.sequence + 1
<1>1. reports \in Seq(Message) /\ next \in StateRecord
  BY DEF TypeInv, TypeOK, StateTypeOK
<1>2. CASE Spawn
  <2> DEFINE v == [mmsi |-> next.nextMMSI, updatedAt |-> next.elapsed, reports |-> 0]
             n == [next EXCEPT !.vessels = Append(next.vessels, v),
                               !.nextMMSI = next.nextMMSI + 1]
             w == Emitted(v, n.sequence + 1)
  <2>1. reports' = Append(reports, w.report) /\ pc = "spawn"
    BY <1>2 DEF Spawn, Send
  <2>2. w.report.timestamp = next.elapsed /\ w.report.sequence = next.sequence + 1
    <3>1. n.sequence = next.sequence
      BY <1>1 DEF StateRecord
    <3> HIDE DEF n
    <3> QED BY <3>1 DEF Emitted, Report
  <2>3. Last(reports') = w.report
    BY <1>1, <2>1 DEF Last
  <2> HIDE DEF w
  <2> QED BY <2>1, <2>2, <2>3
<1>3. CASE TickVessel
  <2> DEFINE v == [next.vessels[loop.vessel] EXCEPT !.updatedAt = loop.tick * TickInterval]
             w == Emitted(v, next.sequence + 1)
  <2>1. reports' = Append(reports, w.report) /\ pc = "tick"
    BY <1>3 DEF TickVessel, Send
  <2>2. w.report.timestamp = loop.tick * TickInterval /\ w.report.sequence = next.sequence + 1
    <3>1. next.vessels \in Seq(Vessel) /\ loop.vessel \in 1..Len(next.vessels)
      BY <1>3 DEF TypeInv, TypeOK, StateTypeOK, StateRecord, ControlTypeOK, LoopRecord,
                  StagedShape, TickVessel
    <3>2. next.vessels[loop.vessel] \in Vessel
      BY <3>1, ElementOfSeq
    <3>3. v.updatedAt = loop.tick * TickInterval
      BY <3>2 DEF Vessel
    <3> HIDE DEF v
    <3> QED BY <3>3 DEF Emitted, Report
  <2>3. Last(reports') = w.report
    BY <1>1, <2>1 DEF Last
  <2> HIDE DEF w
  <2> QED BY <2>1, <2>2, <2>3
<1> QED BY <1>2, <1>3

\* Multiplication keeps the order: a later tick is not earlier, nor more vessels less heard.
LEMMA TimesMonotone ==
  ASSUME NEW a \in Nat, NEW b \in Nat, NEW c \in Nat, a <= b
  PROVE  a * c <= b * c /\ a * c \in Nat
<1>1. (b - a) * c >= 0
  OBVIOUS
<1>2. (b - a) * c = b * c - a * c
  OBVIOUS
<1> QED BY <1>1, <1>2

\* A report is sent at or after the instant at which its call began.
LEMMA CoherentSend ==
  ASSUME TypeInv, CoherentInv, Spawn \/ TickVessel
  PROVE  CoherentInv'
<1>1. /\ Working /\ pc' = "receive" /\ next'.elapsed = next.elapsed /\ state' = state
      /\ pc \in {"spawn", "tick"}
  BY SendShape DEF Working, Spawn, TickVessel
<1>2. /\ history' = history /\ batch' = batch
      /\ loop'.kind = loop.kind /\ loop'.tick = loop.tick
      /\ loop'.last = loop.last /\ loop'.target = loop.target
  BY DEF Spawn, TickVessel, Send, TypeInv, TypeOK, ControlTypeOK, LoopRecord
<1>3. /\ Last(reports').timestamp >= state.elapsed /\ Last(reports').sequence >= 1
      /\ Last(reports').timestamp <= loop.target
  <2>1. /\ state.elapsed \in Nat /\ next.sequence \in Nat
        /\ loop.tick \in Nat /\ loop.last \in Nat /\ loop.target \in Nat
    BY StateFields DEF TypeInv, TypeOK, StateTypeOK, StateRecord, ControlTypeOK, LoopRecord
  <2>2. CASE pc = "spawn"
    BY <1>1, <2>1, <2>2, ReportInstant DEF CoherentInv, ReportsLate
  <2>3. CASE pc = "tick"
    <3>1. /\ Last(reports').timestamp = loop.tick * TickInterval
          /\ Last(reports').sequence = next.sequence + 1
          /\ loop.tick * TickInterval >= state.elapsed
          /\ loop.last * TickInterval <= loop.target
      BY <1>1, <2>3, ReportInstant DEF CoherentInv, ReportsLate
    <3>2. loop.tick <= loop.last
      BY <2>3 DEF Spawn, TickVessel
    <3>3. loop.tick * TickInterval <= loop.last * TickInterval
      BY <2>1, <3>2, LimitsAssumption, TimesMonotone
    <3>4. loop.tick * TickInterval \in Nat /\ loop.last * TickInterval \in Nat
      BY <2>1, LimitsAssumption
    <3>5. loop.tick * TickInterval <= loop.target
      BY <2>1, <3>1, <3>3, <3>4
    <3> QED BY <2>1, <3>1, <3>5
  <2> QED BY <1>1, <2>2, <2>3
<1>4. ReportsLate'
  BY <1>1, <1>2, <1>3 DEF CoherentInv, ReportsLate, Working
<1> QED BY <1>1, <1>2, <1>4, CoherentSame

\* The receiver that an open channel shows.
LEMMA ReceiverFields ==
  ASSUME NEW d, NEW channel \in d.channels
  PROVE  Receiver(d, channel).enabled /\ Receiver(d, channel).site = d.site
<1> DEFINE x == Receiver(d, channel)
<1>1. x = [name |-> d.name, site |-> d.site, enabled |-> channel \in d.channels]
  BY DEF Receiver
<1> HIDE DEF x
<1>2. x.site = d.site
  BY <1>1
<1>3. x.enabled = (channel \in d.channels)
  BY <1>1, Zenon
<1>4. x.enabled
  BY <1>3
<1> QED BY <1>2, <1>4 DEF x

\* One opportunity: the staged record is of the station as committed.
LEMMA CoherentReceive ==
  ASSUME TypeInv, CoherentInv, NEW outcome \in Outcomes, Receive(outcome)
  PROVE  CoherentInv'
<1> DEFINE i == loop.station
           t == Last(reports)
           q == Count(batch.stats[i], outcome, t.channel, t.timestamp \div TickInterval).lastReception
           r == Reception(next.stations[i], q, t)
<1>1. /\ pc = "receive" /\ pc' = pc /\ UNCHANGED <<state, history, next, reports>>
      /\ Working /\ i <= Len(next.stations)
  BY DEF Receive, Working
<1>2. i \in DOMAIN state.stations /\ next.stations = state.stations
  <2>1. loop \in LoopRecord /\ next.stations = state.stations /\ i >= 1
    BY <1>1 DEF TypeInv, TypeOK, ControlTypeOK, StagedShape, SameStations
  <2>2. i \in Nat
    BY <2>1 DEF LoopRecord
  <2> QED BY <1>1, <2>1, <2>2, StationFacts
<1>3. batch \in BatchRecord /\ batch.records \in Seq(ReceptionRecord)
  BY DEF TypeInv, TypeOK, BatchTypeOK, BatchRecord
<1>4. \/ batch'.records = batch.records
      \/ batch'.records = Append(batch.records, r) /\ outcome = "received"
  BY <1>3 DEF Receive, BatchRecord
<1>5. /\ loop'.kind = loop.kind /\ loop'.tick = loop.tick
      /\ loop'.last = loop.last /\ loop'.target = loop.target
  BY DEF Receive, TypeInv, TypeOK, ControlTypeOK, LoopRecord
<1>6. ReportsLate'
  BY <1>1, <1>5 DEF CoherentInv, ReportsLate, Working
<1>7. CASE batch'.records = batch.records
  BY <1>1, <1>5, <1>6, <1>7, CoherentSame
<1>8. CASE batch'.records = Append(batch.records, r) /\ outcome = "received"
  <2>1. Fits(r, state.stations[i]) /\ r.timestamp <= loop.target
    <3> DEFINE s == state.stations[i]
    <3>0. s.definition.enabled /\ t.channel \in s.definition.channels
      <4>1. "received" \in Decide(s.definition, t.channel)
        BY <1>2, <1>8 DEF Receive
      <4> HIDE DEF s, t
      <4> QED BY <4>1 DEF Decide
    <3>1. s \in Station /\ s.createdAt <= state.elapsed /\ s.rfUpdatedAt <= state.elapsed
          /\ 1 <= s.rfRevision /\ s.rfRevision <= s.configRevision
      <4>1. /\ s \in Station /\ 1 <= s.rfRevision /\ s.rfRevision <= s.configRevision /\ s.createdAt <= s.rfUpdatedAt /\ s.rfUpdatedAt <= state.elapsed
        BY <1>2, StationFacts DEF CoherentInv, StationsSound
      <4>2. state.elapsed \in Nat
        BY StateFields
      <4> HIDE DEF s
      <4>3. s.createdAt \in Nat /\ s.rfUpdatedAt \in Nat
        BY <4>1 DEF Station
      <4> QED BY <4>1, <4>2, <4>3
    <3>2. t.timestamp >= state.elapsed /\ t.timestamp \in Nat /\ state.elapsed \in Nat
          /\ t.sequence >= 1 /\ t.sequence \in Nat /\ t.timestamp <= loop.target
      <4>1. reports \in Seq(Message) /\ reports # <<>>
        BY <1>1 DEF TypeInv, TypeOK, StateTypeOK, StagedShape
      <4>2. t \in Message
        BY <4>1 DEF Last
      <4> HIDE DEF t
      <4>3. t.timestamp \in Nat /\ t.sequence \in Nat
        BY <4>2 DEF Message
      <4> QED BY <1>1, <4>3, StateFields DEF CoherentInv, ReportsLate, t
    <3> HIDE DEF t, q
    <3>3. /\ r.station = s.id /\ r.rfRevision = s.rfRevision
          /\ r.configRevision = s.configRevision /\ r.timestamp = t.timestamp
          /\ r.transmission = t.sequence /\ r.channel = t.channel
          /\ r.receiver = Receiver(s.definition, t.channel)
      <4>1. r = Reception(s, q, t)
        BY <1>2
      <4> HIDE DEF r, s
      <4> QED BY <4>1 DEF Reception
    <3> HIDE DEF r, s
    <3>4. /\ s.createdAt \in Nat /\ s.rfRevision \in Nat /\ s.configRevision \in Nat
          /\ s.rfUpdatedAt \in Nat
      BY <3>1 DEF Station
    <3>5. r.receiver.enabled /\ r.receiver.site = s.definition.site
      BY <3>0, <3>3, ReceiverFields
    <3>6. s.rfUpdatedAt <= r.timestamp /\ ~(r.rfRevision < s.rfRevision)
      BY <3>1, <3>2, <3>3, <3>4
    <3>7. MadeUnder(r, s)
      BY <3>0, <3>3, <3>5, <3>6 DEF MadeUnder
    <3>8. Fits(r, s)
      BY <3>1, <3>2, <3>3, <3>4, <3>7 DEF Fits
    <3> QED BY <3>2, <3>3, <3>8 DEF s
  <2> HIDE DEF r, i
  <2>2. ASSUME NEW k \in DOMAIN batch'.records
        PROVE  \/ batch'.records[k] = r
               \/ k \in DOMAIN batch.records /\ batch'.records[k] = batch.records[k]
    <3> DEFINE T == ReceptionRecord \cup {r}
               b == batch.records
               a == Append(b, r)
    <3>1. b \in Seq(T) /\ r \in T /\ Len(b) \in Nat /\ DOMAIN b = 1..Len(b)
      BY <1>3, SeqMonotonic, LenProperties
    <3> HIDE DEF T, b
    <3>2. /\ a \in Seq(T) /\ Len(a) = Len(b) + 1
          /\ \A n \in 1..Len(b) : a[n] = b[n]
          /\ a[Len(b) + 1] = r
      BY <3>1, AppendProperties
    <3> HIDE DEF a
    <3>3. k \in 1..(Len(b) + 1)
      BY <1>8, <3>2, LenProperties DEF a, b
    <3>4. k = Len(b) + 1 \/ k \in 1..Len(b)
      BY <3>1, <3>3
    <3>5. a[k] = r \/ (k \in DOMAIN b /\ a[k] = b[k])
      BY <3>1, <3>2, <3>4
    <3> QED BY <1>8, <3>5 DEF a, b
  <2>3. BatchFits'
    <3> SUFFICES ASSUME NEW k \in DOMAIN batch'.records
                 PROVE  /\ batch'.records[k].timestamp <= loop.target
                        /\ \E j \in DOMAIN state.stations :
                             Fits(batch'.records[k], state.stations[j])
      BY <1>1, <1>5 DEF BatchFits
    <3>1. CASE batch'.records[k] = r
      BY <1>2, <2>1, <3>1
    <3>2. CASE k \in DOMAIN batch.records /\ batch'.records[k] = batch.records[k]
      BY <1>1, <3>2 DEF CoherentInv, BatchFits
    <3> QED BY <2>2, <3>1, <3>2
  <2>4. StationsSound' /\ HistoryFits' /\ HistoryDated'
    BY <1>1 DEF CoherentInv, StationsSound, HistoryFits, HistoryDated
  <2> QED BY <1>6, <2>3, <2>4 DEF CoherentInv
<1> QED BY <1>4, <1>7, <1>8

\* commit publishes a later instant and the same stations.
LEMMA CoherentCommit ==
  ASSUME TypeInv, ClockInv, CoherentInv, Commit
  PROVE  CoherentInv'
<1>1. /\ Working /\ pc # "idle" /\ pc' = "apply" /\ ~Working'
      /\ history' = history /\ batch' = batch /\ loop' = loop
  BY DEF Commit, Working
<1>2. next \in StateRecord /\ loop \in LoopRecord /\ next.stations = state.stations
  BY <1>1 DEF TypeInv, TypeOK, StateTypeOK, ControlTypeOK, StagedShape, SameStations
<1>3. state'.stations = state.stations /\ state'.elapsed = loop.target
  BY <1>2 DEF Commit, StateRecord
<1>4. loop.target \in Nat /\ state.elapsed \in Nat /\ loop.target >= state.elapsed
  BY <1>1, <1>2, StateFields DEF ClockInv, StagedClock, LoopRecord
<1>5. StationsSound'
  <2> SUFFICES ASSUME NEW i \in DOMAIN state.stations
               PROVE  state.stations[i].rfUpdatedAt <= loop.target
    BY <1>3 DEF CoherentInv, StationsSound
  <2> DEFINE s == state.stations[i]
  <2>1. s \in Station /\ s.rfUpdatedAt <= state.elapsed
    BY StationFacts DEF CoherentInv, StationsSound
  <2> HIDE DEF s
  <2>2. s.rfUpdatedAt \in Nat
    BY <2>1 DEF Station
  <2>3. s.rfUpdatedAt <= loop.target
    BY <1>4, <2>1, <2>2
  <2> QED BY <2>3 DEF s
<1>6. HistoryFits' /\ BatchFits'
  BY <1>1, <1>3 DEF CoherentInv, HistoryFits, BatchFits
<1>7. ReportsLate'
  BY <1>1, <1>3 DEF ReportsLate
<1>8. HistoryDated'
  <2> SUFFICES ASSUME NEW i \in DOMAIN state.stations,
                      NEW k \in DOMAIN history[state.stations[i].id]
               PROVE  history[state.stations[i].id][k].timestamp <= loop.target
    BY <1>1, <1>3 DEF HistoryDated
  <2> DEFINE r == history[state.stations[i].id][k]
  <2>1. r.timestamp <= state.elapsed
    BY DEF CoherentInv, HistoryDated
  <2>2. r \in ReceptionRecord
    BY StationFacts, ElementOfSeq, LenProperties
  <2> HIDE DEF r
  <2>3. r.timestamp \in Nat
    BY <2>2 DEF ReceptionRecord
  <2>4. r.timestamp <= loop.target
    BY <1>4, <2>1, <2>3
  <2> QED BY <2>4 DEF r
<1> QED BY <1>5, <1>6, <1>7, <1>8 DEF CoherentInv

\* What a full ring holds after a push was there before, or was pushed.
LEMMA PushElements ==
  ASSUME NEW S, NEW h \in Seq(S), NEW r \in S, NEW k \in DOMAIN Push(h, r)
  PROVE  Push(h, r)[k] = r \/ \E j \in DOMAIN h : Push(h, r)[k] = h[j]
<1>0. Len(h) \in Nat /\ DOMAIN h = 1..Len(h)
  BY LenProperties
<1>1. CASE Len(h) < ReceptionHistoryLimit
  BY <1>0, <1>1, AppendProperties DEF Push
<1>2. CASE ~(Len(h) < ReceptionHistoryLimit)
  <2> DEFINE tl == Tail(h)
  <2>1. h # <<>> /\ Push(h, r) = Append(tl, r)
    BY SMTT(30), <1>2, LimitsAssumption DEF Push
  <2>2. /\ tl \in Seq(S) /\ Len(tl) = Len(h) - 1
        /\ \A j \in 1..Len(tl) : tl[j] = h[j + 1]
    BY <2>1, HeadTailProperties
  <2> HIDE DEF tl
  <2>3. CASE k \in 1..Len(tl)
    <3>1. Append(tl, r)[k] = tl[k]
      BY <2>2, <2>3, AppendProperties
    <3>2. k + 1 \in DOMAIN h
      BY <1>0, <2>2, <2>3
    <3> QED BY <2>1, <2>2, <2>3, <3>1, <3>2
  <2>4. CASE k \notin 1..Len(tl)
    <3>1. k \in 1..(Len(tl) + 1) /\ Len(tl) \in Nat
      BY <2>1, <2>2, AppendProperties, LenProperties
    <3>2. k = Len(tl) + 1
      BY <2>4, <3>1
    <3> QED BY <2>1, <2>2, <3>2, AppendProperties
  <2> QED BY <2>3, <2>4
<1> QED BY <1>1, <1>2

\* A staged record goes to the history of the only station that it fits.
LEMMA CoherentApply ==
  ASSUME TypeInv, CoherentInv, ApplyRecord
  PROVE  CoherentInv'
<1> DEFINE r == batch.records[loop.applied + 1]
<1>1. /\ pc = "apply" /\ pc' = "apply" /\ UNCHANGED <<state, next, reports, batch>>
      /\ loop'.target = loop.target
      /\ history' = [history EXCEPT ![r.station] = Push(history[r.station], r)]
  BY DEF ApplyRecord, TypeInv, TypeOK, ControlTypeOK, LoopRecord
<1>2. loop.applied + 1 \in DOMAIN batch.records /\ batch.records \in Seq(ReceptionRecord)
  <2>1. batch.records \in Seq(ReceptionRecord) /\ loop.applied \in Nat
    BY DEF TypeInv, TypeOK, BatchTypeOK, ControlTypeOK, LoopRecord
  <2>2. loop.applied < Len(batch.records)
    BY DEF ApplyRecord
  <2> QED BY <2>1, <2>2
<1>3. r \in ReceptionRecord
  BY <1>2, LenProperties, ElementOfSeq
<1>4. PICK i \in DOMAIN state.stations : Fits(r, state.stations[i])
  BY <1>1, <1>2 DEF CoherentInv, BatchFits
<1>8. r.timestamp <= state.elapsed
  BY <1>1, <1>2 DEF CoherentInv, BatchFits, ReportsLate
<1> HIDE DEF r
<1>5. r.station = state.stations[i].id
  BY <1>4 DEF Fits
<1>6. HistoryFits' /\ HistoryDated'
  <2> SUFFICES ASSUME NEW j \in DOMAIN state.stations,
                      NEW k \in DOMAIN history'[state.stations[j].id]
               PROVE  /\ Fits(history'[state.stations[j].id][k], state.stations[j])
                      /\ history'[state.stations[j].id][k].timestamp <= state.elapsed
    BY <1>1 DEF HistoryFits, HistoryDated
  <2> DEFINE id == state.stations[j].id
  <2>1. /\ id \in DOMAIN history /\ history[id] \in Seq(ReceptionRecord)
        /\ \A n \in DOMAIN history[id] :
             Fits(history[id][n], state.stations[j]) /\ history[id][n].timestamp <= state.elapsed
    BY StationFacts DEF CoherentInv, HistoryFits, HistoryDated
  <2>2. CASE id = r.station
    <3>1. i = j
      BY <1>5, <2>2, StationFacts
    <3>2. history'[id] = Push(history[id], r)
      BY <1>1, <2>1, <2>2
    <3> HIDE DEF id
    <3>3. history'[id][k] = r \/ \E n \in DOMAIN history[id] : history'[id][k] = history[id][n]
      BY <1>3, <2>1, <3>2, PushElements DEF id
    <3> QED BY <1>4, <1>8, <2>1, <3>1, <3>3 DEF id
  <2>3. CASE id # r.station
    <3>1. history'[id] = history[id]
      BY <1>1, <2>1, <2>3
    <3> QED BY <2>1, <3>1
  <2> QED BY <2>2, <2>3
<1>7. StationsSound' /\ BatchFits' /\ ReportsLate'
  BY <1>1 DEF CoherentInv, StationsSound, BatchFits, ReportsLate, Working
<1> QED BY <1>6, <1>7 DEF CoherentInv

\* An edit between calls: what the stations keep is all there is to show.
LEMMA CoherentEdit ==
  ASSUME Idle, pc' = pc, StationsSound', HistoryFits', HistoryDated'
  PROVE  CoherentInv'
BY DEF Idle, Working, BatchFits, ReportsLate, CoherentInv

\* A new station starts at the committed instant with an empty history.
LEMMA CoherentAdd ==
  ASSUME TypeInv, CoherentInv, NEW expected, NEW d, AddStation(expected, d)
  PROVE  CoherentInv'
<1> DEFINE id == state.lastStationID + 1
           s == NewStation(id, d, state.elapsed)
           ss == state.stations
           new == Append(ss, s)
<1>0. state \in StateRecord /\ state.elapsed \in Nat /\ state.lastStationID \in Nat
  BY StateFields
<1>1. /\ state'.stations = new /\ state'.elapsed = state.elapsed
      /\ history' = [k \in DOMAIN history \cup {id} |-> IF k = id THEN <<>> ELSE history[k]]
      /\ Idle /\ pc' = pc
  BY <1>0 DEF AddStation, NextStationID, StateRecord
<1>2. /\ s.id = id /\ s.coverage = RF(s.definition)
      /\ 1 <= s.rfRevision /\ s.rfRevision <= s.configRevision
      /\ s.createdAt <= s.rfUpdatedAt /\ s.rfUpdatedAt <= state.elapsed
  BY <1>0 DEF NewStation, FirstRevision
<1> HIDE DEF s
<1>3. ASSUME NEW i \in DOMAIN new
      PROVE  new[i] = s \/ (i \in DOMAIN ss /\ new[i] = ss[i])
  <2> DEFINE T == Station \cup {s}
  <2>1. ss \in Seq(T) /\ s \in T /\ Len(ss) \in Nat /\ DOMAIN ss = 1..Len(ss)
    BY StateFields, SeqMonotonic, LenProperties
  <2> HIDE DEF T, ss
  <2>2. /\ new \in Seq(T) /\ Len(new) = Len(ss) + 1
        /\ \A n \in 1..Len(ss) : new[n] = ss[n]
        /\ new[Len(ss) + 1] = s
    BY <2>1, AppendProperties
  <2> HIDE DEF new
  <2>3. i \in 1..(Len(ss) + 1)
    BY <2>2, LenProperties
  <2>4. i = Len(ss) + 1 \/ i \in 1..Len(ss)
    BY <2>1, <2>3
  <2> QED BY <2>1, <2>2, <2>4
<1> HIDE DEF new
<1>4. ASSUME NEW i \in DOMAIN ss
      PROVE  history'[ss[i].id] = history[ss[i].id]
  <2>1. ss[i].id \in DOMAIN history /\ ss[i].id \in Nat
    BY StationFacts
  <2>2. ss[i].id # id
    BY <1>0, <2>1 DEF TypeInv, StationIDsOrdered
  <2> HIDE DEF ss, id
  <2> QED BY <1>1, <2>1, <2>2
<1>5. history'[id] = <<>>
  BY <1>1
<1> HIDE DEF ss, id
<1>6. StationsSound'
  <2> SUFFICES ASSUME NEW i \in DOMAIN new
               PROVE  LET x == new[i]
                      IN /\ x.coverage = RF(x.definition)
                         /\ 1 <= x.rfRevision /\ x.rfRevision <= x.configRevision
                         /\ x.createdAt <= x.rfUpdatedAt /\ x.rfUpdatedAt <= state.elapsed
    BY <1>1 DEF StationsSound
  <2>1. CASE new[i] = s
    BY <1>2, <2>1
  <2>2. CASE i \in DOMAIN ss /\ new[i] = ss[i]
    BY <2>2 DEF CoherentInv, StationsSound, ss
  <2> QED BY <1>3, <2>1, <2>2
<1>7. HistoryFits' /\ HistoryDated'
  <2> SUFFICES ASSUME NEW i \in DOMAIN new
               PROVE  \A k \in DOMAIN history'[new[i].id] :
                        /\ Fits(history'[new[i].id][k], new[i])
                        /\ history'[new[i].id][k].timestamp <= state.elapsed
    BY <1>1 DEF HistoryFits, HistoryDated
  <2>1. CASE new[i] = s
    <3>1. history'[new[i].id] = <<>>
      BY <1>2, <1>5, <2>1
    <3> QED BY <3>1
  <2>2. CASE i \in DOMAIN ss /\ new[i] = ss[i]
    BY <1>4, <2>2 DEF CoherentInv, HistoryFits, HistoryDated, ss
  <2> QED BY <1>3, <2>1, <2>2
<1> QED BY <1>1, <1>6, <1>7, CoherentEdit

\* An edit keeps the identity of the station and takes no revision back.
LEMMA CoherentUpdate ==
  ASSUME TypeInv, CoherentInv, NEW expected, NEW id \in StationIDs, NEW d \in Definitions,
         UpdateStation(expected, id, d)
  PROVE  CoherentInv'
<1> DEFINE i == StationIndex(id)
           s == state.stations[i]
           e == Edited(s, d)
<1>1. /\ state'.stations = [state.stations EXCEPT ![i] = e] /\ state'.elapsed = state.elapsed
      /\ history' = history /\ Idle /\ pc' = pc
  BY StateFields DEF UpdateStation, StateRecord
<1>2. i \in DOMAIN state.stations /\ s \in Station
  <2>1. i \in DOMAIN state.stations
    BY StationIndexType
  <2> HIDE DEF i
  <2> QED BY <2>1, StationFacts
<1>3. /\ s.coverage = RF(s.definition)
      /\ 1 <= s.rfRevision /\ s.rfRevision <= s.configRevision
      /\ s.createdAt <= s.rfUpdatedAt /\ s.rfUpdatedAt <= state.elapsed
  <2> HIDE DEF i
  <2> QED BY <1>2 DEF CoherentInv, StationsSound
<1> HIDE DEF i, s
<1>4. /\ s.rfRevision \in Nat /\ s.configRevision \in Nat /\ s.createdAt \in Nat
      /\ s.rfUpdatedAt \in Nat /\ state.elapsed \in Nat
  BY <1>2, StateFields DEF Station
<1>5. /\ e.id = s.id /\ e.createdAt = s.createdAt
      /\ e.coverage = RF(e.definition)
      /\ 1 <= e.rfRevision /\ e.rfRevision <= e.configRevision
      /\ e.createdAt <= e.rfUpdatedAt /\ e.rfUpdatedAt <= state.elapsed
      /\ s.rfRevision <= e.rfRevision /\ s.configRevision <= e.configRevision
      /\ e.rfRevision \in Nat /\ e.configRevision \in Nat
  <2>1. CASE RF(d) = RF(s.definition)
    <3>1. e = [s EXCEPT !.definition = d, !.configRevision = @ + 1]
      BY <2>1 DEF Edited
    <3> QED BY <1>2, <1>3, <1>4, <2>1, <3>1 DEF Station
  <2>2. CASE RF(d) # RF(s.definition)
    <3>1. e = [s EXCEPT !.definition = d, !.configRevision = @ + 1, !.rfRevision = @ + 1,
                        !.rfUpdatedAt = state.elapsed, !.coverage = RF(d)]
      BY <2>2 DEF Edited
    <3> QED BY <1>2, <1>3, <1>4, <3>1 DEF Station
  <2> QED BY <2>1, <2>2
<1>9. ASSUME NEW r \in ReceptionRecord, Fits(r, s), r.timestamp <= state.elapsed
      PROVE  Fits(r, e)
  BY <1>2, <1>9, FitsEdited
<1> HIDE DEF e
<1>6. /\ DOMAIN state'.stations = DOMAIN state.stations
      /\ state'.stations[i] = e
      /\ \A j \in DOMAIN state.stations : j # i => state'.stations[j] = state.stations[j]
  BY <1>1, <1>2
<1>7. StationsSound'
  BY <1>1, <1>5, <1>6 DEF CoherentInv, StationsSound
<1>8. HistoryFits' /\ HistoryDated'
  <2> SUFFICES ASSUME NEW j \in DOMAIN state.stations,
                      NEW k \in DOMAIN history[state'.stations[j].id]
               PROVE  /\ Fits(history[state'.stations[j].id][k], state'.stations[j])
                      /\ history[state'.stations[j].id][k].timestamp <= state.elapsed
    BY <1>1, <1>6 DEF HistoryFits, HistoryDated
  <2>1. CASE j # i
    BY <1>6, <2>1 DEF CoherentInv, HistoryFits, HistoryDated
  <2>2. CASE j = i
    <3> DEFINE r == history[s.id][k]
    <3>1. k \in DOMAIN history[s.id] /\ state'.stations[j] = e
      BY <1>5, <1>6, <2>2
    <3>2. Fits(r, s) /\ r.timestamp <= state.elapsed
      BY <1>2, <3>1 DEF CoherentInv, HistoryFits, HistoryDated, s
    <3>3. r \in ReceptionRecord
      <4>1. history[s.id] \in Seq(ReceptionRecord)
        BY <1>2, StationFacts DEF s
      <4>2. DOMAIN history[s.id] = 1..Len(history[s.id])
        BY <4>1, LenProperties
      <4> QED BY <3>1, <4>1, <4>2, ElementOfSeq
    <3> HIDE DEF r
    <3>4. Fits(r, e)
      BY <1>9, <3>2, <3>3
    <3> QED BY <1>5, <3>1, <3>2, <3>4 DEF r
  <2> QED BY <2>1, <2>2
<1> QED BY <1>1, <1>7, <1>8, CoherentEdit

\* Removing a station leaves the others and their histories as they are.
LEMMA CoherentRemove ==
  ASSUME TypeInv, CoherentInv, NEW expected, NEW id \in StationIDs,
         RemoveStation(expected, id)
  PROVE  CoherentInv'
<1> DEFINE ss == state.stations
           i == StationIndex(id)
           rs == RemoveAt(ss, i)
           l == Len(ss)
<1>1. /\ state'.stations = rs /\ state'.elapsed = state.elapsed
      /\ history' = Without(history, id) /\ Idle /\ pc' = pc
  BY StateFields DEF RemoveStation, StateRecord
<1>2. i \in DOMAIN ss /\ ss[i].id = id
  BY StationIndexType
<1>3. ASSUME NEW j \in DOMAIN rs
      PROVE  \E k \in DOMAIN ss : k # i /\ rs[j] = ss[k]
  <2>1. /\ l \in Nat /\ i \in 1..l /\ DOMAIN ss = 1..l
        /\ rs \in Seq(Station) /\ Len(rs) = l - 1
        /\ \A k \in 1..(l - 1) : rs[k] = IF k < i THEN ss[k] ELSE ss[k + 1]
    <3>1. ss \in Seq(Station) /\ l \in Nat /\ DOMAIN ss = 1..l
      BY StateFields, LenProperties
    <3>2. i \in 1..l
      BY <1>2, <3>1
    <3> HIDE DEF ss, i
    <3> QED BY <3>1, <3>2, RemoveAtProperties
  <2> HIDE DEF ss, i, l, rs
  <2>2. j \in 1..(l - 1)
    BY <2>1, LenProperties
  <2>3. CASE j < i
    <3>1. j \in DOMAIN ss /\ rs[j] = ss[j] /\ j # i
      BY <2>1, <2>2, <2>3
    <3> QED BY <3>1
  <2>4. CASE ~(j < i)
    <3>1. j + 1 \in DOMAIN ss /\ rs[j] = ss[j + 1] /\ j + 1 # i
      BY <2>1, <2>2, <2>4
    <3> QED BY <3>1
  <2> QED BY SMTT(30), <2>3, <2>4
<1> HIDE DEF rs, i
<1>4. ASSUME NEW k \in DOMAIN ss, k # i
      PROVE  history'[ss[k].id] = history[ss[k].id]
  <2>1. ss[k].id # id /\ ss[k].id \in DOMAIN history
    BY <1>2, <1>4, StationFacts
  <2> HIDE DEF ss
  <2> QED BY <1>1, <2>1 DEF Without
<1>5. StationsSound'
  BY <1>1, <1>3 DEF CoherentInv, StationsSound
<1>6. HistoryFits'
  BY <1>1, <1>3, <1>4 DEF CoherentInv, HistoryFits
<1>7. HistoryDated'
  BY <1>1, <1>3, <1>4 DEF CoherentInv, HistoryDated
<1> QED BY <1>1, <1>5, <1>6, <1>7, CoherentEdit

\* Every step keeps what the stations know coherent with what they received.
LEMMA CoherentStep == TypeInv /\ ClockInv /\ CoherentInv /\ [Next]_vars => CoherentInv'
<1> SUFFICES ASSUME TypeInv, ClockInv, CoherentInv, [Next]_vars PROVE CoherentInv'
  OBVIOUS
<1>0. /\ state \in StateRecord /\ next \in StateRecord /\ loop \in LoopRecord
      /\ batch \in BatchRecord
  BY DEF TypeInv, TypeOK, StateTypeOK, ControlTypeOK, BatchTypeOK, BatchRecord
<1>1. ASSUME NEW count \in 0..MaxVessels, BeginSetCount(count) PROVE CoherentInv'
  <2>1. /\ state' = state /\ history' = history /\ pc' = "spawn" /\ batch'.records = <<>>
        /\ next'.elapsed = state.elapsed /\ loop'.kind = "count"
        /\ loop'.target = state.elapsed
    BY <1>0, <1>1 DEF BeginSetCount, StageReceptions, StateRecord, NoLoop
  <2>2. ReportsLate'
    BY <2>1 DEF ReportsLate, Working
  <2> QED BY <2>1, <2>2, CoherentSame
<1>2. ASSUME NEW delta \in VirtualDeltas, BeginAdvance(delta) PROVE CoherentInv'
  BY <1>0, <1>2, CoherentStartAdvance, InputsAssumption DEF BeginAdvance
<1>3. ASSUME NEW delta \in RealDeltas, BeginElapse(delta) PROVE CoherentInv'
  <2> DEFINE scaled == delta * state.speed + state.remainder
             n == [state EXCEPT !.remainder = scaled % SpeedScale]
  <2>1. scaled % SpeedScale \in Nat /\ scaled \div SpeedScale \in Nat
    <3>1. delta * state.speed \in Nat /\ state.remainder \in Nat /\ SpeedScale \in Nat \ {0}
      <4>1. delta \in Nat /\ state.speed \in Nat /\ state.remainder \in Nat
        BY StateFields, InputsAssumption
      <4> QED BY <4>1, LimitsAssumption
    <3>2. scaled \in Nat
      BY <3>1
    <3> HIDE DEF scaled
    <3> QED BY <3>1, <3>2, DivMod
  <2>2. StartAdvance(n, scaled \div SpeedScale, delta * state.speed)
    BY <1>3 DEF BeginElapse
  <2> HIDE DEF scaled
  <2>3. n \in StateRecord /\ n.elapsed = state.elapsed
    BY <1>0, <2>1 DEF StateRecord
  <2> HIDE DEF n
  <2> QED BY <2>1, <2>2, <2>3, CoherentStartAdvance
<1>4. ASSUME NEW speed \in Speeds, SetSpeed(speed) PROVE CoherentInv'
  <2>1. /\ state'.stations = state.stations /\ state'.elapsed = state.elapsed
        /\ history' = history /\ Idle /\ pc' = pc
    BY <1>0, <1>4 DEF SetSpeed, StateRecord
  <2>2. StationsSound' /\ HistoryFits' /\ HistoryDated'
    BY <2>1 DEF CoherentInv, StationsSound, HistoryFits, HistoryDated
  <2> QED BY <2>1, <2>2, CoherentEdit
<1>5. ASSUME NEW expected \in FirstRevision..MaxRevision, NEW d \in Definitions,
             AddStation(expected, d)
      PROVE  CoherentInv'
  BY <1>5, CoherentAdd
<1>6. ASSUME NEW expected \in FirstRevision..MaxRevision, NEW id \in StationIDs,
             NEW d \in Definitions, UpdateStation(expected, id, d)
      PROVE  CoherentInv'
  BY <1>6, CoherentUpdate
<1>7. ASSUME NEW expected \in FirstRevision..MaxRevision, NEW id \in StationIDs,
             RemoveStation(expected, id)
      PROVE  CoherentInv'
  BY <1>7, CoherentRemove
<1>8. CASE Spawn \/ TickVessel
  BY <1>8, CoherentSend
<1>9. CASE TickEnd
  <2>1. /\ next'.elapsed = next.elapsed /\ loop'.kind = loop.kind /\ loop'.tick = loop.tick + 1
        /\ loop'.last = loop.last /\ loop'.target = loop.target
        /\ UNCHANGED <<state, history, batch, pc>> /\ pc = "tick"
    BY <1>0, <1>9 DEF TickEnd, StateRecord, LoopRecord
  <2>2. /\ loop.tick \in Nat /\ TickInterval \in Nat \ {0} /\ state.elapsed \in Nat
        /\ loop.kind = "advance" /\ loop.tick * TickInterval >= state.elapsed
    BY <1>0, <2>1, StateFields, LimitsAssumption DEF LoopRecord, CoherentInv, ReportsLate, Working
  <2>3. loop'.tick * TickInterval >= state.elapsed
    <3>1. (loop.tick + 1) * TickInterval = loop.tick * TickInterval + TickInterval
      BY <2>2
    <3>2. loop.tick * TickInterval \in Nat
      BY <2>2
    <3> QED BY <2>1, <2>2, <3>1, <3>2
  <2>4. ReportsLate'
    BY <2>1, <2>2, <2>3 DEF CoherentInv, ReportsLate, Working
  <2> QED BY <2>1, <2>4, CoherentSame
<1>10. CASE SpawnFails \/ Cancel \/ ReceiveFails
  <2>1. state' = state /\ history' = history /\ pc' = "idle"
    BY <1>10 DEF SpawnFails, Cancel, ReceiveFails, Drop
  <2> QED BY <2>1, CoherentSame DEF ReportsLate, Working
<1>11. ASSUME NEW outcome \in Outcomes, Receive(outcome) PROVE CoherentInv'
  BY <1>11, CoherentReceive
<1>12. CASE ReceiveEnd
  <2>1. /\ UNCHANGED <<state, history, next>> /\ batch'.records = batch.records
        /\ loop'.kind = loop.kind /\ loop'.tick = loop.tick
        /\ loop'.last = loop.last /\ loop'.target = loop.target
        /\ pc = "receive" /\ pc' = IF loop.kind = "count" THEN "spawn" ELSE "tick"
    BY <1>0, <1>12 DEF ReceiveEnd, LoopRecord, BatchRecord
  <2>2. ReportsLate'
    BY <2>1 DEF CoherentInv, ReportsLate, Working
  <2> QED BY <2>1, <2>2, CoherentSame
<1>13. CASE Commit
  BY <1>13, CoherentCommit
<1>14. CASE ApplyRecord
  BY <1>14, CoherentApply
<1>15. CASE Finish
  <2>1. state' = state /\ history' = history /\ pc' = "idle"
    BY <1>15 DEF Finish, Drop
  <2> QED BY <2>1, CoherentSame DEF ReportsLate, Working
<1>16. CASE UNCHANGED vars
  <2>1. UNCHANGED <<state, history, pc, next, reports, batch, loop>>
    BY <1>16 DEF vars
  <2> QED BY <2>1 DEF CoherentInv, StationsSound, HistoryFits, HistoryDated, BatchFits,
                      ReportsLate, Working
<1> QED BY <1>1, <1>2, <1>3, <1>4, <1>5, <1>6, <1>7, <1>8, <1>9, <1>10, <1>11, <1>12,
           <1>13, <1>14, <1>15, <1>16 DEF Next

\* For every configuration and every history of edits and calls, no station shows
\* a cached coverage, revision or instant of another configuration, and no
\* reception names a revision or an instant that its station has not reached, or
\* another configuration than the one it was made under.
THEOREM CoherentCorrect == Spec => []StationsCoherent
<1>1. TypeInv /\ CoherentInv => StationsCoherent
  BY DEF TypeInv, StationIDsOrdered, CoherentInv, StationsSound, HistoryFits, Fits,
         StationsCoherent
<1> QED BY <1>1, ClockInit, ClockStep, CoherentInit, CoherentStep, TypeInvariance, PTL DEF Spec

-----------------------------------------------------------------------------
(***************************************************************************)
(* The fleet as the reports show it                                        *)
(***************************************************************************)
\* ChannelsAlternate, of any sequence of reports.
Alternates(s) ==
  \A i, j \in DOMAIN s :
    /\ i < j
    /\ s[i].mmsi = s[j].mmsi
    /\ \A k \in (i + 1)..(j - 1) : s[k].mmsi # s[i].mmsi
    => s[i].channel # s[j].channel

\* The k-th of the reports is the last one that a vessel sent.
LastOf(k, mmsi, s) ==
  k \in DOMAIN s /\ s[k].mmsi = mmsi /\ \A j \in DOMAIN s : j > k => s[j].mmsi # mmsi

\* The next report of a vessel changes the channel of its last one.
NextAlternates(v, s) == \A k \in DOMAIN s : LastOf(k, v.mmsi, s) => s[k].channel # Channel(v)

\* The report that a vessel shows is the report that was sent under its number.
ShowsReport(v, s) ==
  /\ v.report.timestamp = v.updatedAt
  /\ 1 <= v.report.sequence
  /\ \A k \in DOMAIN s : s[k].sequence = v.report.sequence => s[k] = v.report

\* Fleet vs with reports s: nextMMSI is mmsi, and sequence is q.
FleetSound(vs, mmsi, q, s) ==
  /\ \A k \in DOMAIN s : s[k].mmsi < mmsi /\ s[k].sequence <= q
  /\ Alternates(s)
  /\ \A i \in DOMAIN vs :
       /\ vs[i].mmsi < mmsi /\ vs[i].report.sequence <= q
       /\ NextAlternates(vs[i], s) /\ ShowsReport(vs[i], s)
  /\ \A i, j \in DOMAIN vs : vs[i].mmsi = vs[j].mmsi => i = j

FleetInv ==
  /\ FleetSound(state.vessels, state.nextMMSI, state.sequence, messages)
  /\ Working => FleetSound(next.vessels, next.nextMMSI, next.sequence, messages \o reports)

\* Counting a report changes the channel of the next one.
LEMMA ChannelFlips ==
  ASSUME NEW v, v.mmsi \in Nat, v.reports \in Nat, NEW w, w.mmsi = v.mmsi,
         w.reports = v.reports + 1
  PROVE  Channel(w) # Channel(v)
<1>1. (v.mmsi + v.reports) % 2 = 0 => (v.mmsi + (v.reports + 1)) % 2 # 0
  OBVIOUS
<1>2. (v.mmsi + v.reports) % 2 # 0 => (v.mmsi + (v.reports + 1)) % 2 = 0
  OBVIOUS
<1> QED BY <1>1, <1>2 DEF Channel

\* The newest reports alternate, and say of a vessel what all of them say.
LEMMA SuffixSound ==
  ASSUME NEW s \in Seq(Message), NEW t \in Seq(Message), Len(t) <= Len(s),
         \A i \in 1..Len(t) : t[i] = s[Len(s) - Len(t) + i],
         NEW vs, NEW mmsi, NEW q, FleetSound(vs, mmsi, q, s)
  PROVE  FleetSound(vs, mmsi, q, t)
<1> DEFINE d == Len(s) - Len(t)
<1>1. /\ Len(s) \in Nat /\ Len(t) \in Nat /\ d \in Nat
      /\ DOMAIN s = 1..Len(s) /\ DOMAIN t = 1..Len(t)
  BY LenProperties
<1>2. ASSUME NEW i \in DOMAIN t PROVE d + i \in DOMAIN s /\ t[i] = s[d + i]
  BY <1>1
<1>3. ASSUME NEW j \in DOMAIN s, j > d PROVE j - d \in DOMAIN t /\ t[j - d] = s[j]
  <2>1. j - d \in DOMAIN t /\ d + (j - d) = j
    BY <1>1, <1>3
  <2> QED BY <1>2, <2>1
<1>4. Alternates(t)
  <2> SUFFICES ASSUME NEW i \in DOMAIN t, NEW j \in DOMAIN t, i < j, t[i].mmsi = t[j].mmsi,
                      \A k \in (i + 1)..(j - 1) : t[k].mmsi # t[i].mmsi
               PROVE  t[i].channel # t[j].channel
    BY DEF Alternates
  <2> DEFINE a == d + i
             b == d + j
  <2>1. /\ a \in DOMAIN s /\ b \in DOMAIN s /\ a < b /\ t[i] = s[a] /\ t[j] = s[b]
    BY <1>1, <1>2
  <2>2. ASSUME NEW k \in (a + 1)..(b - 1) PROVE s[k].mmsi # s[a].mmsi
    <3>1. k \in DOMAIN s /\ k > d /\ k - d \in (i + 1)..(j - 1)
      BY <1>1
    <3>2. t[k - d] = s[k]
      BY <1>3, <3>1
    <3> QED BY <2>1, <3>1, <3>2
  <2> HIDE DEF a, b, d
  <2>3. s[a].mmsi = s[b].mmsi
    BY <2>1
  <2>4. Alternates(s)
    BY DEF FleetSound
  <2>5. s[a].channel # s[b].channel
    BY <2>1, <2>2, <2>3, <2>4 DEF Alternates
  <2> QED BY <2>1, <2>5
<1>5. ASSUME NEW v, NextAlternates(v, s) PROVE NextAlternates(v, t)
  <2> SUFFICES ASSUME NEW k \in DOMAIN t, LastOf(k, v.mmsi, t) PROVE t[k].channel # Channel(v)
    BY DEF NextAlternates
  <2>1. d + k \in DOMAIN s /\ t[k] = s[d + k]
    BY <1>2
  <2>2. ASSUME NEW j \in DOMAIN s, j > d + k PROVE s[j].mmsi # v.mmsi
    <3>1. j > d /\ j - d > k
      BY <1>1, <2>2
    <3>2. j - d \in DOMAIN t /\ t[j - d] = s[j]
      BY <1>3, <3>1
    <3> QED BY <3>1, <3>2 DEF LastOf
  <2>3. LastOf(d + k, v.mmsi, s)
    BY <2>1, <2>2 DEF LastOf
  <2> QED BY <1>5, <2>1, <2>3 DEF NextAlternates
<1>6. ASSUME NEW v, ShowsReport(v, s) PROVE ShowsReport(v, t)
  BY <1>2, <1>6 DEF ShowsReport
<1> HIDE DEF d
<1> QED BY <1>2, <1>4, <1>5, <1>6 DEF FleetSound

\* One more report, of vessel v or of a vessel that is created.
LEMMA OneMoreReport ==
  ASSUME NEW s \in Seq(Message), Alternates(s), NEW q \in Nat,
         \A k \in DOMAIN s : s[k].sequence <= q,
         NEW v, v.mmsi \in Nat, v.updatedAt \in Nat, v.reports \in Nat,
         NextAlternates(v, s)
  PROVE  LET w == Emitted(v, q + 1)
             t == Append(s, w.report)
         IN /\ w \in Vessel /\ w.mmsi = v.mmsi /\ w.updatedAt = v.updatedAt
            /\ w.report \in Message /\ w.report.mmsi = v.mmsi /\ w.report.sequence = q + 1
            /\ Alternates(t) /\ NextAlternates(w, t) /\ ShowsReport(w, t)
            /\ \A u \in Vessel :
                 /\ u.mmsi # v.mmsi /\ u.report.sequence <= q
                 /\ NextAlternates(u, s) /\ ShowsReport(u, s)
                 => NextAlternates(u, t) /\ ShowsReport(u, t)
<1> DEFINE w == Emitted(v, q + 1)
           m == w.report
           t == Append(s, m)
           l == Len(s)
<1>1. /\ w \in Vessel /\ m \in Message /\ m.sequence = q + 1
  BY EmittedType
<1>2. /\ w.mmsi = v.mmsi /\ w.updatedAt = v.updatedAt /\ w.reports = v.reports + 1
      /\ m.mmsi = v.mmsi /\ m.channel = Channel(v) /\ m.timestamp = v.updatedAt
  BY DEF Emitted, Report
<1> HIDE DEF w, m
<1>3. /\ l \in Nat /\ DOMAIN s = 1..l /\ DOMAIN t = 1..(l + 1)
      /\ t \in Seq(Message) /\ t[l + 1] = m /\ \A k \in 1..l : t[k] = s[k]
  BY <1>1, LenProperties, AppendProperties
<1> HIDE DEF t, l
<1>4. Alternates(t)
  <2> SUFFICES ASSUME NEW i \in DOMAIN t, NEW j \in DOMAIN t, i < j, t[i].mmsi = t[j].mmsi,
                      \A k \in (i + 1)..(j - 1) : t[k].mmsi # t[i].mmsi
               PROVE  t[i].channel # t[j].channel
    BY DEF Alternates
  <2>1. i \in 1..l /\ t[i] = s[i]
    BY <1>3
  <2>2. CASE j \in 1..l
    <3>1. \A k \in (i + 1)..(j - 1) : s[k].mmsi # s[i].mmsi
      BY <1>3, <2>1, <2>2
    <3>2. s[i].mmsi = s[j].mmsi
      BY <1>3, <2>1, <2>2
    <3>3. s[i].channel # s[j].channel
      BY <1>3, <2>1, <2>2, <3>1, <3>2 DEF Alternates
    <3> QED BY <1>3, <2>1, <2>2, <3>3
  <2>3. CASE j = l + 1
    <3>1. s[i].mmsi = v.mmsi
      BY <1>2, <1>3, <2>1, <2>3
    <3>2. ASSUME NEW k \in DOMAIN s, k > i PROVE s[k].mmsi # v.mmsi
      <4>1. k \in (i + 1)..(j - 1)
        BY <1>3, <2>3, <3>2
      <4> QED BY <1>3, <2>1, <3>1, <4>1
    <3>3. LastOf(i, v.mmsi, s)
      BY <1>3, <2>1, <3>1, <3>2 DEF LastOf
    <3> QED BY <1>2, <1>3, <2>1, <2>3, <3>3 DEF NextAlternates
  <2> QED BY <1>3, <2>2, <2>3
<1>5. NextAlternates(w, t)
  <2> SUFFICES ASSUME NEW k \in DOMAIN t, LastOf(k, w.mmsi, t) PROVE t[k].channel # Channel(w)
    BY DEF NextAlternates
  <2>1. k = l + 1
    <3> SUFFICES ASSUME k # l + 1 PROVE FALSE
      OBVIOUS
    <3>1. l + 1 \in DOMAIN t /\ l + 1 > k
      BY <1>3
    <3> QED BY <1>2, <1>3, <3>1 DEF LastOf
  <2>2. Channel(w) # Channel(v)
    BY <1>2, ChannelFlips
  <2> QED BY <1>2, <1>3, <2>1, <2>2
<1>6. ShowsReport(w, t)
  <2>1. w.report = m
    BY DEF m
  <2>2. ASSUME NEW k \in DOMAIN t, t[k].sequence = q + 1 PROVE t[k] = m
    <3>1. CASE k \in 1..l
      <4>1. s[k] \in Message
        BY <1>3, <3>1, ElementOfSeq DEF l
      <4>2. s[k].sequence \in Nat /\ s[k].sequence <= q /\ s[k].sequence = q + 1
        BY <1>3, <2>2, <3>1, <4>1 DEF Message
      <4> QED BY <4>2
    <3>2. CASE k = l + 1
      BY <1>3, <3>2
    <3> QED BY <1>3, <3>1, <3>2
  <2> QED BY <1>1, <1>2, <2>1, <2>2 DEF ShowsReport
<1>7. ASSUME NEW u \in Vessel, u.mmsi # v.mmsi, u.report.sequence <= q,
             NextAlternates(u, s), ShowsReport(u, s)
      PROVE  NextAlternates(u, t) /\ ShowsReport(u, t)
  <2>1. ASSUME NEW k \in DOMAIN t, LastOf(k, u.mmsi, t) PROVE t[k].channel # Channel(u)
    <3>1. k \in 1..l /\ t[k] = s[k]
      BY <1>2, <1>3, <1>7, <2>1 DEF LastOf
    <3>2. ASSUME NEW j \in DOMAIN s, j > k PROVE s[j].mmsi # u.mmsi
      <4>1. j \in DOMAIN t /\ t[j] = s[j]
        BY <1>3
      <4> QED BY <2>1, <3>2, <4>1 DEF LastOf
    <3>3. LastOf(k, u.mmsi, s)
      BY <1>3, <2>1, <3>1, <3>2 DEF LastOf
    <3> QED BY <1>3, <1>7, <3>1, <3>3 DEF NextAlternates
  <2>2. ASSUME NEW k \in DOMAIN t, t[k].sequence = u.report.sequence PROVE t[k] = u.report
    <3>1. u.report.sequence \in Nat
      BY DEF Vessel, Message
    <3>2. k \in 1..l
      BY <1>1, <1>3, <1>7, <2>2, <3>1
    <3> QED BY <1>3, <1>7, <2>2, <3>2 DEF ShowsReport
  <2> QED BY <1>7, <2>1, <2>2 DEF NextAlternates, ShowsReport
<1>8. w = Emitted(v, q + 1) /\ m = w.report /\ t = Append(s, m)
  BY DEF w, m, t
<1>9. \A u \in Vessel :
        /\ u.mmsi # v.mmsi /\ u.report.sequence <= q
        /\ NextAlternates(u, s) /\ ShowsReport(u, s)
        => NextAlternates(u, t) /\ ShowsReport(u, t)
  BY <1>7
<1> QED BY <1>1, <1>2, <1>4, <1>5, <1>6, <1>8, <1>9, Zenon

\* The next report, appended to the staged reports, is appended to all of them.
LEMMA ReportAppended ==
  ASSUME TypeInv, NEW m \in Message, reports' = Append(reports, m), messages' = messages
  PROVE  /\ messages \o reports \in Seq(Message)
         /\ (messages \o reports)' = Append(messages \o reports, m)
<1>1. messages \in Seq(Message) /\ reports \in Seq(Message)
  BY DEF TypeInv, TypeOK, StateTypeOK
<1>2. /\ Len(messages) \in Nat /\ Len(reports) \in Nat
      /\ messages \o reports \in Seq(Message)
      /\ Len(messages \o reports) = Len(messages) + Len(reports)
      /\ \A i \in 1..(Len(messages) + Len(reports)) :
           (messages \o reports)[i] =
             IF i <= Len(messages) THEN messages[i] ELSE reports[i - Len(messages)]
  BY <1>1, ConcatProperties, LenProperties
<1>3. /\ Append(reports, m) \in Seq(Message) /\ Len(Append(reports, m)) = Len(reports) + 1
      /\ Append(reports, m)[Len(reports) + 1] = m
      /\ \A i \in 1..Len(reports) : Append(reports, m)[i] = reports[i]
  BY <1>1, AppendProperties
<1> DEFINE more == Append(reports, m)
           s == messages \o more
           all == messages \o reports
           t == Append(all, m)
<1>4. /\ s \in Seq(Message) /\ Len(s) = Len(messages) + (Len(reports) + 1)
      /\ \A i \in 1..(Len(messages) + (Len(reports) + 1)) :
           s[i] = IF i <= Len(messages) THEN messages[i] ELSE more[i - Len(messages)]
  BY <1>1, <1>3, ConcatProperties
<1>5. /\ t \in Seq(Message) /\ Len(t) = (Len(messages) + Len(reports)) + 1
      /\ t[(Len(messages) + Len(reports)) + 1] = m
      /\ \A i \in 1..(Len(messages) + Len(reports)) : t[i] = all[i]
  BY <1>2, AppendProperties
<1>6. Len(s) = Len(t)
  BY <1>2, <1>4, <1>5
<1> DEFINE a == Len(messages)
           b == Len(reports)
<1> HIDE DEF s, t, more, all, a, b
<1>7. ASSUME NEW i \in 1..Len(s) PROVE s[i] = t[i]
  <2>1. /\ a \in Nat /\ b \in Nat /\ Len(s) = a + (b + 1)
    BY <1>2, <1>4 DEF a, b
  <2>2. /\ \A k \in 1..(a + (b + 1)) : s[k] = IF k <= a THEN messages[k] ELSE more[k - a]
        /\ t[(a + b) + 1] = m /\ \A k \in 1..(a + b) : t[k] = all[k]
        /\ \A k \in 1..(a + b) : all[k] = IF k <= a THEN messages[k] ELSE reports[k - a]
        /\ more[b + 1] = m /\ \A k \in 1..b : more[k] = reports[k]
    BY <1>2, <1>3, <1>4, <1>5 DEF a, b, more, all
  <2>3. CASE i <= a
    BY <2>1, <2>2, <2>3
  <2>4. CASE i > a /\ i <= a + b
    <3>1. i - a \in 1..b
      BY <2>1, <2>4
    <3> QED BY <2>1, <2>2, <2>4, <3>1
  <2>5. CASE i = (a + b) + 1
    <3>1. i - a = b + 1 /\ ~(i <= a)
      BY <2>1, <2>5
    <3> QED BY <2>1, <2>2, <2>5, <3>1
  <2> QED BY <2>1, <2>3, <2>4, <2>5
<1>8. s = t
  BY <1>4, <1>5, <1>6, <1>7, SeqEqual
<1> QED BY <1>2, <1>8 DEF s, t, more, all

\* A fleet of one more vessel, which has sent one report.
LEMMA FleetGrows ==
  ASSUME NEW s \in Seq(Message), NEW vs \in Seq(Vessel), NEW mmsi \in Nat, NEW q \in Nat,
         FleetSound(vs, mmsi, q, s),
         NEW v, v.mmsi = mmsi, v.updatedAt \in Nat, v.reports \in Nat
  PROVE  LET w == Emitted(v, q + 1)
         IN FleetSound(Append(vs, w), mmsi + 1, q + 1, Append(s, w.report))
<1> DEFINE w == Emitted(v, q + 1)
           m == w.report
           t == Append(s, m)
           us == Append(vs, w)
           l == Len(vs)
<1>0. v.mmsi \in Nat
  OBVIOUS
<1>1. /\ Alternates(s) /\ \A k \in DOMAIN s : s[k].mmsi < mmsi /\ s[k].sequence <= q
      /\ \A i \in DOMAIN vs : /\ vs[i].mmsi < mmsi /\ vs[i].report.sequence <= q
                              /\ NextAlternates(vs[i], s) /\ ShowsReport(vs[i], s)
      /\ \A i, j \in DOMAIN vs : vs[i].mmsi = vs[j].mmsi => i = j
  BY DEF FleetSound
<1>2. \A k \in DOMAIN s : s[k] \in Message /\ s[k].mmsi \in Nat /\ s[k].sequence \in Nat
  <2> SUFFICES ASSUME NEW k \in DOMAIN s PROVE s[k] \in Message
    BY DEF Message
  <2> QED BY LenProperties, ElementOfSeq
<1>3. NextAlternates(v, s)
  <2>1. \A k \in DOMAIN s : s[k].mmsi # v.mmsi
    BY <1>1, <1>2
  <2> QED BY <2>1 DEF NextAlternates, LastOf
<1>4. /\ w \in Vessel /\ w.mmsi = mmsi /\ m \in Message /\ m.mmsi = mmsi /\ m.sequence = q + 1
      /\ Alternates(t) /\ NextAlternates(w, t) /\ ShowsReport(w, t)
      /\ \A u \in Vessel :
           /\ u.mmsi # v.mmsi /\ u.report.sequence <= q
           /\ NextAlternates(u, s) /\ ShowsReport(u, s)
           => NextAlternates(u, t) /\ ShowsReport(u, t)
  BY <1>0, <1>1, <1>3, OneMoreReport
<1>5. w.report = m
  OBVIOUS
<1>6. /\ l \in Nat /\ DOMAIN vs = 1..l /\ DOMAIN us = 1..(l + 1) /\ us[l + 1] = w
      /\ \A i \in 1..l : us[i] = vs[i] /\ vs[i] \in Vessel
      /\ Len(s) \in Nat /\ DOMAIN s = 1..Len(s) /\ DOMAIN t = 1..(Len(s) + 1)
      /\ t[Len(s) + 1] = m /\ \A k \in 1..Len(s) : t[k] = s[k]
  <2> HIDE DEF w, m
  <2> QED BY <1>4, LenProperties, AppendProperties, ElementOfSeq
<1> HIDE DEF w, m, t, us, l
<1>7. ASSUME NEW k \in DOMAIN t PROVE t[k].mmsi < mmsi + 1 /\ t[k].sequence <= q + 1
  <2>1. CASE k \in 1..Len(s)
    BY <1>1, <1>2, <1>6, <2>1
  <2>2. CASE k = Len(s) + 1
    BY <1>4, <1>6, <2>2
  <2> QED BY <1>6, <2>1, <2>2
<1>8. \A i \in 1..l : vs[i].mmsi \in Nat /\ vs[i].report.sequence \in Nat
  BY <1>6 DEF Vessel, Message
<1>9. ASSUME NEW i \in DOMAIN us
      PROVE  /\ us[i].mmsi < mmsi + 1 /\ us[i].report.sequence <= q + 1
             /\ NextAlternates(us[i], t) /\ ShowsReport(us[i], t)
  <2>1. CASE i \in 1..l
    <3>1. /\ us[i] \in Vessel /\ us[i].mmsi < mmsi /\ us[i].report.sequence <= q
          /\ us[i].mmsi \in Nat /\ us[i].report.sequence \in Nat
          /\ NextAlternates(us[i], s) /\ ShowsReport(us[i], s)
      BY <1>1, <1>6, <1>8, <2>1
    <3>2. us[i].mmsi # v.mmsi
      BY <3>1
    <3>3. NextAlternates(us[i], t) /\ ShowsReport(us[i], t)
      BY <1>4, <3>1, <3>2
    <3> QED BY <3>1, <3>3
  <2>2. CASE i = l + 1
    <3>1. w.mmsi < mmsi + 1 /\ w.report.sequence <= q + 1
      BY <1>4, <1>5
    <3> QED BY <1>4, <1>6, <2>2, <3>1
  <2> QED BY <1>6, <2>1, <2>2
<1>10. ASSUME NEW i \in DOMAIN us, NEW j \in DOMAIN us, us[i].mmsi = us[j].mmsi PROVE i = j
  <2>1. CASE i \in 1..l /\ j \in 1..l
    BY <1>1, <1>6, <1>10, <2>1
  <2>2. CASE i = l + 1 /\ j \in 1..l
    BY <1>1, <1>4, <1>6, <1>8, <1>10, <2>2
  <2>3. CASE i \in 1..l /\ j = l + 1
    BY <1>1, <1>4, <1>6, <1>8, <1>10, <2>3
  <2> QED BY <1>6, <2>1, <2>2, <2>3
<1>11. FleetSound(us, mmsi + 1, q + 1, t)
  BY <1>4, <1>7, <1>9, <1>10 DEF FleetSound
<1> QED BY <1>11 DEF us, t, m, w

\* A fleet whose i-th vessel has sent one more report.
LEMMA FleetReports ==
  ASSUME NEW s \in Seq(Message), NEW vs \in Seq(Vessel), NEW mmsi \in Nat, NEW q \in Nat,
         FleetSound(vs, mmsi, q, s), NEW i \in 1..Len(vs),
         NEW v, v.mmsi = vs[i].mmsi, v.updatedAt \in Nat, v.reports = vs[i].reports
  PROVE  LET w == Emitted(v, q + 1)
         IN FleetSound([vs EXCEPT ![i] = w], mmsi, q + 1, Append(s, w.report))
<1> DEFINE w == Emitted(v, q + 1)
           m == w.report
           t == Append(s, m)
           us == [vs EXCEPT ![i] = w]
           l == Len(vs)
<1>1. /\ Alternates(s) /\ \A k \in DOMAIN s : s[k].mmsi < mmsi /\ s[k].sequence <= q
      /\ \A j \in DOMAIN vs : /\ vs[j].mmsi < mmsi /\ vs[j].report.sequence <= q
                              /\ NextAlternates(vs[j], s) /\ ShowsReport(vs[j], s)
      /\ \A j, k \in DOMAIN vs : vs[j].mmsi = vs[k].mmsi => j = k
  BY DEF FleetSound
<1>2. \A k \in DOMAIN s : s[k] \in Message /\ s[k].mmsi \in Nat /\ s[k].sequence \in Nat
  <2> SUFFICES ASSUME NEW k \in DOMAIN s PROVE s[k] \in Message
    BY DEF Message
  <2> QED BY LenProperties, ElementOfSeq
<1>3. l \in Nat /\ DOMAIN vs = 1..l /\ \A j \in 1..l : vs[j] \in Vessel
  BY LenProperties, ElementOfSeq
<1>4. \A j \in 1..l : /\ vs[j].mmsi \in Nat /\ vs[j].reports \in Nat
                      /\ vs[j].report.sequence \in Nat
  BY <1>3 DEF Vessel, Message
<1>5. v.mmsi \in Nat /\ v.reports \in Nat /\ v.mmsi < mmsi /\ NextAlternates(v, s)
  <2>1. Channel(v) = Channel(vs[i])
    BY DEF Channel
  <2>2. NextAlternates(vs[i], s) /\ vs[i].mmsi < mmsi
    BY <1>1, <1>3
  <2> QED BY <1>4, <2>1, <2>2 DEF NextAlternates
<1>6. /\ w \in Vessel /\ w.mmsi = v.mmsi /\ m \in Message /\ m.mmsi = v.mmsi
      /\ m.sequence = q + 1
      /\ Alternates(t) /\ NextAlternates(w, t) /\ ShowsReport(w, t)
      /\ \A u \in Vessel :
           /\ u.mmsi # v.mmsi /\ u.report.sequence <= q
           /\ NextAlternates(u, s) /\ ShowsReport(u, s)
           => NextAlternates(u, t) /\ ShowsReport(u, t)
  BY <1>1, <1>5, OneMoreReport
<1>7. w.report = m
  OBVIOUS
<1>8. /\ DOMAIN us = 1..l /\ us[i] = w /\ \A j \in 1..l : j # i => us[j] = vs[j]
      /\ Len(s) \in Nat /\ DOMAIN s = 1..Len(s) /\ DOMAIN t = 1..(Len(s) + 1)
      /\ t[Len(s) + 1] = m /\ \A k \in 1..Len(s) : t[k] = s[k]
  <2> HIDE DEF w, m
  <2> QED BY <1>3, <1>6, LenProperties, AppendProperties
<1> HIDE DEF w, m, t, us, l
<1>9. ASSUME NEW k \in DOMAIN t PROVE t[k].mmsi < mmsi /\ t[k].sequence <= q + 1
  <2>1. CASE k \in 1..Len(s)
    BY <1>1, <1>2, <1>8, <2>1
  <2>2. CASE k = Len(s) + 1
    BY <1>5, <1>6, <1>8, <2>2
  <2> QED BY <1>8, <2>1, <2>2
<1>10. ASSUME NEW j \in DOMAIN us
       PROVE  /\ us[j].mmsi < mmsi /\ us[j].report.sequence <= q + 1
              /\ us[j].mmsi = vs[j].mmsi
              /\ NextAlternates(us[j], t) /\ ShowsReport(us[j], t)
  <2>0. i \in 1..l
    BY DEF l
  <2>1. CASE j # i
    <3>1. /\ us[j] = vs[j] /\ us[j] \in Vessel /\ us[j].mmsi < mmsi /\ us[j].report.sequence <= q
          /\ us[j].report.sequence \in Nat
          /\ NextAlternates(us[j], s) /\ ShowsReport(us[j], s)
      BY <1>1, <1>3, <1>4, <1>8, <2>1
    <3>2. us[j].mmsi # v.mmsi
      BY <1>1, <1>3, <1>8, <2>0, <2>1, <3>1
    <3>3. NextAlternates(us[j], t) /\ ShowsReport(us[j], t)
      BY <1>6, <3>1, <3>2
    <3>4. us[j].report.sequence <= q + 1
      BY <3>1
    <3> QED BY <3>1, <3>3, <3>4
  <2>2. CASE j = i
    <3>1. w.mmsi < mmsi /\ w.report.sequence <= q + 1
      BY <1>5, <1>6, <1>7
    <3> QED BY <1>6, <1>8, <2>2, <3>1
  <2> QED BY <2>1, <2>2
<1>11. \A j, k \in DOMAIN us : us[j].mmsi = us[k].mmsi => j = k
  BY <1>1, <1>3, <1>8, <1>10
<1>12. FleetSound(us, mmsi, q + 1, t)
  BY <1>6, <1>9, <1>10, <1>11 DEF FleetSound
<1> QED BY <1>12 DEF us, t, m, w

\* What one iteration of SetCount's loop stages.
LEMMA SpawnStages ==
  ASSUME TypeInv, Spawn
  PROVE  LET v == [mmsi |-> next.nextMMSI, updatedAt |-> next.elapsed, reports |-> 0]
             w == Emitted(v, next.sequence + 1)
         IN /\ v.mmsi = next.nextMMSI /\ v.updatedAt \in Nat /\ v.reports \in Nat
            /\ w \in Vessel /\ w.report \in Message /\ w.updatedAt = next.elapsed
            /\ next'.vessels = Append(next.vessels, w)
            /\ next'.nextMMSI = next.nextMMSI + 1
            /\ reports' = Append(reports, w.report)
<1> DEFINE v == [mmsi |-> next.nextMMSI, updatedAt |-> next.elapsed, reports |-> 0]
           n == [next EXCEPT !.vessels = Append(next.vessels, v),
                             !.nextMMSI = next.nextMMSI + 1]
           i == Len(next.vessels) + 1
           w == Emitted(v, next.sequence + 1)
<1>1. /\ next \in StateRecord /\ next.vessels \in Seq(Vessel) /\ next.nextMMSI \in Nat
      /\ next.elapsed \in Nat /\ next.sequence \in Nat
  BY DEF TypeInv, TypeOK, StateTypeOK, StateRecord
<1>2. /\ n.sequence = next.sequence /\ n.nextMMSI = next.nextMMSI + 1
      /\ n.vessels = Append(next.vessels, v)
  BY <1>1 DEF StateRecord
<1>3. v.mmsi = next.nextMMSI /\ v.updatedAt \in Nat /\ v.reports \in Nat /\ v.mmsi \in Nat
      /\ v.updatedAt = next.elapsed
  BY <1>1
<1>4. w \in Vessel /\ w.report \in Message
  <2> HIDE DEF v
  <2> QED BY <1>1, <1>3, EmittedType
<1>5. [Append(next.vessels, v) EXCEPT ![i] = w] = Append(next.vessels, w)
  <2> HIDE DEF v, w
  <2> QED BY <1>1, AppendReplace
<1>6. Send(n, v, i)
  BY DEF Spawn
<1>7. DOMAIN n = DOMAIN next
  OBVIOUS
<1> HIDE DEF n, i
<1>8. /\ next' = [n EXCEPT !.sequence = n.sequence + 1, !.vessels[i] = Emitted(v, n.sequence + 1)]
      /\ reports' = Append(reports, Emitted(v, n.sequence + 1).report)
  BY <1>6 DEF Send
<1>9. Emitted(v, n.sequence + 1) = w
  BY <1>2
<1>10. w.updatedAt = next.elapsed
  BY <1>3 DEF Emitted
<1> HIDE DEF w, v
<1>11. next'.vessels = [n.vessels EXCEPT ![i] = w] /\ next'.nextMMSI = n.nextMMSI
  BY <1>1, <1>7, <1>8, <1>9 DEF StateRecord
<1>12. next'.vessels = Append(next.vessels, w) /\ next'.nextMMSI = next.nextMMSI + 1
  BY <1>2, <1>5, <1>11
<1>13. reports' = Append(reports, w.report)
  BY <1>8, <1>9
<1> QED BY <1>3, <1>4, <1>10, <1>12, <1>13 DEF v, w

\* What one vessel of one tick stages.
LEMMA TickStages ==
  ASSUME TypeInv, TickVessel
  PROVE  LET v == [next.vessels[loop.vessel] EXCEPT !.updatedAt = loop.tick * TickInterval]
             w == Emitted(v, next.sequence + 1)
         IN /\ loop.vessel \in 1..Len(next.vessels)
            /\ v.mmsi = next.vessels[loop.vessel].mmsi /\ v.updatedAt \in Nat
            /\ v.reports = next.vessels[loop.vessel].reports
            /\ w \in Vessel /\ w.report \in Message /\ w.updatedAt = loop.tick * TickInterval
            /\ next'.vessels = [next.vessels EXCEPT ![loop.vessel] = w]
            /\ next'.nextMMSI = next.nextMMSI
            /\ reports' = Append(reports, w.report)
<1> DEFINE i == loop.vessel
           at == loop.tick * TickInterval
           v == [next.vessels[i] EXCEPT !.updatedAt = at]
           w == Emitted(v, next.sequence + 1)
<1>1. /\ next \in StateRecord /\ next.vessels \in Seq(Vessel) /\ next.sequence \in Nat
      /\ loop \in LoopRecord
  BY DEF TypeInv, TypeOK, StateTypeOK, ControlTypeOK, StateRecord
<1>2. i \in 1..Len(next.vessels) /\ at \in Nat
  <2>1. loop.vessel \in Nat /\ loop.tick \in Nat /\ TickInterval \in Nat
    BY <1>1, LimitsAssumption DEF LoopRecord
  <2>2. loop.vessel >= 1 /\ loop.vessel <= Len(next.vessels)
    BY DEF TickVessel, TypeInv, StagedShape
  <2>3. at \in Nat
    BY <2>1
  <2> QED BY <1>1, <2>1, <2>2, <2>3, LenProperties
<1>3. next.vessels[i] \in Vessel
  BY <1>1, <1>2, ElementOfSeq
<1> HIDE DEF i, at
<1>4. /\ v.mmsi = next.vessels[i].mmsi /\ v.updatedAt = at /\ v.reports = next.vessels[i].reports
      /\ v.mmsi \in Nat /\ v.reports \in Nat
  BY <1>3 DEF Vessel
<1>5. Send(next, v, i)
  BY DEF TickVessel, i, at
<1> HIDE DEF v
<1>6. w \in Vessel /\ w.report \in Message /\ w.updatedAt = at
  <2>1. w.updatedAt = v.updatedAt
    BY DEF Emitted
  <2>2. v.updatedAt \in Nat
    BY <1>2, <1>4
  <2> HIDE DEF w
  <2>3. w \in Vessel /\ w.report \in Message
    BY <1>1, <1>4, <2>2, EmittedType DEF w
  <2> QED BY <1>4, <2>1, <2>3
<1>7. /\ next' = [next EXCEPT !.sequence = next.sequence + 1, !.vessels[i] = w]
      /\ reports' = Append(reports, w.report)
  BY <1>5 DEF Send
<1> HIDE DEF w
<1>8. next'.vessels = [next.vessels EXCEPT ![i] = w] /\ next'.nextMMSI = next.nextMMSI
  BY <1>1, <1>7 DEF StateRecord
<1> QED BY <1>2, <1>4, <1>6, <1>7, <1>8 DEF i, at, v, w

\* A call that stages a report keeps its fleet sound.
LEMMA FleetSend ==
  ASSUME TypeInv, FleetInv, Spawn \/ TickVessel
  PROVE  FleetInv'
<1>1. Working /\ next'.sequence = next.sequence + 1 /\ UNCHANGED <<state, messages>>
  BY SendShape
<1>2. /\ next.vessels \in Seq(Vessel) /\ next.nextMMSI \in Nat /\ next.sequence \in Nat
      /\ FleetSound(next.vessels, next.nextMMSI, next.sequence, messages \o reports)
  BY <1>1 DEF TypeInv, TypeOK, StateTypeOK, StateRecord, FleetInv
<1>3. CASE Spawn
  <2> DEFINE v == [mmsi |-> next.nextMMSI, updatedAt |-> next.elapsed, reports |-> 0]
             w == Emitted(v, next.sequence + 1)
  <2>1. /\ v.mmsi = next.nextMMSI /\ v.updatedAt \in Nat /\ v.reports \in Nat
        /\ w.report \in Message
        /\ next'.vessels = Append(next.vessels, w) /\ next'.nextMMSI = next.nextMMSI + 1
        /\ reports' = Append(reports, w.report)
    BY <1>3, SpawnStages
  <2> HIDE DEF v
  <2>2. /\ messages \o reports \in Seq(Message)
        /\ (messages \o reports)' = Append(messages \o reports, w.report)
    <3> HIDE DEF w
    <3> QED BY <1>1, <2>1, ReportAppended
  <2>3. FleetSound(Append(next.vessels, w), next.nextMMSI + 1, next.sequence + 1,
                   Append(messages \o reports, w.report))
    BY <1>2, <2>1, <2>2, FleetGrows
  <2> HIDE DEF w
  <2>4. FleetSound(next.vessels, next.nextMMSI, next.sequence, messages \o reports)'
    BY <1>1, <2>1, <2>2, <2>3
  <2> QED BY <1>1, <2>4 DEF FleetInv
<1>4. CASE TickVessel
  <2> DEFINE v == [next.vessels[loop.vessel] EXCEPT !.updatedAt = loop.tick * TickInterval]
             w == Emitted(v, next.sequence + 1)
  <2>1. /\ loop.vessel \in 1..Len(next.vessels)
        /\ v.mmsi = next.vessels[loop.vessel].mmsi /\ v.updatedAt \in Nat
        /\ v.reports = next.vessels[loop.vessel].reports
        /\ w.report \in Message
        /\ next'.vessels = [next.vessels EXCEPT ![loop.vessel] = w]
        /\ next'.nextMMSI = next.nextMMSI
        /\ reports' = Append(reports, w.report)
    BY <1>4, TickStages
  <2> HIDE DEF v
  <2>2. /\ messages \o reports \in Seq(Message)
        /\ (messages \o reports)' = Append(messages \o reports, w.report)
    <3> HIDE DEF w
    <3> QED BY <1>1, <2>1, ReportAppended
  <2>3. FleetSound([next.vessels EXCEPT ![loop.vessel] = w], next.nextMMSI, next.sequence + 1,
                   Append(messages \o reports, w.report))
    BY <1>2, <2>1, <2>2, FleetReports
  <2> HIDE DEF w
  <2>4. FleetSound(next.vessels, next.nextMMSI, next.sequence, messages \o reports)'
    BY <1>1, <2>1, <2>2, <2>3
  <2> QED BY <1>1, <2>4 DEF FleetInv
<1> QED BY <1>3, <1>4

\* commit keeps the newest of the reports that the staged fleet has sent.
LEMMA FleetCommit ==
  ASSUME TypeInv, FleetInv, Commit
  PROVE  FleetInv'
<1>1. Working /\ ~Working' /\ messages' = Retain(messages \o reports)
  BY DEF Commit, Working
<1>2. /\ state'.vessels = next.vessels /\ state'.nextMMSI = next.nextMMSI
      /\ state'.sequence = next.sequence
  BY DEF Commit, TypeInv, TypeOK, StateTypeOK, StateRecord
<1> DEFINE all == messages \o reports
           kept == Retain(all)
<1>3. all \in Seq(Message)
  BY ConcatProperties DEF TypeInv, TypeOK, StateTypeOK
<1>4. FleetSound(next.vessels, next.nextMMSI, next.sequence, all)
  BY <1>1 DEF FleetInv
<1> HIDE DEF all
<1>5. /\ kept \in Seq(Message) /\ Len(kept) = Minimum(Len(all), MessageLimit)
      /\ \A i \in 1..Len(kept) : kept[i] = all[Len(all) - Len(kept) + i]
  BY <1>3, RetainProperties
<1>6. Len(kept) <= Len(all)
  BY SMTT(30), <1>3, <1>5, LenProperties, LimitsAssumption DEF Minimum
<1>7. messages' = kept
  BY <1>1 DEF all
<1> HIDE DEF kept
<1>8. FleetSound(next.vessels, next.nextMMSI, next.sequence, kept)
  BY <1>3, <1>4, <1>5, <1>6, SuffixSound
<1> QED BY <1>1, <1>2, <1>7, <1>8 DEF FleetInv

\* A call begins with the committed fleet, or with the first vessels of it.
LEMMA FleetBegin ==
  ASSUME TypeInv, FleetInv, UNCHANGED <<state, messages>>, reports' = <<>>,
         next'.nextMMSI = state.nextMMSI, next'.sequence = state.sequence,
         DOMAIN next'.vessels \subseteq DOMAIN state.vessels,
         \A i \in DOMAIN next'.vessels : next'.vessels[i] = state.vessels[i]
  PROVE  FleetInv'
<1>1. messages \o reports' = messages
  BY ConcatEmptySeq DEF TypeInv, TypeOK, StateTypeOK
<1>2. FleetSound(state.vessels, state.nextMMSI, state.sequence, messages)
  BY DEF FleetInv
<1>3. FleetSound(next'.vessels, next'.nextMMSI, next'.sequence, messages)
  BY <1>2 DEF FleetSound
<1>4. FleetSound(next.vessels, next.nextMMSI, next.sequence, messages \o reports)'
  BY <1>1, <1>3
<1> QED BY <1>2, <1>4 DEF FleetInv

\* A step that neither stages nor commits vessels and reports.
LEMMA FleetSame ==
  ASSUME FleetInv, messages' = messages,
         state'.vessels = state.vessels, state'.nextMMSI = state.nextMMSI,
         state'.sequence = state.sequence,
         \/ ~Working'
         \/ /\ Working /\ reports' = reports
            /\ next'.vessels = next.vessels /\ next'.nextMMSI = next.nextMMSI
            /\ next'.sequence = next.sequence
  PROVE  FleetInv'
<1>1. FleetSound(state.vessels, state.nextMMSI, state.sequence, messages)'
  BY DEF FleetInv
<1>2. CASE ~Working'
  BY <1>1, <1>2 DEF FleetInv
<1>3. CASE /\ Working /\ reports' = reports
           /\ next'.vessels = next.vessels /\ next'.nextMMSI = next.nextMMSI
           /\ next'.sequence = next.sequence
  <2>1. FleetSound(next.vessels, next.nextMMSI, next.sequence, messages \o reports)'
    BY <1>3 DEF FleetInv
  <2> QED BY <1>1, <2>1 DEF FleetInv
<1> QED BY <1>2, <1>3

\* A new run has an empty fleet.
LEMMA FleetInit == Init => FleetInv
<1> SUFFICES ASSUME Init PROVE FleetInv
  OBVIOUS
<1>1. /\ state.vessels = <<>> /\ next.vessels = <<>> /\ messages = <<>> /\ reports = <<>>
  BY DEF Init
<1>2. messages \o reports = <<>>
  BY <1>1, ConcatEmptySeq, EmptySeq
<1>3. DOMAIN state.vessels = {} /\ DOMAIN next.vessels = {} /\ DOMAIN messages = {}
  BY <1>1
<1> QED BY <1>1, <1>2, <1>3 DEF FleetInv, FleetSound, Alternates

\* SetCount keeps the first vessels.
LEMMA FirstVessels ==
  ASSUME NEW s \in Seq(Vessel), NEW count \in 0..MaxVessels
  PROVE  LET vs == IF count - Len(s) < 0 THEN SubSeq(s, 1, count) ELSE s
         IN DOMAIN vs \subseteq DOMAIN s /\ \A i \in DOMAIN vs : vs[i] = s[i]
<1> DEFINE vs == IF count - Len(s) < 0 THEN SubSeq(s, 1, count) ELSE s
<1>1. count \in Nat /\ Len(s) \in Nat /\ DOMAIN s = 1..Len(s)
  BY LenProperties, LimitsAssumption
<1>2. CASE count - Len(s) < 0
  <2>1. \A i \in 1..count : s[i] \in Vessel
    BY <1>1, <1>2, ElementOfSeq
  <2>2. 1 \in Int /\ count \in Int
    BY <1>1
  <2>3. /\ SubSeq(s, 1, count) \in Seq(Vessel)
        /\ Len(SubSeq(s, 1, count)) = IF 1 <= count THEN count - 1 + 1 ELSE 0
        /\ \A i \in 1..(count - 1 + 1) : SubSeq(s, 1, count)[i] = s[1 + i - 1]
    BY <2>1, <2>2, SubSeqProperties
  <2>4. /\ Len(SubSeq(s, 1, count)) = count
        /\ \A i \in 1..count : SubSeq(s, 1, count)[i] = s[i]
    BY <1>1, <2>3
  <2>5. vs = SubSeq(s, 1, count)
    BY <1>2
  <2>6. DOMAIN vs = 1..count
    BY <2>3, <2>4, <2>5, LenProperties
  <2>7. 1..count \subseteq DOMAIN s
    BY <1>1, <1>2
  <2> QED BY <2>4, <2>5, <2>6, <2>7
<1>3. CASE ~(count - Len(s) < 0)
  BY <1>3
<1> QED BY <1>2, <1>3

\* Every step keeps the committed and the staged fleet sound.
LEMMA FleetStep == TypeInv /\ FleetInv /\ [Next]_vars => FleetInv'
<1> SUFFICES ASSUME TypeInv, FleetInv, [Next]_vars PROVE FleetInv'
  OBVIOUS
<1>0. state \in StateRecord /\ next \in StateRecord /\ state.vessels \in Seq(Vessel)
  BY StateFields DEF TypeInv, TypeOK, StateTypeOK
<1>1. ASSUME NEW count \in 0..MaxVessels, BeginSetCount(count) PROVE FleetInv'
  <2> DEFINE vs == IF count - Len(state.vessels) < 0 THEN SubSeq(state.vessels, 1, count)
                   ELSE state.vessels
  <2>1. next' = [state EXCEPT !.revision = @ + 1, !.updatedAt = state.elapsed, !.vessels = vs]
    BY <1>1 DEF BeginSetCount
  <2>2. /\ UNCHANGED <<state, messages>> /\ reports' = <<>>
        /\ next'.nextMMSI = state.nextMMSI /\ next'.sequence = state.sequence
        /\ next'.vessels = vs
    BY <1>0, <1>1, <2>1 DEF BeginSetCount, StateRecord
  <2>3. DOMAIN vs \subseteq DOMAIN state.vessels /\ \A i \in DOMAIN vs : vs[i] = state.vessels[i]
    BY <1>0, FirstVessels
  <2> HIDE DEF vs
  <2> QED BY <2>2, <2>3, FleetBegin
<1>2. ASSUME NEW delta \in VirtualDeltas, BeginAdvance(delta) PROVE FleetInv'
  <2>1. /\ UNCHANGED <<state, messages>> /\ reports' = <<>>
        /\ next'.nextMMSI = state.nextMMSI /\ next'.sequence = state.sequence
        /\ next'.vessels = state.vessels
    BY <1>0, <1>2 DEF BeginAdvance, StartAdvance, StateRecord
  <2> QED BY <2>1, FleetBegin
<1>3. ASSUME NEW delta \in RealDeltas, BeginElapse(delta) PROVE FleetInv'
  <2>1. /\ UNCHANGED <<state, messages>> /\ reports' = <<>>
        /\ next'.nextMMSI = state.nextMMSI /\ next'.sequence = state.sequence
        /\ next'.vessels = state.vessels
    BY <1>0, <1>3 DEF BeginElapse, StartAdvance, StateRecord
  <2> QED BY <2>1, FleetBegin
<1>4. ASSUME NEW speed \in Speeds, SetSpeed(speed) PROVE FleetInv'
  <2>1. /\ state'.vessels = state.vessels /\ state'.nextMMSI = state.nextMMSI
        /\ state'.sequence = state.sequence
    BY <1>0, <1>4 DEF SetSpeed, StateRecord
  <2> QED BY <1>4, <2>1, FleetSame DEF SetSpeed, Idle, Working
<1>5. ASSUME NEW expected \in FirstRevision..MaxRevision, NEW d \in Definitions,
             AddStation(expected, d)
      PROVE  FleetInv'
  <2>1. /\ state'.vessels = state.vessels /\ state'.nextMMSI = state.nextMMSI
        /\ state'.sequence = state.sequence
    BY <1>0, <1>5 DEF AddStation, StateRecord
  <2> QED BY <1>5, <2>1, FleetSame DEF AddStation, Idle, Working
<1>6. ASSUME NEW expected \in FirstRevision..MaxRevision, NEW id \in StationIDs,
             NEW d \in Definitions, UpdateStation(expected, id, d)
      PROVE  FleetInv'
  <2>1. /\ state'.vessels = state.vessels /\ state'.nextMMSI = state.nextMMSI
        /\ state'.sequence = state.sequence
    BY <1>0, <1>6 DEF UpdateStation, StateRecord
  <2> QED BY <1>6, <2>1, FleetSame DEF UpdateStation, Idle, Working
<1>7. ASSUME NEW expected \in FirstRevision..MaxRevision, NEW id \in StationIDs,
             RemoveStation(expected, id)
      PROVE  FleetInv'
  <2>1. /\ state'.vessels = state.vessels /\ state'.nextMMSI = state.nextMMSI
        /\ state'.sequence = state.sequence
    BY <1>0, <1>7 DEF RemoveStation, StateRecord
  <2> QED BY <1>7, <2>1, FleetSame DEF RemoveStation, Idle, Working
<1>8. CASE Spawn \/ TickVessel
  BY <1>8, FleetSend
<1>9. CASE TickEnd
  <2>1. /\ next'.vessels = next.vessels /\ next'.nextMMSI = next.nextMMSI
        /\ next'.sequence = next.sequence /\ UNCHANGED <<state, messages, reports>>
    BY <1>0, <1>9 DEF TickEnd, StateRecord
  <2>2. Working
    BY <1>9 DEF TickEnd, Working
  <2> QED BY <2>1, <2>2, FleetSame
<1>10. CASE SpawnFails \/ Cancel \/ ReceiveFails
  BY <1>10, FleetSame DEF SpawnFails, Cancel, ReceiveFails, Drop, Working
<1>11. ASSUME NEW outcome \in Outcomes, Receive(outcome) PROVE FleetInv'
  BY <1>11, FleetSame DEF Receive, Working
<1>12. CASE ReceiveEnd
  BY <1>12, FleetSame DEF ReceiveEnd, Working
<1>13. CASE Commit
  BY <1>13, FleetCommit
<1>14. CASE ApplyRecord
  BY <1>14, FleetSame DEF ApplyRecord, Working
<1>15. CASE Finish
  BY <1>15, FleetSame DEF Finish, Drop, Working
<1>16. CASE UNCHANGED vars
  <2>1. UNCHANGED <<state, messages, pc, next, reports>>
    BY <1>16 DEF vars
  <2> QED BY <2>1 DEF FleetInv, Working
<1> QED BY <1>1, <1>2, <1>3, <1>4, <1>5, <1>6, <1>7, <1>8, <1>9, <1>10, <1>11, <1>12,
           <1>13, <1>14, <1>15, <1>16 DEF Next

-----------------------------------------------------------------------------
(***************************************************************************)
(* When the vessels last reported                                          *)
(***************************************************************************)
\* The latest tick at or before an instant.
TickBefore(at) == (at \div TickInterval) * TickInterval

Dated(vs, first, last) == \A i \in DOMAIN vs : first <= vs[i].updatedAt /\ vs[i].updatedAt <= last

\* SetCount keeps the instant; advance has moved the vessels before loop.vessel to its
\* tick, and all the others to the tick before it.
TimesInv ==
  /\ Dated(state.vessels, TickBefore(state.elapsed), state.elapsed)
  /\ Working => loop.kind \in {"count", "advance"} /\ state.elapsed <= loop.target
  /\ Working /\ loop.kind = "count" =>
       /\ loop.target = state.elapsed
       /\ Dated(next.vessels, TickBefore(state.elapsed), state.elapsed)
  /\ Working /\ loop.kind = "advance" =>
       /\ loop.tick >= 1 /\ loop.last = loop.target \div TickInterval
       /\ Dated(next.vessels, (loop.tick - 1) * TickInterval, loop.target)
       /\ \A i \in DOMAIN next.vessels :
            i < loop.vessel \/ (i = loop.vessel /\ pc = "receive") =>
              next.vessels[i].updatedAt >= loop.tick * TickInterval

\* No tick is later than its instant.
LEMMA TickBeforeProperties ==
  ASSUME NEW at \in Nat
  PROVE  /\ TickBefore(at) \in Nat /\ TickBefore(at) <= at
         /\ TickBefore(at) = at - (at % TickInterval)
<1> DEFINE q == at \div TickInterval
<1>1. TickInterval \in Nat \ {0}
  BY LimitsAssumption
<1>2. /\ at = TickInterval * q + (at % TickInterval) /\ at % TickInterval \in Nat
      /\ q \in Nat
  BY <1>1, DivMod
<1> HIDE DEF q
<1>3. q * TickInterval = TickInterval * q /\ q * TickInterval \in Nat
  BY <1>1, <1>2
<1> QED BY <1>2, <1>3 DEF TickBefore, q

\* A later tick is a later instant.
LEMMA TicksOrdered ==
  ASSUME NEW a \in Nat, NEW b \in Nat, a <= b
  PROVE  a * TickInterval <= b * TickInterval /\ a * TickInterval \in Nat
<1>1. TickInterval \in Nat
  BY LimitsAssumption
<1>2. PICK c \in Nat : b = a + c
  <2>1. b - a \in Nat /\ b = a + (b - a)
    OBVIOUS
  <2> QED BY <2>1
<1>3. b * TickInterval = a * TickInterval + c * TickInterval
  BY <1>1, <1>2
<1>4. c * TickInterval \in Nat /\ a * TickInterval \in Nat
  BY <1>1, <1>2
<1> QED BY <1>3, <1>4

\* Steps that move no vessel and no instant.
LEMMA TimesSame ==
  ASSUME TimesInv, state'.vessels = state.vessels, state'.elapsed = state.elapsed,
         \/ ~Working'
         \/ /\ Working /\ next'.vessels = next.vessels
            /\ loop'.kind = loop.kind /\ loop'.tick = loop.tick /\ loop'.last = loop.last
            /\ loop'.target = loop.target /\ loop'.vessel = loop.vessel
            /\ pc' = "receive" => pc = "receive"
  PROVE  TimesInv'
<1>1. Dated(state.vessels, TickBefore(state.elapsed), state.elapsed)'
  BY DEF TimesInv, TickBefore, Dated
<1>2. CASE ~Working'
  BY <1>1, <1>2 DEF TimesInv
<1>3. CASE /\ Working /\ next'.vessels = next.vessels
           /\ loop'.kind = loop.kind /\ loop'.tick = loop.tick /\ loop'.last = loop.last
           /\ loop'.target = loop.target /\ loop'.vessel = loop.vessel
           /\ pc' = "receive" => pc = "receive"
  BY <1>1, <1>3 DEF TimesInv, TickBefore, Dated
<1> QED BY <1>2, <1>3

\* advance begins at the tick after the latest one.
LEMMA TimesStartAdvance ==
  ASSUME TypeInv, TimesInv, NEW n \in StateRecord, NEW delta \in Nat, NEW credit,
         n.elapsed = state.elapsed, n.vessels = state.vessels, StartAdvance(n, delta, credit)
  PROVE  TimesInv'
<1>1. /\ state.elapsed \in Nat /\ TickInterval \in Nat \ {0} /\ state.vessels \in Seq(Vessel)
  BY StateFields, LimitsAssumption
<1> DEFINE first == state.elapsed \div TickInterval
           target == state.elapsed + delta
<1>2. /\ state' = state /\ pc' = "tick" /\ next'.vessels = state.vessels
      /\ loop'.kind = "advance" /\ loop'.tick = first + 1 /\ loop'.vessel = 1
      /\ loop'.target = target /\ loop'.last = target \div TickInterval
  BY DEF StartAdvance, StateRecord, NoLoop
<1>3. first \in Nat /\ (first + 1) - 1 = first
  BY <1>1, DivMod
<1>4. ASSUME NEW i \in DOMAIN state.vessels
      PROVE  /\ first * TickInterval <= state.vessels[i].updatedAt
             /\ state.vessels[i].updatedAt <= target
             /\ ~(i < 1)
  <2>1. /\ TickBefore(state.elapsed) <= state.vessels[i].updatedAt
        /\ state.vessels[i].updatedAt <= state.elapsed
    BY DEF TimesInv, Dated
  <2>2. state.vessels[i] \in Vessel /\ ~(i < 1)
    BY <1>1, LenProperties, ElementOfSeq
  <2>3. state.vessels[i].updatedAt \in Nat
    BY <2>2 DEF Vessel
  <2> QED BY <1>1, <2>1, <2>2, <2>3 DEF TickBefore
<1>5. state.elapsed <= target /\ first + 1 >= 1
  BY <1>1, <1>3
<1> HIDE DEF first, target
<1>6. Dated(next.vessels, (loop.tick - 1) * TickInterval, loop.target)'
  BY <1>2, <1>3, <1>4 DEF Dated
<1>7. Dated(state.vessels, TickBefore(state.elapsed), state.elapsed)'
  BY <1>2 DEF TimesInv, TickBefore, Dated
<1> QED BY <1>2, <1>4, <1>5, <1>6, <1>7 DEF TimesInv

\* A created vessel reports at the instant of SetCount.
LEMMA TimesSpawn ==
  ASSUME TypeInv, CoherentInv, TimesInv, Spawn
  PROVE  TimesInv'
<1> DEFINE w == Emitted([mmsi |-> next.nextMMSI, updatedAt |-> next.elapsed, reports |-> 0],
                        next.sequence + 1)
           from == TickBefore(state.elapsed)
<1>1. /\ pc = "spawn" /\ Working /\ state' = state
      /\ loop'.kind = loop.kind /\ loop'.target = loop.target
  <2>1. loop \in LoopRecord
    BY DEF TypeInv, TypeOK, ControlTypeOK
  <2> QED BY <2>1 DEF Spawn, Send, Working, LoopRecord
<1>2. loop.kind = "count" /\ next.elapsed = state.elapsed
  BY <1>1 DEF CoherentInv, ReportsLate
<1>3. w \in Vessel /\ w.updatedAt = state.elapsed /\ next'.vessels = Append(next.vessels, w)
  BY <1>2, SpawnStages
<1>4. next.vessels \in Seq(Vessel) /\ state.elapsed \in Nat
  BY StateFields DEF TypeInv, TypeOK, StateTypeOK, StateRecord
<1> HIDE DEF w
<1>5. /\ Len(next.vessels) \in Nat /\ DOMAIN next.vessels = 1..Len(next.vessels)
      /\ DOMAIN next'.vessels = 1..(Len(next.vessels) + 1)
      /\ next'.vessels[Len(next.vessels) + 1] = w
      /\ \A i \in 1..Len(next.vessels) : next'.vessels[i] = next.vessels[i]
  BY <1>3, <1>4, AppendProperties, LenProperties
<1>6. from <= state.elapsed
  BY <1>4, TickBeforeProperties
<1>7. from' = from
  BY <1>1 DEF TickBefore
<1> HIDE DEF from
<1>8. /\ Dated(next.vessels, from, state.elapsed) /\ loop.target = state.elapsed
      /\ Dated(state.vessels, from, state.elapsed) /\ state.elapsed <= loop.target
  BY <1>1, <1>2 DEF TimesInv, from
<1>9. Dated(next'.vessels, from, state.elapsed)
  <2> SUFFICES ASSUME NEW i \in DOMAIN next'.vessels
               PROVE  /\ from <= next'.vessels[i].updatedAt
                      /\ next'.vessels[i].updatedAt <= state.elapsed
    BY DEF Dated
  <2>1. CASE i \in 1..Len(next.vessels)
    BY <1>5, <1>8, <2>1 DEF Dated
  <2>2. CASE i = Len(next.vessels) + 1
    BY <1>3, <1>4, <1>5, <1>6, <2>2
  <2> QED BY <1>5, <2>1, <2>2
<1>10. Dated(next.vessels, from, state.elapsed)' /\ Dated(state.vessels, from, state.elapsed)'
  BY <1>1, <1>7, <1>8, <1>9 DEF Dated
<1> QED BY <1>1, <1>2, <1>8, <1>10 DEF TimesInv, from

\* A vessel reports at its tick, which is not after the target.
LEMMA TimesTick ==
  ASSUME TypeInv, CoherentInv, TimesInv, TickVessel
  PROVE  TimesInv'
<1> DEFINE p == loop.vessel
           w == Emitted([next.vessels[p] EXCEPT !.updatedAt = loop.tick * TickInterval],
                        next.sequence + 1)
           at == loop.tick * TickInterval
           before == (loop.tick - 1) * TickInterval
<1>1. /\ pc = "tick" /\ pc' = "receive" /\ Working /\ state' = state /\ loop.tick <= loop.last
      /\ loop'.kind = loop.kind /\ loop'.target = loop.target /\ loop'.tick = loop.tick
      /\ loop'.last = loop.last /\ loop'.vessel = p
  <2>1. loop \in LoopRecord
    BY DEF TypeInv, TypeOK, ControlTypeOK
  <2> QED BY <2>1 DEF TickVessel, Send, Working, LoopRecord
<1>2. loop.kind = "advance"
  BY <1>1 DEF CoherentInv, ReportsLate
<1>3. /\ p \in 1..Len(next.vessels) /\ w \in Vessel /\ w.updatedAt = at
      /\ next'.vessels = [next.vessels EXCEPT ![p] = w]
  BY TickStages
<1>4. /\ next.vessels \in Seq(Vessel) /\ state.elapsed \in Nat /\ loop.tick \in Nat
      /\ loop.last \in Nat /\ loop.target \in Nat
  BY StateFields DEF TypeInv, TypeOK, StateTypeOK, StateRecord, ControlTypeOK, LoopRecord
<1>5. DOMAIN next.vessels = 1..Len(next.vessels) /\ Len(next.vessels) \in Nat
  BY <1>4, LenProperties
<1>6. /\ state.elapsed <= loop.target /\ loop.tick >= 1
      /\ loop.last = loop.target \div TickInterval
      /\ Dated(next.vessels, before, loop.target)
      /\ \A i \in DOMAIN next.vessels : i < p => next.vessels[i].updatedAt >= at
  BY <1>1, <1>2 DEF TimesInv
<1>7. before <= at /\ at <= loop.target /\ at \in Nat /\ before \in Nat
  <2>1. loop.tick - 1 \in Nat /\ loop.tick - 1 <= loop.tick
    BY <1>4, <1>6
  <2>2. before <= at /\ before \in Nat
    BY <1>4, <2>1, TicksOrdered
  <2>3. at <= loop.last * TickInterval /\ at \in Nat
    BY <1>1, <1>4, TicksOrdered
  <2>4. loop.last * TickInterval <= loop.target /\ loop.last * TickInterval \in Nat
    BY <1>4, <1>6, TickBeforeProperties DEF TickBefore
  <2> HIDE DEF at
  <2>5. at <= loop.target
    BY <1>4, <2>3, <2>4
  <2> QED BY <2>2, <2>3, <2>5
<1> HIDE DEF w, at, before, p
<1>8. /\ DOMAIN next'.vessels = DOMAIN next.vessels /\ next'.vessels[p] = w
      /\ \A i \in DOMAIN next.vessels : i # p => next'.vessels[i] = next.vessels[i]
  BY <1>3, <1>5
<1>9. Dated(next'.vessels, before, loop.target)
  <2> SUFFICES ASSUME NEW i \in DOMAIN next.vessels
               PROVE  /\ before <= next'.vessels[i].updatedAt
                      /\ next'.vessels[i].updatedAt <= loop.target
    BY <1>8 DEF Dated
  <2>1. CASE i = p
    BY <1>3, <1>7, <1>8, <2>1
  <2>2. CASE i # p
    BY <1>6, <1>8, <2>2 DEF Dated
  <2> QED BY <2>1, <2>2
<1>10. ASSUME NEW i \in DOMAIN next.vessels, i < p \/ i = p
       PROVE  next'.vessels[i].updatedAt >= at
  <2>1. CASE i = p
    BY <1>3, <1>7, <1>8, <2>1
  <2>2. CASE i # p
    BY <1>6, <1>8, <1>10, <2>2
  <2> QED BY <2>1, <2>2
<1>11. at' = at /\ before' = before
  BY <1>1 DEF at, before
<1>12. Dated(state.vessels, TickBefore(state.elapsed), state.elapsed)'
  BY <1>1 DEF TimesInv, TickBefore, Dated
<1>13. /\ Dated(next.vessels, before, loop.target)'
       /\ \A i \in DOMAIN next'.vessels : i < p \/ i = p => next'.vessels[i].updatedAt >= at'
  BY <1>1, <1>8, <1>9, <1>10, <1>11 DEF Dated
<1> QED BY <1>1, <1>2, <1>6, <1>12, <1>13 DEF TimesInv, at, before, p

\* The end of a tick: every vessel has reported at it.
LEMMA TimesTickEnd ==
  ASSUME TypeInv, CoherentInv, TimesInv, TickEnd
  PROVE  TimesInv'
<1>1. /\ pc = "tick" /\ pc' = "tick" /\ Working /\ state' = state
      /\ next'.vessels = next.vessels /\ loop.vessel > Len(next.vessels)
      /\ loop'.kind = loop.kind /\ loop'.target = loop.target /\ loop'.tick = loop.tick + 1
      /\ loop'.last = loop.last /\ loop'.vessel = 1
  <2>1. loop \in LoopRecord /\ next \in StateRecord
    BY DEF TypeInv, TypeOK, StateTypeOK, ControlTypeOK
  <2> QED BY <2>1 DEF TickEnd, Working, LoopRecord, StateRecord
<1>2. loop.kind = "advance"
  BY <1>1 DEF CoherentInv, ReportsLate
<1>3. /\ next.vessels \in Seq(Vessel) /\ loop.tick \in Nat /\ loop.vessel \in Nat
  BY DEF TypeInv, TypeOK, StateTypeOK, StateRecord, ControlTypeOK, LoopRecord
<1>4. DOMAIN next.vessels = 1..Len(next.vessels) /\ Len(next.vessels) \in Nat
  BY <1>3, LenProperties
<1>5. /\ state.elapsed <= loop.target /\ loop.last = loop.target \div TickInterval
      /\ Dated(next.vessels, (loop.tick - 1) * TickInterval, loop.target)
      /\ \A i \in DOMAIN next.vessels : i < loop.vessel =>
           next.vessels[i].updatedAt >= loop.tick * TickInterval
  BY <1>1, <1>2 DEF TimesInv
<1>6. ASSUME NEW i \in DOMAIN next.vessels
      PROVE  /\ loop.tick * TickInterval <= next.vessels[i].updatedAt
             /\ next.vessels[i].updatedAt <= loop.target
             /\ ~(i < 1)
  <2>1. i < loop.vessel /\ ~(i < 1)
    BY <1>1, <1>3, <1>4
  <2>2. next.vessels[i] \in Vessel
    BY <1>3, <1>4, ElementOfSeq
  <2>3. next.vessels[i].updatedAt \in Nat /\ loop.tick * TickInterval \in Nat
    <3>1. TickInterval \in Nat
      BY LimitsAssumption
    <3>2. loop.tick * TickInterval \in Nat
      BY <1>3, <3>1
    <3> QED BY <2>2, <3>2 DEF Vessel
  <2>4. next.vessels[i].updatedAt >= loop.tick * TickInterval
    BY <1>5, <2>1
  <2> QED BY <1>5, <2>1, <2>3, <2>4 DEF Dated
<1>7. (loop.tick + 1) - 1 = loop.tick /\ loop.tick + 1 >= 1
  BY <1>3
<1>8. Dated(next.vessels, (loop.tick - 1) * TickInterval, loop.target)'
  BY <1>1, <1>6, <1>7 DEF Dated
<1>9. Dated(state.vessels, TickBefore(state.elapsed), state.elapsed)'
  BY <1>1 DEF TimesInv, TickBefore, Dated
<1> QED BY <1>1, <1>2, <1>5, <1>6, <1>7, <1>8, <1>9 DEF TimesInv

\* After the stations, the loop goes on with the next vessel.
LEMMA TimesReceiveEnd ==
  ASSUME TypeInv, TimesInv, ReceiveEnd
  PROVE  TimesInv'
<1>1. /\ pc = "receive" /\ Working /\ state' = state /\ next' = next
      /\ pc' \in {"spawn", "tick"}
      /\ loop'.kind = loop.kind /\ loop'.target = loop.target /\ loop'.tick = loop.tick
      /\ loop'.last = loop.last /\ loop'.vessel = loop.vessel + 1
  <2>1. loop \in LoopRecord
    BY DEF TypeInv, TypeOK, ControlTypeOK
  <2> QED BY <2>1 DEF ReceiveEnd, Working, LoopRecord
<1>2. Dated(state.vessels, TickBefore(state.elapsed), state.elapsed)'
  BY <1>1 DEF TimesInv, TickBefore, Dated
<1>3. state.elapsed <= loop.target /\ loop.kind \in {"count", "advance"}
  BY <1>1 DEF TimesInv
<1>4. CASE loop.kind = "count"
  BY <1>1, <1>2, <1>3, <1>4 DEF TimesInv, TickBefore, Dated
<1>5. CASE loop.kind = "advance"
  <2>1. /\ loop.tick >= 1 /\ loop.last = loop.target \div TickInterval
        /\ Dated(next.vessels, (loop.tick - 1) * TickInterval, loop.target)
        /\ \A i \in DOMAIN next.vessels : i < loop.vessel \/ i = loop.vessel =>
             next.vessels[i].updatedAt >= loop.tick * TickInterval
    BY <1>1, <1>5 DEF TimesInv
  <2>2. ASSUME NEW i \in DOMAIN next.vessels, i < loop.vessel + 1
        PROVE  next.vessels[i].updatedAt >= loop.tick * TickInterval
    <3>1. next.vessels \in Seq(Vessel) /\ loop.vessel \in Nat
      BY DEF TypeInv, TypeOK, StateTypeOK, StateRecord, ControlTypeOK, LoopRecord
    <3>2. i \in Nat
      BY <3>1, LenProperties
    <3>3. i < loop.vessel \/ i = loop.vessel
      BY <2>2, <3>1, <3>2
    <3> QED BY <2>1, <3>3
  <2>3. Dated(next.vessels, (loop.tick - 1) * TickInterval, loop.target)'
    BY <1>1, <2>1 DEF Dated
  <2> QED BY <1>1, <1>2, <1>3, <1>5, <2>1, <2>2, <2>3 DEF TimesInv
<1> QED BY <1>3, <1>4, <1>5

\* After the last tick every vessel has reported at it.
LEMMA TimesCommit ==
  ASSUME TypeInv, CoherentInv, TimesInv, Commit
  PROVE  TimesInv'
<1>1. /\ Working /\ pc' = "apply" /\ state'.vessels = next.vessels
      /\ state'.elapsed = loop.target
  BY DEF Commit, Working, TypeInv, TypeOK, StateTypeOK, StateRecord
<1>2. /\ next.vessels \in Seq(Vessel) /\ loop.tick \in Nat /\ loop.last \in Nat
      /\ loop.target \in Nat
  BY DEF TypeInv, TypeOK, StateTypeOK, StateRecord, ControlTypeOK, LoopRecord
<1>3. Dated(next.vessels, TickBefore(loop.target), loop.target)
  <2>1. CASE pc = "spawn"
    <3>1. loop.kind = "count"
      BY <2>1 DEF CoherentInv, ReportsLate
    <3> QED BY <1>1, <3>1 DEF TimesInv
  <2>2. CASE pc = "tick" /\ loop.tick > loop.last
    <3>1. loop.kind = "advance"
      BY <2>2 DEF CoherentInv, ReportsLate
    <3>2. /\ loop.tick >= 1 /\ loop.last = loop.target \div TickInterval
          /\ Dated(next.vessels, (loop.tick - 1) * TickInterval, loop.target)
      BY <1>1, <3>1 DEF TimesInv
    <3>3. loop.tick - 1 \in Nat /\ loop.last <= loop.tick - 1
      BY <1>2, <2>2, <3>2
    <3>4. /\ TickBefore(loop.target) <= (loop.tick - 1) * TickInterval
          /\ TickBefore(loop.target) \in Nat /\ (loop.tick - 1) * TickInterval \in Nat
      BY <1>2, <3>2, <3>3, TicksOrdered DEF TickBefore
    <3> DEFINE from == TickBefore(loop.target)
               before == (loop.tick - 1) * TickInterval
    <3> HIDE DEF from, before
    <3>5. ASSUME NEW i \in DOMAIN next.vessels
          PROVE  from <= next.vessels[i].updatedAt /\ next.vessels[i].updatedAt <= loop.target
      <4>1. next.vessels[i] \in Vessel
        BY <1>2, LenProperties, ElementOfSeq
      <4>2. next.vessels[i].updatedAt \in Nat
        BY <4>1 DEF Vessel
      <4>3. before <= next.vessels[i].updatedAt /\ next.vessels[i].updatedAt <= loop.target
        BY <3>2 DEF Dated, before
      <4>4. from <= before /\ from \in Nat /\ before \in Nat
        BY <3>4 DEF from, before
      <4> QED BY <4>2, <4>3, <4>4
    <3> QED BY <3>5 DEF Dated, from
  <2> QED BY <2>1, <2>2 DEF Commit
<1>4. Dated(state.vessels, TickBefore(state.elapsed), state.elapsed)'
  BY <1>1, <1>3 DEF Dated, TickBefore
<1>5. ~Working'
  BY <1>1 DEF Working
<1> QED BY <1>4, <1>5 DEF TimesInv

\* A new run has no vessel, and its SetCount creates them at its start.
LEMMA TimesInit == Init => TimesInv
<1> SUFFICES ASSUME Init PROVE TimesInv
  OBVIOUS
<1>1. /\ state.vessels = <<>> /\ next.vessels = <<>> /\ state.elapsed = 0
      /\ loop.kind = "count" /\ loop.target = 0
  BY DEF Init, NoLoop
<1>2. DOMAIN state.vessels = {} /\ DOMAIN next.vessels = {}
  BY <1>1
<1> QED BY <1>1, <1>2 DEF TimesInv, Dated

\* Every step keeps the vessels at the tick that the clock or the call is at.
LEMMA TimesStep == TypeInv /\ CoherentInv /\ TimesInv /\ [Next]_vars => TimesInv'
<1> SUFFICES ASSUME TypeInv, CoherentInv, TimesInv, [Next]_vars PROVE TimesInv'
  OBVIOUS
<1>0. /\ state \in StateRecord /\ next \in StateRecord /\ loop \in LoopRecord
      /\ state.vessels \in Seq(Vessel) /\ state.elapsed \in Nat
  BY StateFields DEF TypeInv, TypeOK, StateTypeOK, ControlTypeOK
<1>1. ASSUME NEW count \in 0..MaxVessels, BeginSetCount(count) PROVE TimesInv'
  <2> DEFINE vs == IF count - Len(state.vessels) < 0 THEN SubSeq(state.vessels, 1, count)
                   ELSE state.vessels
  <2>1. next' = [state EXCEPT !.revision = @ + 1, !.updatedAt = state.elapsed, !.vessels = vs]
    BY <1>1 DEF BeginSetCount
  <2>2. /\ state' = state /\ loop'.kind = "count" /\ loop'.target = state.elapsed
        /\ next'.vessels = vs
    BY <1>0, <1>1, <2>1 DEF BeginSetCount, StateRecord, NoLoop
  <2>3. DOMAIN vs \subseteq DOMAIN state.vessels /\ \A i \in DOMAIN vs : vs[i] = state.vessels[i]
    BY <1>0, FirstVessels
  <2> HIDE DEF vs
  <2>4. Dated(state.vessels, TickBefore(state.elapsed), state.elapsed)
    BY DEF TimesInv
  <2>5. Dated(vs, TickBefore(state.elapsed), state.elapsed)
    BY <2>3, <2>4 DEF Dated
  <2>6. state.elapsed <= loop'.target
    BY <1>0, <2>2
  <2> QED BY <2>2, <2>4, <2>5, <2>6 DEF TimesInv, Dated, TickBefore
<1>2. ASSUME NEW delta \in VirtualDeltas, BeginAdvance(delta) PROVE TimesInv'
  <2>1. delta \in Nat
    BY InputsAssumption
  <2> QED BY <1>0, <1>2, <2>1, TimesStartAdvance DEF BeginAdvance
<1>3. ASSUME NEW delta \in RealDeltas, BeginElapse(delta) PROVE TimesInv'
  <2> DEFINE scaled == delta * state.speed + state.remainder
             n == [state EXCEPT !.remainder = scaled % SpeedScale]
  <2>1. scaled \in Nat /\ SpeedScale \in Nat \ {0}
    <3>1. delta \in Nat /\ state.speed \in Nat /\ state.remainder \in Nat
      BY StateFields, InputsAssumption
    <3> QED BY <3>1, LimitsAssumption
  <2>2. StartAdvance(n, scaled \div SpeedScale, delta * state.speed)
    BY <1>3 DEF BeginElapse
  <2> HIDE DEF scaled
  <2>3. scaled % SpeedScale \in Nat /\ scaled \div SpeedScale \in Nat
    BY <2>1, DivMod
  <2>4. n \in StateRecord /\ n.elapsed = state.elapsed /\ n.vessels = state.vessels
    BY <1>0, <2>3 DEF StateRecord
  <2> HIDE DEF n
  <2> QED BY <2>2, <2>3, <2>4, TimesStartAdvance
<1>4. ASSUME NEW speed \in Speeds, SetSpeed(speed) PROVE TimesInv'
  <2>1. state'.vessels = state.vessels /\ state'.elapsed = state.elapsed
    BY <1>0, <1>4 DEF SetSpeed, StateRecord
  <2> QED BY <1>4, <2>1, TimesSame DEF SetSpeed, Idle, Working
<1>5. ASSUME NEW expected \in FirstRevision..MaxRevision, NEW d \in Definitions,
             AddStation(expected, d)
      PROVE  TimesInv'
  <2>1. state'.vessels = state.vessels /\ state'.elapsed = state.elapsed
    BY <1>0, <1>5 DEF AddStation, StateRecord
  <2> QED BY <1>5, <2>1, TimesSame DEF AddStation, Idle, Working
<1>6. ASSUME NEW expected \in FirstRevision..MaxRevision, NEW id \in StationIDs,
             NEW d \in Definitions, UpdateStation(expected, id, d)
      PROVE  TimesInv'
  <2>1. state'.vessels = state.vessels /\ state'.elapsed = state.elapsed
    BY <1>0, <1>6 DEF UpdateStation, StateRecord
  <2> QED BY <1>6, <2>1, TimesSame DEF UpdateStation, Idle, Working
<1>7. ASSUME NEW expected \in FirstRevision..MaxRevision, NEW id \in StationIDs,
             RemoveStation(expected, id)
      PROVE  TimesInv'
  <2>1. state'.vessels = state.vessels /\ state'.elapsed = state.elapsed
    BY <1>0, <1>7 DEF RemoveStation, StateRecord
  <2> QED BY <1>7, <2>1, TimesSame DEF RemoveStation, Idle, Working
<1>8. CASE Spawn
  BY <1>8, TimesSpawn
<1>9. CASE TickVessel
  BY <1>9, TimesTick
<1>10. CASE TickEnd
  BY <1>10, TimesTickEnd
<1>11. CASE SpawnFails \/ Cancel \/ ReceiveFails
  BY <1>11, TimesSame DEF SpawnFails, Cancel, ReceiveFails, Drop, Working
<1>12. ASSUME NEW outcome \in Outcomes, Receive(outcome) PROVE TimesInv'
  <2>1. /\ loop'.kind = loop.kind /\ loop'.tick = loop.tick /\ loop'.last = loop.last
        /\ loop'.target = loop.target /\ loop'.vessel = loop.vessel
    BY <1>0, <1>12 DEF Receive, LoopRecord
  <2> QED BY <1>12, <2>1, TimesSame DEF Receive, Working
<1>13. CASE ReceiveEnd
  BY <1>13, TimesReceiveEnd
<1>14. CASE Commit
  BY <1>14, TimesCommit
<1>15. CASE ApplyRecord
  BY <1>15, TimesSame DEF ApplyRecord, Working
<1>16. CASE Finish
  BY <1>16, TimesSame DEF Finish, Drop, Working
<1>17. CASE UNCHANGED vars
  <2>1. UNCHANGED <<state, pc, next, loop>>
    BY <1>17 DEF vars
  <2> QED BY <2>1 DEF TimesInv, Working, Dated, TickBefore
<1> QED BY <1>1, <1>2, <1>3, <1>4, <1>5, <1>6, <1>7, <1>8, <1>9, <1>10, <1>11, <1>12,
           <1>13, <1>14, <1>15, <1>16, <1>17 DEF Next

\* A sound fleet at the latest tick is what FleetReported says: the report of a vessel is
\* in the contiguous history, or older than all of it.
LEMMA FleetShown == TypeInv /\ HistoryInv /\ FleetInv /\ TimesInv => FleetExact
<1> SUFFICES ASSUME TypeInv, HistoryInv, FleetInv, TimesInv PROVE FleetExact
  OBVIOUS
<1>1. /\ state.vessels \in Seq(Vessel) /\ messages \in Seq(Message) /\ state.elapsed \in Nat
      /\ state.sequence \in Nat /\ MessageLimit \in Nat
  BY StateFields, LimitsAssumption DEF TypeInv, TypeOK, StateTypeOK
<1> DEFINE l == Len(messages)
           q == state.sequence
<1>2. /\ l \in Nat /\ DOMAIN messages = 1..l /\ l = Minimum(q, MessageLimit)
      /\ \A i \in 1..l : messages[i].sequence = q - l + i
  BY <1>1, LenProperties DEF HistoryInv, HistoryContiguous
<1>3. FleetSound(state.vessels, state.nextMMSI, state.sequence, messages)
  BY DEF FleetInv
<1>4. ChannelsAlternate
  BY <1>3 DEF FleetSound, Alternates, ChannelsAlternate
<1> HIDE DEF l, q
<1>5. ASSUME NEW i \in DOMAIN state.vessels
      PROVE  LET v == state.vessels[i]
             IN /\ v.report.timestamp = v.updatedAt
                /\ v.updatedAt \in (state.elapsed - (state.elapsed % TickInterval))..state.elapsed
                /\ \/ \E k \in DOMAIN messages : messages[k] = v.report
                   \/ Len(messages) = MessageLimit /\ v.report.sequence < messages[1].sequence
  <2> DEFINE v == state.vessels[i]
  <2>1. v \in Vessel
    BY <1>1, LenProperties, ElementOfSeq
  <2>2. /\ v.report.sequence <= q /\ 1 <= v.report.sequence
        /\ v.report.timestamp = v.updatedAt
        /\ \A k \in DOMAIN messages : messages[k].sequence = v.report.sequence =>
                                        messages[k] = v.report
    BY <1>3 DEF FleetSound, ShowsReport, q
  <2>3. TickBefore(state.elapsed) <= v.updatedAt /\ v.updatedAt <= state.elapsed
    BY DEF TimesInv, Dated
  <2> HIDE DEF v
  <2>4. v.updatedAt \in Nat /\ v.report.sequence \in Nat
    BY <2>1 DEF Vessel, Message
  <2>5. v.updatedAt \in (state.elapsed - (state.elapsed % TickInterval))..state.elapsed
    <3>1. TickBefore(state.elapsed) = state.elapsed - (state.elapsed % TickInterval)
          /\ TickBefore(state.elapsed) \in Nat
      BY <1>1, TickBeforeProperties
    <3> QED BY <1>1, <2>3, <2>4, <3>1
  <2>6. CASE v.report.sequence > q - l
    <3> DEFINE k == v.report.sequence - (q - l)
    <3>1. k \in 1..l /\ q - l + k = v.report.sequence
      <4>1. q \in Nat
        BY <1>1 DEF q
      <4> QED BY <1>2, <2>2, <2>4, <2>6, <4>1
    <3> HIDE DEF k
    <3>2. messages[k].sequence = v.report.sequence
      BY <1>2, <3>1
    <3>3. messages[k] = v.report /\ k \in DOMAIN messages
      BY <1>2, <2>2, <3>1, <3>2
    <3> QED BY <2>2, <2>5, <3>3 DEF v
  <2>7. CASE ~(v.report.sequence > q - l)
    <3>1. q \in Nat
      BY <1>1 DEF q
    <3>2. l = MessageLimit /\ 1 <= l
      BY SMTT(30), <1>1, <1>2, <2>2, <2>4, <2>7, <3>1, LimitsAssumption DEF Minimum
    <3>3. messages[1].sequence = q - l + 1
      BY <1>2, <3>2
    <3>4. v.report.sequence < messages[1].sequence
      BY <1>2, <2>4, <2>7, <3>1, <3>3
    <3>5. Len(messages) = MessageLimit
      BY <3>2 DEF l
    <3> QED BY <2>2, <2>5, <3>4, <3>5 DEF v
  <2> QED BY <2>6, <2>7
<1> QED BY <1>4, <1>5 DEF FleetExact, FleetReported

\* For every configuration and every growing, shrinking and failing of the fleet: at the
\* end of every call each vessel has been reported at its latest tick, the history holds
\* that very report until it is evicted, and no vessel uses a channel twice in a row.
THEOREM FleetCorrect == Spec => []FleetExact
<1>1. Init => HistoryInv /\ ClockInv /\ CoherentInv /\ FleetInv /\ TimesInv
  BY HistoryInit, ClockInit, CoherentInit, FleetInit, TimesInit
<1>2. /\ TypeInv /\ HistoryInv /\ ClockInv /\ CoherentInv /\ FleetInv /\ TimesInv
      /\ [Next]_vars
      => HistoryInv' /\ ClockInv' /\ CoherentInv' /\ FleetInv' /\ TimesInv'
  BY HistoryStep, ClockStep, CoherentStep, FleetStep, TimesStep
<1> QED BY <1>1, <1>2, FleetShown, TypeInvariance, PTL DEF Spec

-----------------------------------------------------------------------------
(***************************************************************************)
(* The engine implements EngineCalls, for every configuration: what a      *)
(* method stages adds up to the effect that EngineCalls gives it, and the  *)
(* step that commits it is the only one that a caller can see.             *)
(***************************************************************************)
\* What a method that holds the lock has staged, next to the committed state.
Counting == pc \in {"spawn", "receive"} /\ loop.kind = "count"
Advancing == pc \in {"tick", "receive"} /\ loop.kind = "advance"

Kinds == Working => Counting \/ Advancing

\* Nothing but the fleet, the reports and the revision differs from the committed state.
SameClock ==
  /\ next.speed = state.speed
  /\ Counting => next.remainder = state.remainder /\ loop.target = state.elapsed /\ loop.credit = 0

\* The vessels when the call will have created all of its own.
Vessels == Len(next.vessels) + loop.spawn

\* New can neither run out of MMSIs nor of receptions, because its configuration
\* was validated: each report so far was received at most once per station.
NewStaged ==
  InNew =>
    /\ state.vessels = <<>> /\ state.sequence = 0
    /\ Vessels = InitialVesselCount
    /\ next.sequence = Len(next.vessels) /\ next.nextMMSI = Len(next.vessels)
    /\ Len(state.stations) = Len(InitialStations)
    /\ \A i \in DOMAIN batch.stats : batch.stats[i].lastReception <= batch.receptions
    /\ pc = "spawn" => batch.receptions <= Len(next.vessels) * Len(state.stations)
    /\ pc = "receive" =>
         /\ Len(next.vessels) >= 1 /\ loop.station <= Len(state.stations) + 1
         /\ batch.receptions <= (Len(next.vessels) - 1) * Len(state.stations) + (loop.station - 1)

CountStaged ==
  Counting /\ ~InNew =>
    /\ state.revision < MaxRevision /\ next.revision = state.revision + 1
    /\ Vessels \in 0..MaxVessels /\ Vessels # Len(state.vessels)
    /\ \/ /\ loop.spawn = 0 /\ Vessels < Len(state.vessels)
          /\ next.sequence = state.sequence
       \/ /\ Len(next.vessels) >= Len(state.vessels)
          /\ next.sequence = state.sequence + (Len(next.vessels) - Len(state.vessels))
          /\ Vessels - Len(state.vessels) <= MaxSequence - state.sequence

Passed == (state.remainder + loop.credit) \div SpeedScale
TicksPassed == loop.target \div TickInterval - state.elapsed \div TickInterval
Emissions == (loop.tick - loop.first) * Len(state.vessels)

AdvancePlan ==
  /\ \/ \E delta \in VirtualDeltas : loop.credit = delta * SpeedScale
     \/ \E delta \in RealDeltas : loop.credit = delta * state.speed
  /\ loop.target = state.elapsed + Passed
  /\ Passed <= MaxAdvance /\ loop.target <= MaxElapsed
  /\ TicksPassed * Len(state.vessels) <= MaxSequence - state.sequence
  /\ Passed > 0 => state.revision < MaxRevision
  /\ next.revision = IF Passed > 0 THEN state.revision + 1 ELSE state.revision
  /\ loop.last + 1 - loop.first = TicksPassed
  /\ Len(next.vessels) = Len(state.vessels)

AdvanceProgress ==
  /\ loop.tick \in loop.first..(loop.last + 1)
  /\ pc = "tick" =>
       /\ loop.vessel <= Len(state.vessels) + 1
       /\ loop.tick > loop.last => loop.vessel = 1
       /\ next.sequence = state.sequence + Emissions + (loop.vessel - 1)
  /\ pc = "receive" =>
       /\ loop.vessel \in 1..Len(state.vessels) /\ loop.tick <= loop.last
       /\ next.sequence = state.sequence + Emissions + loop.vessel

AdvanceStaged == Advancing => AdvancePlan /\ AdvanceProgress

AtomicInv == Kinds /\ (Working => SameClock) /\ NewStaged /\ CountStaged /\ AdvanceStaged

-----------------------------------------------------------------------------
(***************************************************************************)
(* Arithmetic                                                              *)
(***************************************************************************)
LEMMA DivExact ==
  ASSUME NEW e \in Nat, NEW r \in Nat, NEW b \in Nat \ {0}, r < b
  PROVE  (e * b + r) \div b = e /\ (e * b + r) % b = r
<1> DEFINE a == e * b + r
           q == a \div b
           m == a % b
<1>1. a \in Nat
  OBVIOUS
<1>2. a = b * q + m /\ m < b /\ m \in Nat /\ q \in Nat
  <2> HIDE DEF a
  <2> QED BY <1>1, DivMod
<1>3. e * b + r = q * b + m
  BY <1>2
<1> HIDE DEF a, q, m
<1>4. ASSUME q >= e + 1 PROVE FALSE
  <2>1. (q - (e + 1)) * b >= 0
    BY <1>2, <1>4
  <2>2. (q - (e + 1)) * b = q * b - e * b - b
    BY <1>2
  <2> QED BY <1>2, <1>3, <2>1, <2>2
<1>5. ASSUME e >= q + 1 PROVE FALSE
  <2>1. (e - (q + 1)) * b >= 0
    BY <1>2, <1>5
  <2>2. (e - (q + 1)) * b = e * b - q * b - b
    BY <1>2
  <2> QED BY <1>2, <1>3, <2>1, <2>2
<1>6. q = e
  BY <1>2, <1>4, <1>5
<1>7. m = r
  BY <1>2, <1>3, <1>6
<1> QED BY <1>6, <1>7 DEF a, q, m

\* More time has not passed fewer ticks.
LEMMA DivMonotone ==
  ASSUME NEW a \in Nat, NEW c \in Nat, NEW b \in Nat \ {0}, a <= c
  PROVE  a \div b <= c \div b
<1> DEFINE p == a \div b
           q == c \div b
<1>1. /\ a = b * p + (a % b) /\ a % b \in Nat /\ p \in Nat
      /\ c = b * q + (c % b) /\ c % b < b /\ c % b \in Nat /\ q \in Nat
  BY DivMod
<1> HIDE DEF p, q
<1>2. ASSUME p >= q + 1 PROVE FALSE
  <2>1. b * (p - (q + 1)) >= 0
    BY <1>1, <1>2
  <2>2. b * (p - (q + 1)) = b * p - b * q - b
    BY <1>1
  <2> QED BY <1>1, <2>1, <2>2
<1>3. p <= q
  BY <1>1, <1>2
<1> QED BY <1>3 DEF p, q

-----------------------------------------------------------------------------
(***************************************************************************)
(* What a caller sees                                                      *)
(***************************************************************************)
\* A step that leaves the committed state is one that a caller cannot see.
LEMMA Unseen ==
  ASSUME state' = state, InNew' <=> InNew
  PROVE  visible' = visible
<1>1. (~InNew)' = ~InNew
  OBVIOUS
<1> QED BY <1>1 DEF visible

\* New begins as a SetCount that has staged nothing.
LEMMA AtomicInit == Init => AtomicInv /\ Calls!Init
<1> SUFFICES ASSUME Init PROVE AtomicInv /\ Calls!Init
  OBVIOUS
<1> USE DEF Init, NoLoop, FirstRevision
<1>1. /\ InitialVesselCount \in Nat /\ Len(InitialStations) \in Nat
      /\ DOMAIN InitialStations = 1..Len(InitialStations)
      /\ SpeedScale \in Nat
  BY ConfigAssumption, LimitsAssumption
<1>2. loop.kind = "count" /\ loop.spawn = InitialVesselCount /\ pc = "spawn" /\ loop.target = 0
      /\ loop.credit = 0
  OBVIOUS
<1>3. InNew
  BY <1>2 DEF InNew
<1>4. Kinds /\ (Working => SameClock) /\ CountStaged /\ AdvanceStaged
  BY <1>2, <1>3 DEF Kinds, Counting, Advancing, SameClock, CountStaged, AdvanceStaged
<1>5. NewStaged
  <2>1. Len(state.stations) = Len(InitialStations)
    BY <1>1
  <2>2. DOMAIN state.stations = DOMAIN InitialStations
    OBVIOUS
  <2>3. \A i \in DOMAIN batch.stats : batch.stats[i].lastReception = 0
    BY <2>2 DEF StageReceptions, NewStats, NewStation
  <2>4. batch.receptions = 0 /\ Len(next.vessels) = 0 /\ next.sequence = 0 /\ next.nextMMSI = 0
        /\ state.vessels = <<>> /\ state.sequence = 0
    BY DEF StageReceptions
  <2>5. Vessels = InitialVesselCount
    BY <1>1, <1>2, <2>4 DEF Vessels
  <2>6. batch.receptions <= Len(next.vessels) * Len(state.stations)
    BY <1>1, <2>1, <2>4
  <2>7. pc # "receive"
    BY <1>2
  <2> HIDE DEF Init
  <2> QED BY <2>1, <2>3, <2>4, <2>5, <2>6, <2>7 DEF NewStaged
<1>6. Calls!Init
  <2>1. /\ Len(state.vessels) = 0 /\ state.sequence = 0 /\ state.speed = InitialSpeed
        /\ state.elapsed * SpeedScale + state.remainder = 0
        /\ state.revision = FirstRevision /\ state.stationRevision = FirstRevision
        /\ state.lastStationID = Len(InitialStations)
    BY <1>1
  <2>2. [i \in DOMAIN state.stations |->
           [id |-> state.stations[i].id, definition |-> state.stations[i].definition]]
        = [i \in DOMAIN InitialStations |-> [id |-> i, definition |-> InitialStations[i]]]
    BY DEF NewStation
  <2> QED BY <1>3, <2>1, <2>2 DEF Calls!Init, Calls!FirstRevision, visible
<1> QED BY <1>4, <1>5, <1>6 DEF AtomicInv

-----------------------------------------------------------------------------
(***************************************************************************)
(* Steps that a caller cannot see                                          *)
(***************************************************************************)
\* Where nothing is staged, nothing need be known of it.
LEMMA NothingStaged ==
  ASSUME state' = state, ~InNew, pc' \in {"idle", "apply"}
  PROVE  AtomicInv' /\ visible' = visible
<1>1. ~Working' /\ ~Counting' /\ ~Advancing' /\ ~InNew'
  BY DEF Working, Counting, Advancing, InNew
<1>2. AtomicInv'
  BY <1>1 DEF AtomicInv, Kinds, NewStaged, CountStaged, AdvanceStaged
<1> QED BY <1>1, <1>2, Unseen

\* The types that the steps need.
LEMMA StagedFields ==
  ASSUME TypeInv
  PROVE  /\ state \in StateRecord /\ next \in StateRecord /\ loop \in LoopRecord
         /\ next.sequence \in Nat /\ next.nextMMSI \in Nat /\ next.revision \in Nat
         /\ next.elapsed \in Nat /\ next.remainder \in Nat /\ next.vessels \in Seq(Vessel)
         /\ Len(next.vessels) \in Nat /\ Len(state.vessels) \in Nat
         /\ Len(state.stations) \in Nat
         /\ loop.tick \in Nat /\ loop.last \in Nat /\ loop.first \in Nat /\ loop.target \in Nat
         /\ loop.spawn \in Nat /\ loop.vessel \in Nat /\ loop.station \in Nat
         /\ loop.credit \in Nat /\ batch.receptions \in Nat /\ totals.receptions \in Nat
<1>1. /\ state \in StateRecord /\ next \in StateRecord /\ loop \in LoopRecord
      /\ batch.receptions \in Nat /\ totals.receptions \in Nat
  BY DEF TypeInv, TypeOK, StateTypeOK, ControlTypeOK, BatchTypeOK
<1>2. /\ next.vessels \in Seq(Vessel) /\ state.vessels \in Seq(Vessel)
      /\ state.stations \in Seq(Station)
  BY <1>1 DEF StateRecord
<1>3. /\ Len(next.vessels) \in Nat /\ Len(state.vessels) \in Nat
      /\ Len(state.stations) \in Nat
  BY <1>2, LenProperties
<1> QED BY <1>1, <1>2, <1>3 DEF StateRecord, LoopRecord

\* SetCount begins: its limits are the limits of what it will stage.
LEMMA BeginSetCountStep ==
  ASSUME TypeInv, NEW count \in 0..MaxVessels, BeginSetCount(count)
  PROVE  AtomicInv' /\ visible' = visible
<1> DEFINE added == count - Len(state.vessels)
<1>0. MaxVessels \in Nat /\ state.vessels \in Seq(Vessel)
  BY LimitsAssumption, StateFields
<1>1. /\ added # 0 /\ state.revision < MaxRevision /\ added <= MaxSequence - state.sequence
      /\ state' = state /\ pc = "idle" /\ pc' = "spawn"
  BY DEF BeginSetCount, Idle
<1>2. /\ next'.revision = state.revision + 1 /\ next'.speed = state.speed
      /\ next'.remainder = state.remainder /\ next'.sequence = state.sequence
      /\ next'.vessels = IF added < 0 THEN SubSeq(state.vessels, 1, count) ELSE state.vessels
  BY StagedFields DEF BeginSetCount, StateRecord
<1>3. /\ loop'.kind = "count" /\ loop'.target = state.elapsed /\ loop'.credit = 0
      /\ loop'.spawn = IF added > 0 THEN added ELSE 0
  BY DEF BeginSetCount, NoLoop
<1>4. Len(next'.vessels) = IF added < 0 THEN count ELSE Len(state.vessels)
  <2>1. added < 0 => Len(SubSeq(state.vessels, 1, count)) = count
    BY <1>0, StagedFields
  <2> QED BY <1>2, <2>1
<1>5. ~InNew /\ ~InNew' /\ ~Advancing' /\ Counting'
  BY <1>1, <1>2, <1>3, StateFields DEF InNew, Advancing, Counting
<1> DEFINE l == Len(state.vessels)
           q == state.sequence
<1>6. l \in Nat /\ q \in Nat /\ count \in Nat /\ added = count - l
  BY <1>0, StagedFields, StateFields
<1>7. /\ Len(state'.vessels) = l /\ state'.sequence = q /\ state'.revision = state.revision
      /\ count \in 0..MaxVessels /\ added <= MaxSequence - q /\ next'.sequence = q
  BY <1>1, <1>2
<1>8. CountStaged'
  <2> HIDE DEF l, q, added
  <2>1. CASE added < 0
    <3>1. Len(next'.vessels) = count /\ loop'.spawn = 0 /\ count < l
      BY <1>3, <1>4, <1>6, <2>1
    <3>2. Vessels' = count
      BY <1>6, <3>1 DEF Vessels
    <3> QED BY <1>1, <1>2, <1>6, <1>7, <3>1, <3>2 DEF CountStaged
  <2>2. CASE added > 0
    <3>0. ~(added < 0)
      BY <1>6, <2>2
    <3>1. Len(next'.vessels) = l /\ loop'.spawn = added
      <4>1. Len(next'.vessels) = l
        BY <1>4, <3>0 DEF l
      <4> QED BY <1>3, <2>2, <4>1
    <3>2. Vessels' = count /\ count # l /\ q = q + (l - l) /\ count - l <= MaxSequence - q
      BY <1>6, <1>7, <2>2, <3>1 DEF Vessels
    <3> QED BY <1>1, <1>2, <1>6, <1>7, <3>1, <3>2 DEF CountStaged
  <2>3. added < 0 \/ added > 0
    BY <1>1, <1>6
  <2> QED BY <2>1, <2>2, <2>3
<1>9. Kinds' /\ SameClock' /\ NewStaged' /\ AdvanceStaged'
  BY <1>1, <1>2, <1>3, <1>5 DEF Kinds, SameClock, NewStaged, AdvanceStaged
<1> QED BY <1>1, <1>5, <1>8, <1>9, Unseen DEF AtomicInv

\* advance begins: the ticks it will pass and the limits it was checked against.
LEMMA StartAdvanceStep ==
  ASSUME TypeInv, NEW n \in StateRecord, NEW delta \in Nat, NEW credit,
         n.elapsed = state.elapsed, n.speed = state.speed, n.revision = state.revision,
         n.sequence = state.sequence, n.vessels = state.vessels,
         (state.remainder + credit) \div SpeedScale = delta,
         \/ \E d \in VirtualDeltas : credit = d * SpeedScale
         \/ \E d \in RealDeltas : credit = d * state.speed,
         StartAdvance(n, delta, credit)
  PROVE  AtomicInv' /\ visible' = visible
<1> DEFINE before == state.elapsed \div TickInterval
           after == (state.elapsed + delta) \div TickInterval
           ticks == IF after >= before + 1 THEN after - (before + 1) + 1 ELSE 0
<1>0. TickInterval \in Nat \ {0} /\ state.elapsed \in Nat /\ state.sequence \in Nat
  BY LimitsAssumption, StateFields
<1>1. before \in Nat /\ after \in Nat /\ before <= after
  BY SMTT(30), <1>0, DivMonotone
<1>2. /\ delta <= MaxAdvance /\ state.elapsed + delta <= MaxElapsed
      /\ ticks * Len(state.vessels) <= MaxSequence - state.sequence
      /\ delta > 0 => state.revision < MaxRevision
      /\ state' = state /\ pc = "idle" /\ pc' = "tick"
  BY DEF StartAdvance, Idle
<1>3. /\ next'.revision = IF delta > 0 THEN state.revision + 1 ELSE state.revision
      /\ next'.speed = state.speed /\ next'.sequence = state.sequence
      /\ next'.vessels = state.vessels
  BY DEF StartAdvance, StateRecord
<1>4. /\ loop'.kind = "advance" /\ loop'.first = before + 1 /\ loop'.tick = before + 1
      /\ loop'.last = after /\ loop'.target = state.elapsed + delta /\ loop'.vessel = 1
      /\ loop'.credit = credit
  BY DEF StartAdvance, NoLoop
<1>5. ticks = after - before
  BY <1>1
<1>6. Passed' = delta /\ TicksPassed' = after - before /\ ticks = TicksPassed'
  BY <1>2, <1>4, <1>5 DEF Passed, TicksPassed
<1> HIDE DEF before, after, ticks
<1>7. Emissions' = 0
  BY <1>1, <1>2, <1>4, StagedFields DEF Emissions
<1>8. ~InNew /\ ~InNew' /\ Advancing' /\ ~Counting'
  BY <1>2, <1>4 DEF InNew, Advancing, Counting
<1>9. AdvanceStaged'
  <2>1. \/ \E d \in VirtualDeltas : loop'.credit = d * SpeedScale
        \/ \E d \in RealDeltas : loop'.credit = d * state'.speed
    BY <1>2, <1>4
  <2>2. /\ loop'.target = state'.elapsed + Passed'
        /\ Passed' <= MaxAdvance /\ loop'.target <= MaxElapsed
        /\ TicksPassed' * Len(state'.vessels) <= MaxSequence - state'.sequence
        /\ Passed' > 0 => state'.revision < MaxRevision
        /\ next'.revision = IF Passed' > 0 THEN state'.revision + 1 ELSE state'.revision
    BY <1>2, <1>3, <1>4, <1>6
  <2>3. /\ loop'.last + 1 - loop'.first = TicksPassed'
        /\ Len(next'.vessels) = Len(state'.vessels)
        /\ loop'.tick \in loop'.first..(loop'.last + 1)
    BY <1>1, <1>2, <1>3, <1>4, <1>6
  <2>4. /\ loop'.vessel <= Len(state'.vessels) + 1 /\ loop'.vessel = 1
        /\ next'.sequence = state'.sequence + Emissions' + (loop'.vessel - 1)
    <3>1. Len(state.vessels) \in Nat
      BY StagedFields
    <3>2. 1 <= Len(state.vessels) + 1 /\ state.sequence = state.sequence + 0 + (1 - 1)
      BY <1>0, <3>1
    <3> QED BY <1>2, <1>3, <1>4, <1>7, <3>2
  <2> QED BY <1>2, <2>1, <2>2, <2>3, <2>4 DEF AdvanceStaged, AdvancePlan, AdvanceProgress
<1>10. Kinds' /\ SameClock' /\ NewStaged' /\ CountStaged'
  BY <1>2, <1>3, <1>8 DEF Kinds, SameClock, NewStaged, CountStaged
<1> QED BY <1>2, <1>8, <1>9, <1>10, Unseen DEF AtomicInv

LEMMA BeginAdvanceStep ==
  ASSUME TypeInv, ClockInv, NEW delta \in VirtualDeltas, BeginAdvance(delta)
  PROVE  AtomicInv' /\ visible' = visible
<1>1. /\ delta \in Nat /\ SpeedScale \in Nat \ {0} /\ state.remainder \in Nat
      /\ state.remainder < SpeedScale /\ state \in StateRecord
  BY InputsAssumption, LimitsAssumption, StateFields DEF ClockInv, ClockExact
<1>2. (delta * SpeedScale + state.remainder) \div SpeedScale = delta
  BY <1>1, DivExact
<1>3. state.remainder + delta * SpeedScale = delta * SpeedScale + state.remainder
  BY <1>1
<1> QED BY <1>1, <1>2, <1>3, StartAdvanceStep DEF BeginAdvance

\* The product of speed and real time, and the remainder carried along, is what is credited.
LEMMA BeginElapseStep ==
  ASSUME TypeInv, ClockInv, NEW delta \in RealDeltas, BeginElapse(delta)
  PROVE  AtomicInv' /\ visible' = visible
<1> DEFINE scaled == delta * state.speed + state.remainder
           n == [state EXCEPT !.remainder = scaled % SpeedScale]
<1>1. /\ delta \in Nat /\ SpeedScale \in Nat \ {0} /\ state.remainder \in Nat
      /\ state.speed \in Nat /\ state \in StateRecord
  BY InputsAssumption, LimitsAssumption, StateFields
<1>2. delta * state.speed \in Nat
  BY <1>1
<1>3. scaled \in Nat /\ state.remainder + delta * state.speed = scaled
  BY <1>1, <1>2
<1>4. StartAdvance(n, scaled \div SpeedScale, delta * state.speed)
  BY DEF BeginElapse
<1> HIDE DEF scaled
<1>5. scaled % SpeedScale \in Nat /\ scaled \div SpeedScale \in Nat
  BY <1>1, <1>3, DivMod
<1>6. /\ n \in StateRecord /\ n.elapsed = state.elapsed /\ n.speed = state.speed
      /\ n.revision = state.revision /\ n.sequence = state.sequence /\ n.vessels = state.vessels
  BY <1>1, <1>5 DEF StateRecord
<1> HIDE DEF n
<1> QED BY <1>3, <1>4, <1>5, <1>6, StartAdvanceStep

\* One report more is staged; SetCount also creates its vessel.
LEMMA SpawnShape ==
  ASSUME TypeInv, Spawn
  PROVE  /\ next'.nextMMSI = next.nextMMSI + 1 /\ next'.speed = next.speed
         /\ Len(next'.vessels) = Len(next.vessels) + 1
         /\ loop'.kind = loop.kind /\ loop'.spawn = loop.spawn - 1 /\ loop'.station = 1
         /\ UNCHANGED batch
<1> DEFINE v == [mmsi |-> next.nextMMSI, updatedAt |-> next.elapsed, reports |-> 0]
           vs == Append(next.vessels, v)
           n == [next EXCEPT !.vessels = vs, !.nextMMSI = next.nextMMSI + 1]
           i == Len(next.vessels) + 1
<1>1. Send(n, v, i)
  BY DEF Spawn
<1>2. next \in StateRecord /\ loop \in LoopRecord /\ Len(next.vessels) \in Nat
      /\ next.vessels \in Seq(Vessel)
  BY StagedFields
<1>3. Len(vs) = Len(next.vessels) + 1
  BY <1>2
<1>4. /\ n.nextMMSI = next.nextMMSI + 1 /\ n.speed = next.speed /\ n.vessels = vs
      /\ DOMAIN n = DOMAIN next
  BY <1>2 DEF StateRecord
<1>5. /\ loop'.kind = loop.kind /\ loop'.spawn = loop.spawn - 1 /\ loop'.station = 1
  BY <1>2 DEF Spawn, LoopRecord
<1> HIDE DEF v, vs, n, i
<1>6. /\ next' = [n EXCEPT !.sequence = n.sequence + 1,
                           !.vessels[i] = Emitted(v, n.sequence + 1)]
      /\ UNCHANGED batch
  BY <1>1 DEF Send
<1>7. /\ next'.nextMMSI = n.nextMMSI /\ next'.speed = n.speed
      /\ next'.vessels = [n.vessels EXCEPT ![i] = Emitted(v, n.sequence + 1)]
  BY <1>2, <1>4, <1>6 DEF StateRecord
<1>8. vs \in Seq(Vessel \cup {v})
  BY <1>2 DEF vs
<1>9. Len([vs EXCEPT ![i] = Emitted(v, n.sequence + 1)]) = Len(vs)
  BY <1>8
<1> QED BY <1>3, <1>4, <1>5, <1>6, <1>7, <1>9

\* One report more is staged; advance changes no other part of the fleet.
LEMMA TickShape ==
  ASSUME TypeInv, TickVessel
  PROVE  /\ next'.speed = next.speed /\ Len(next'.vessels) = Len(next.vessels)
         /\ loop'.kind = loop.kind /\ loop'.first = loop.first /\ loop'.last = loop.last
         /\ loop'.tick = loop.tick /\ loop'.vessel = loop.vessel
         /\ UNCHANGED batch
<1> DEFINE i == loop.vessel
           v == [next.vessels[i] EXCEPT !.updatedAt = loop.tick * TickInterval]
<1>1. Send(next, v, i)
  BY DEF TickVessel
<1>2. next \in StateRecord /\ loop \in LoopRecord /\ next.vessels \in Seq(Vessel)
  BY StagedFields
<1>3. /\ loop'.kind = loop.kind /\ loop'.first = loop.first /\ loop'.last = loop.last
      /\ loop'.tick = loop.tick /\ loop'.vessel = loop.vessel
  BY <1>2 DEF TickVessel, LoopRecord
<1> HIDE DEF v, i
<1>4. /\ next' = [next EXCEPT !.sequence = next.sequence + 1,
                              !.vessels[i] = Emitted(v, next.sequence + 1)]
      /\ UNCHANGED batch
  BY <1>1 DEF Send
<1>5. /\ next'.speed = next.speed
      /\ next'.vessels = [next.vessels EXCEPT ![i] = Emitted(v, next.sequence + 1)]
  BY <1>2, <1>4 DEF StateRecord
<1>6. Len([next.vessels EXCEPT ![i] = Emitted(v, next.sequence + 1)]) = Len(next.vessels)
  BY <1>2
<1> QED BY <1>3, <1>4, <1>5, <1>6

\* The reports of SetCount count the vessels it has created.
LEMMA SpawnStep ==
  ASSUME TypeInv, AtomicInv, Spawn
  PROVE  AtomicInv' /\ visible' = visible
<1> DEFINE m == Len(next.vessels)
           s == Len(state.stations)
<1>1. /\ pc = "spawn" /\ pc' = "receive" /\ loop.spawn > 0 /\ state' = state /\ Working
      /\ next'.sequence = next.sequence + 1 /\ next'.revision = next.revision
      /\ next'.remainder = next.remainder
      /\ loop'.target = loop.target /\ loop'.credit = loop.credit
  BY SendShape DEF Spawn
<1>2. Counting /\ ~Advancing
  BY <1>1 DEF AtomicInv, Kinds, Counting, Advancing
<1>3. Counting' /\ ~Advancing' /\ Working'
  BY <1>1, <1>2, SpawnShape DEF Counting, Advancing, Working
<1>4. InNew' <=> InNew
  BY <1>1, SpawnShape DEF InNew
<1>5. /\ m \in Nat /\ s \in Nat /\ loop.spawn \in Nat /\ next.sequence \in Nat
      /\ Len(state.vessels) \in Nat /\ state.sequence \in Nat /\ next.nextMMSI \in Nat
      /\ batch.receptions \in Nat
  BY StagedFields, StateFields
<1>6. Len(next'.vessels) = m + 1 /\ Vessels' = Vessels
  BY <1>5, SpawnShape DEF Vessels
<1> HIDE DEF m, s
<1>7. NewStaged'
  <2> SUFFICES ASSUME InNew' PROVE NewStaged'
    BY DEF NewStaged
  <2>1. InNew
    BY <1>4
  <2>2. /\ next.sequence = m /\ next.nextMMSI = m /\ batch.receptions <= m * s
    BY <1>1, <2>1 DEF AtomicInv, NewStaged, m, s
  <2>3. /\ next'.sequence = m + 1 /\ next'.nextMMSI = m + 1 /\ m + 1 >= 1
        /\ 1 <= s + 1
    BY <1>1, <1>5, <2>2, SpawnShape
  <2>4. batch.receptions <= ((m + 1) - 1) * s + (1 - 1)
    <3>1. (m + 1) - 1 = m /\ m * s \in Nat
      BY <1>5
    <3> QED BY <1>5, <2>2, <3>1
  <2>5. /\ state.vessels = <<>> /\ state.sequence = 0 /\ Vessels = InitialVesselCount
        /\ s = Len(InitialStations)
        /\ \A i \in DOMAIN batch.stats : batch.stats[i].lastReception <= batch.receptions
    BY <2>1 DEF AtomicInv, NewStaged, s
  <2> QED BY <1>1, <1>6, <2>3, <2>4, <2>5, SpawnShape DEF NewStaged, s
<1>8. CountStaged'
  <2> SUFFICES ASSUME ~InNew PROVE CountStaged'
    BY <1>4 DEF CountStaged
  <2> DEFINE l == Len(state.vessels)
  <2>0. ~(loop.spawn = 0)
    BY <1>1, <1>5
  <2>1. /\ state.revision < MaxRevision /\ next.revision = state.revision + 1
        /\ Vessels \in 0..MaxVessels /\ Vessels # l
        /\ m >= l /\ next.sequence = state.sequence + (m - l)
        /\ Vessels - l <= MaxSequence - state.sequence
    BY <1>2, <2>0, Zenon DEF AtomicInv, CountStaged, m
  <2>2. l \in Nat /\ Len(state'.vessels) = l
    BY <1>1, <1>5
  <2> HIDE DEF l
  <2>3. m + 1 >= l /\ next'.sequence = state.sequence + ((m + 1) - l)
    BY <1>1, <1>5, <2>1, <2>2
  <2> QED BY <1>1, <1>6, <2>1, <2>2, <2>3 DEF CountStaged
<1>9. Kinds' /\ SameClock' /\ AdvanceStaged'
  BY <1>1, <1>2, <1>3, SpawnShape DEF AtomicInv, Kinds, SameClock, AdvanceStaged
<1> QED BY <1>1, <1>4, <1>7, <1>8, <1>9, Unseen DEF AtomicInv
\* Once advance has begun, its loops change nothing of what it planned.
LEMMA PlanKept ==
  ASSUME AdvancePlan, state' = state, next'.revision = next.revision,
         Len(next'.vessels) = Len(next.vessels),
         loop'.credit = loop.credit, loop'.target = loop.target,
         loop'.first = loop.first, loop'.last = loop.last
  PROVE  AdvancePlan'
BY DEF AdvancePlan, Passed, TicksPassed

\* A step between two loops of one call: the kinds of call stay what they are.
LEMMA KindKept ==
  ASSUME AtomicInv, Working, state' = state, loop'.kind = loop.kind,
         next'.revision = next.revision, next'.speed = next.speed,
         next'.remainder = next.remainder,
         loop'.credit = loop.credit, loop'.target = loop.target,
         pc' = "receive" \/ pc' = (IF loop.kind = "count" THEN "spawn" ELSE "tick")
  PROVE  /\ Kinds' /\ (Working => SameClock)'
         /\ Counting' = Counting /\ Advancing' = Advancing
         /\ InNew' <=> InNew
         /\ Counting <=> ~Advancing
         /\ Counting <=> loop.kind = "count"
<1>1. Counting \/ Advancing
  BY DEF AtomicInv, Kinds
<1>2. Counting' = Counting /\ Advancing' = Advancing /\ (InNew' <=> InNew)
      /\ (Counting <=> ~Advancing) /\ (Counting <=> loop.kind = "count")
  <2>1. CASE Counting
    BY <2>1 DEF Counting, Advancing, InNew
  <2>2. CASE Advancing
    BY <2>2 DEF Counting, Advancing, InNew
  <2> QED BY <1>1, <2>1, <2>2
<1> QED BY <1>1, <1>2 DEF AtomicInv, Kinds, SameClock

\* The reports of advance count its ticks and vessels.
LEMMA TickVesselStep ==
  ASSUME TypeInv, AtomicInv, TickVessel
  PROVE  AtomicInv' /\ visible' = visible
<1>1. /\ pc = "tick" /\ pc' = "receive" /\ state' = state /\ Working
      /\ loop.tick <= loop.last /\ loop.vessel <= Len(next.vessels)
      /\ next'.sequence = next.sequence + 1 /\ next'.revision = next.revision
      /\ next'.remainder = next.remainder
      /\ loop'.target = loop.target /\ loop'.credit = loop.credit
  BY SendShape DEF TickVessel
<1>2. Advancing /\ ~Counting /\ ~InNew
  BY <1>1 DEF AtomicInv, Kinds, Counting, Advancing, InNew
<1>3. /\ Kinds' /\ (Working => SameClock)' /\ Advancing' /\ ~Counting'
      /\ InNew' <=> InNew
  BY <1>1, <1>2, TickShape, KindKept
<1>4. AdvancePlan /\ AdvanceProgress
  BY <1>2 DEF AtomicInv, AdvanceStaged
<1>5. AdvancePlan'
  BY <1>1, <1>4, TickShape, PlanKept
<1>6. AdvanceProgress'
  <2>1. Emissions' = Emissions /\ Emissions \in Int
    BY <1>1, TickShape, StagedFields DEF Emissions
  <2>2. /\ loop.vessel \in 1..Len(state.vessels)
        /\ next.sequence = state.sequence + Emissions + (loop.vessel - 1)
        /\ loop.tick \in loop.first..(loop.last + 1)
    <3>1. Len(next.vessels) = Len(state.vessels)
      BY <1>4 DEF AdvancePlan
    <3>2. loop.vessel >= 1 /\ loop.vessel \in Nat /\ Len(state.vessels) \in Nat
      BY <1>1, StagedFields DEF TypeInv, StagedShape
    <3>3. /\ next.sequence = state.sequence + Emissions + (loop.vessel - 1)
          /\ loop.tick \in loop.first..(loop.last + 1)
      BY <1>1, <1>4 DEF AdvanceProgress
    <3> QED BY <1>1, <3>1, <3>2, <3>3
  <2>3. next'.sequence = state.sequence + Emissions + loop.vessel
    <3>1. next.sequence \in Nat /\ loop.vessel \in Nat /\ state.sequence \in Nat
      BY StagedFields, StateFields
    <3>2. next'.sequence = next.sequence + 1 /\ Emissions \in Int
      BY <1>1, <2>1
    <3>3. next.sequence = state.sequence + Emissions + (loop.vessel - 1)
      BY <2>2
    <3> QED BY <3>1, <3>2, <3>3
  <2> QED BY <1>1, <2>1, <2>2, <2>3, TickShape DEF AdvanceProgress
<1>7. NewStaged' /\ CountStaged' /\ AdvanceStaged'
  BY <1>2, <1>3, <1>5, <1>6 DEF NewStaged, CountStaged, AdvanceStaged
<1> QED BY <1>1, <1>3, <1>7, Unseen DEF AtomicInv

\* Every vessel of the tick has reported.
LEMMA TickEndStep ==
  ASSUME TypeInv, AtomicInv, TickEnd
  PROVE  AtomicInv' /\ visible' = visible
<1> DEFINE n == Len(state.vessels)
           d == loop.tick - loop.first
<1>1. /\ pc = "tick" /\ pc' = "tick" /\ state' = state /\ Working
      /\ loop.tick <= loop.last /\ loop.vessel > Len(next.vessels)
  BY DEF TickEnd, Working
<1>2. /\ next'.sequence = next.sequence /\ next'.revision = next.revision
      /\ next'.remainder = next.remainder /\ next'.speed = next.speed
      /\ next'.vessels = next.vessels
      /\ loop'.target = loop.target /\ loop'.credit = loop.credit /\ loop'.kind = loop.kind
      /\ loop'.first = loop.first /\ loop'.last = loop.last
      /\ loop'.tick = loop.tick + 1 /\ loop'.vessel = 1
  BY StagedFields DEF TickEnd, StateRecord, LoopRecord
<1>3. Advancing /\ ~Counting /\ ~InNew
  BY <1>1 DEF AtomicInv, Kinds, Counting, Advancing, InNew
<1>4. /\ Kinds' /\ (Working => SameClock)' /\ Advancing' /\ ~Counting'
      /\ InNew' <=> InNew
  BY <1>1, <1>2, <1>3, KindKept DEF Advancing
<1>5. AdvancePlan /\ AdvanceProgress
  BY <1>3 DEF AtomicInv, AdvanceStaged
<1>6. AdvancePlan'
  BY <1>1, <1>2, <1>5, PlanKept
<1>7. AdvanceProgress'
  <2>1. /\ n \in Nat /\ next.sequence \in Nat /\ state.sequence \in Nat
        /\ loop.tick \in Nat /\ loop.first \in Nat /\ loop.last \in Nat
        /\ loop.vessel \in Nat
    BY StagedFields, StateFields
  <2>d. d \in Int
    BY <2>1
  <2>2. /\ loop.tick \in loop.first..(loop.last + 1) /\ loop.vessel = n + 1
        /\ next.sequence = state.sequence + d * n + (loop.vessel - 1)
    <3>1. Len(next.vessels) = n
      BY <1>5 DEF AdvancePlan
    <3>2. /\ loop.vessel <= n + 1 /\ loop.tick \in loop.first..(loop.last + 1)
          /\ next.sequence = state.sequence + Emissions + (loop.vessel - 1)
      BY <1>1, <1>5 DEF AdvanceProgress
    <3>3. loop.vessel = n + 1
      <4> HIDE DEF n
      <4> QED BY <1>1, <2>1, <3>1, <3>2
    <3>4. Emissions = d * n
      BY DEF Emissions
    <3> QED BY <3>2, <3>3, <3>4
  <2>3. Emissions' = (d + 1) * n
    <3>1. (loop.tick + 1) - loop.first = d + 1
      BY <2>1
    <3> QED BY <1>1, <1>2, <3>1 DEF Emissions
  <2> HIDE DEF n, d
  <2>4. (d + 1) * n = d * n + n /\ d * n \in Int
    BY <2>1, <2>d
  <2>5. next'.sequence = state.sequence + Emissions' + (1 - 1) /\ 1 <= n + 1
    BY <1>2, <2>1, <2>2, <2>3, <2>4
  <2>6. loop'.tick \in loop'.first..(loop'.last + 1)
    BY <1>1, <1>2, <2>1, <2>2
  <2> QED BY <1>1, <1>2, <2>5, <2>6 DEF AdvanceProgress, n
<1>8. NewStaged' /\ CountStaged' /\ AdvanceStaged'
  BY <1>3, <1>4, <1>6, <1>7 DEF NewStaged, CountStaged, AdvanceStaged
<1> QED BY <1>1, <1>4, <1>8, Unseen DEF AtomicInv
\* One station counts its outcome: at most one reception more is staged.
LEMMA ReceiveStages ==
  ASSUME TypeInv, NEW outcome \in Outcomes, Receive(outcome)
  PROVE  /\ batch'.receptions \in batch.receptions..(batch.receptions + 1)
         /\ DOMAIN batch'.stats = DOMAIN batch.stats
         /\ \A k \in DOMAIN batch.stats :
              batch.stats[k].lastReception <= batch.receptions
                => batch'.stats[k].lastReception <= batch'.receptions
         /\ loop'.station = loop.station + 1 /\ loop'.vessel = loop.vessel
         /\ loop'.tick = loop.tick /\ loop'.kind = loop.kind /\ loop'.spawn = loop.spawn
         /\ loop'.first = loop.first /\ loop'.last = loop.last
         /\ loop'.target = loop.target /\ loop'.credit = loop.credit
<1> DEFINE i == loop.station
           t == Last(reports)
           second == t.timestamp \div TickInterval
           got == outcome = "received"
           counted == Count(batch.stats[i], outcome, t.channel, second)
           record == Reception(next.stations[i], counted.lastReception, t)
           b == Bump(got)
<1>1. batch \in BatchRecord /\ loop \in LoopRecord /\ loop.station \in Nat
  BY DEF TypeInv, TypeOK, BatchTypeOK, BatchRecord, ControlTypeOK, LoopRecord
<1>2. b \in 0..1
  BY DEF Bump
<1>3. /\ loop'.station = loop.station + 1 /\ loop'.vessel = loop.vessel
      /\ loop'.tick = loop.tick /\ loop'.kind = loop.kind /\ loop'.spawn = loop.spawn
      /\ loop'.first = loop.first /\ loop'.last = loop.last
      /\ loop'.target = loop.target /\ loop'.credit = loop.credit
  BY <1>1 DEF Receive, LoopRecord
<1>4. batch' = [batch EXCEPT !.stats[i] = counted, !.receptions = batch.receptions + b,
                             !.records = IF got THEN Append(batch.records, record)
                                                ELSE batch.records]
  BY DEF Receive
<1>5. ASSUME NEW st \in Stats
      PROVE  Count(st, outcome, t.channel, second).lastReception = st.lastReception + b
  <2> HIDE DEF b, second, t
  <2>1. Count(st, outcome, t.channel, second).lastReception
        = st.lastReception + Bump(outcome = "received")
    BY DEF Count, Stats
  <2> QED BY <2>1 DEF b
<1> HIDE DEF counted, record, got, b
<1>6. /\ batch'.receptions = batch.receptions + b
      /\ batch'.stats = [batch.stats EXCEPT ![i] = counted]
  BY <1>1, <1>4 DEF BatchRecord
<1>7. batch.receptions \in Nat /\ batch.stats \in Seq(Stats)
  BY <1>1 DEF BatchRecord
<1>8. ASSUME NEW k \in DOMAIN batch.stats, batch.stats[k].lastReception <= batch.receptions
      PROVE  batch'.stats[k].lastReception <= batch'.receptions
  <2>1. batch.stats[k] \in Stats /\ batch.stats[k].lastReception \in Nat
    <3>1. batch.stats[k] \in Stats
      BY <1>7
    <3> QED BY <3>1 DEF Stats
  <2>2. CASE k = i
    <3>1. batch'.stats[k].lastReception = batch.stats[k].lastReception + b
      BY <1>5, <1>6, <2>1, <2>2 DEF counted
    <3> QED BY <1>2, <1>6, <1>7, <1>8, <2>1, <3>1
  <2>3. CASE k # i
    <3>1. batch'.stats[k] = batch.stats[k]
      BY <1>6, <2>3
    <3> QED BY <1>2, <1>6, <1>7, <1>8, <2>1, <3>1
  <2> QED BY <2>2, <2>3
<1>9. batch'.receptions \in batch.receptions..(batch.receptions + 1)
  BY <1>2, <1>6, <1>7
<1> QED BY <1>3, <1>6, <1>8, <1>9

\* A station that has evaluated a report changes only the batch.
LEMMA ReceiveStep ==
  ASSUME TypeInv, AtomicInv, NEW outcome \in Outcomes, Receive(outcome)
  PROVE  AtomicInv' /\ visible' = visible
<1> DEFINE m == Len(next.vessels)
           s == Len(state.stations)
<1>1. /\ pc = "receive" /\ pc' = "receive" /\ state' = state /\ next' = next /\ Working
      /\ loop.station <= Len(next.stations)
  BY DEF Receive, Working
<1>2. Len(next.stations) = s
  BY <1>1 DEF TypeInv, StagedShape, SameStations
<1>3. /\ Kinds' /\ (Working => SameClock)' /\ Counting' = Counting
      /\ Advancing' = Advancing /\ (InNew' <=> InNew)
  BY <1>1, ReceiveStages, KindKept
<1>4. Vessels' = Vessels
  BY <1>1, ReceiveStages DEF Vessels
<1>5. NewStaged'
  <2> SUFFICES ASSUME InNew PROVE NewStaged'
    BY <1>3 DEF NewStaged
  <2>1. /\ state.vessels = <<>> /\ state.sequence = 0 /\ Vessels = InitialVesselCount
        /\ next.sequence = m /\ next.nextMMSI = m /\ s = Len(InitialStations)
        /\ \A i \in DOMAIN batch.stats : batch.stats[i].lastReception <= batch.receptions
        /\ m >= 1 /\ batch.receptions <= (m - 1) * s + (loop.station - 1)
    BY <1>1 DEF AtomicInv, NewStaged
  <2>2. m \in Nat /\ s \in Nat /\ loop.station \in Nat /\ batch.receptions \in Nat
    BY StagedFields
  <2> HIDE DEF m, s
  <2>3. (m - 1) * s \in Int
    BY <2>2
  <2>4. batch'.receptions <= (m - 1) * s + (loop'.station - 1) /\ loop'.station <= s + 1
    <3>1. /\ batch'.receptions \in batch.receptions..(batch.receptions + 1)
          /\ loop'.station = loop.station + 1 /\ loop.station <= s
      BY <1>1, <1>2, ReceiveStages
    <3> DEFINE p == (m - 1) * s
    <3>2. p \in Int /\ batch.receptions <= p + (loop.station - 1)
      BY <2>1, <2>3
    <3> HIDE DEF p
    <3>3. batch'.receptions <= p + (loop'.station - 1) /\ loop'.station <= s + 1
      BY <2>2, <3>1, <3>2
    <3> QED BY <3>3 DEF p
  <2>5. \A i \in DOMAIN batch'.stats : batch'.stats[i].lastReception <= batch'.receptions
    BY <2>1, ReceiveStages
  <2> QED BY <1>1, <1>4, <2>1, <2>4, <2>5 DEF NewStaged, m, s
<1>6. CountStaged'
  <2>1. CASE Counting /\ ~InNew
    BY <1>1, <1>3, <1>4, <2>1, ReceiveStages DEF AtomicInv, CountStaged
  <2>2. CASE ~(Counting /\ ~InNew)
    BY <1>3, <2>2 DEF CountStaged
  <2> QED BY <2>1, <2>2
<1>7. AdvanceStaged'
  <2> SUFFICES ASSUME Advancing PROVE AdvancePlan' /\ AdvanceProgress'
    BY <1>3 DEF AdvanceStaged
  <2>1. AdvancePlan /\ AdvanceProgress
    BY DEF AtomicInv, AdvanceStaged
  <2>2. AdvancePlan'
    BY <1>1, <2>1, ReceiveStages, PlanKept
  <2>3. AdvanceProgress'
    BY <1>1, <2>1, ReceiveStages DEF AdvanceProgress, Emissions
  <2> QED BY <2>2, <2>3
<1> QED BY <1>1, <1>3, <1>5, <1>6, <1>7, Unseen DEF AtomicInv

\* Every station has evaluated the report: the loop that sent it goes on.
LEMMA ReceiveEndStep ==
  ASSUME TypeInv, AtomicInv, ReceiveEnd
  PROVE  AtomicInv' /\ visible' = visible
<1> DEFINE m == Len(next.vessels)
           s == Len(state.stations)
<1>1. /\ pc = "receive" /\ state' = state /\ next' = next /\ Working
      /\ loop.station > Len(next.stations)
      /\ pc' = IF loop.kind = "count" THEN "spawn" ELSE "tick"
  BY DEF ReceiveEnd, Working
<1>2. Len(next.stations) = s
  BY <1>1 DEF TypeInv, StagedShape, SameStations
<1>3. /\ loop'.vessel = loop.vessel + 1
      /\ loop'.tick = loop.tick /\ loop'.kind = loop.kind /\ loop'.spawn = loop.spawn
      /\ loop'.first = loop.first /\ loop'.last = loop.last
      /\ loop'.target = loop.target /\ loop'.credit = loop.credit
  BY StagedFields DEF ReceiveEnd, LoopRecord
<1>4. batch'.receptions = batch.receptions /\ batch'.stats = batch.stats
  BY DEF ReceiveEnd, TypeInv, TypeOK, BatchTypeOK
<1>5. /\ Kinds' /\ (Working => SameClock)' /\ Counting' = Counting
      /\ Advancing' = Advancing /\ (InNew' <=> InNew)
      /\ Counting <=> ~Advancing
      /\ Counting <=> loop.kind = "count"
  BY <1>1, <1>3, KindKept
<1>6. Vessels' = Vessels
  BY <1>1, <1>3 DEF Vessels
<1>7. NewStaged'
  <2> SUFFICES ASSUME InNew PROVE NewStaged'
    BY <1>5 DEF NewStaged
  <2>1. /\ state.vessels = <<>> /\ state.sequence = 0 /\ Vessels = InitialVesselCount
        /\ next.sequence = m /\ next.nextMMSI = m /\ s = Len(InitialStations)
        /\ \A i \in DOMAIN batch.stats : batch.stats[i].lastReception <= batch.receptions
        /\ m >= 1 /\ batch.receptions <= (m - 1) * s + (loop.station - 1)
        /\ loop.station <= s + 1
    BY <1>1 DEF AtomicInv, NewStaged
  <2>2. m \in Nat /\ s \in Nat /\ loop.station \in Nat /\ batch.receptions \in Nat
    BY StagedFields
  <2> HIDE DEF m, s
  <2>3. (m - 1) * s + (loop.station - 1) <= m * s
    <3>1. (m - 1) * s = m * s - s /\ m * s \in Nat
      BY <2>2
    <3> QED BY <2>1, <2>2, <3>1
  <2>4. batch'.receptions <= m * s
    <3>1. (m - 1) * s + (loop.station - 1) \in Int /\ m * s \in Int
      BY <2>2
    <3> QED BY <1>4, <2>1, <2>2, <2>3, <3>1
  <2>5. pc' = "spawn"
    BY <1>1 DEF InNew
  <2> QED BY <1>1, <1>4, <1>6, <2>1, <2>4, <2>5 DEF NewStaged, m, s
<1>8. CountStaged'
  <2>1. CASE Counting /\ ~InNew
    BY <1>1, <1>3, <1>5, <1>6, <2>1 DEF AtomicInv, CountStaged
  <2>2. CASE ~(Counting /\ ~InNew)
    BY <1>5, <2>2 DEF CountStaged
  <2> QED BY <2>1, <2>2
<1>9. AdvanceStaged'
  <2> SUFFICES ASSUME Advancing PROVE AdvancePlan' /\ AdvanceProgress'
    BY <1>5 DEF AdvanceStaged
  <2>1. AdvancePlan /\ AdvanceProgress /\ pc' = "tick"
    BY <1>1, <1>5 DEF AtomicInv, AdvanceStaged
  <2>2. AdvancePlan'
    BY <1>1, <1>3, <2>1, PlanKept
  <2>3. Emissions' = Emissions
    BY <1>1, <1>3 DEF Emissions
  <2>4. /\ loop.vessel \in 1..Len(state.vessels) /\ loop.tick <= loop.last
        /\ next.sequence = state.sequence + Emissions + loop.vessel
        /\ loop.tick \in loop.first..(loop.last + 1)
    BY <1>1, <2>1 DEF AdvanceProgress
  <2>5. /\ loop'.vessel <= Len(state.vessels) + 1 /\ ~(loop.tick > loop.last)
        /\ loop'.vessel - 1 = loop.vessel
    <3>1. loop.tick \in Nat /\ loop.last \in Nat /\ Len(state.vessels) \in Nat
      BY StagedFields
    <3> QED BY <1>3, <2>4, <3>1
  <2>6. AdvanceProgress'
    BY <1>1, <1>3, <2>1, <2>3, <2>4, <2>5 DEF AdvanceProgress
  <2> QED BY <2>2, <2>6
<1> QED BY <1>1, <1>5, <1>7, <1>8, <1>9, Unseen DEF AtomicInv
\* New does not fail on an MMSI: the fleet was checked to fit.
LEMMA SpawnFailsStep ==
  ASSUME TypeInv, AtomicInv, SpawnFails
  PROVE  AtomicInv' /\ visible' = visible
<1>1. /\ pc = "spawn" /\ loop.spawn > 0 /\ next.nextMMSI > MaxMMSI
      /\ state' = state /\ pc' = "idle"
  BY DEF SpawnFails, Drop
<1>2. ~InNew
  <2> SUFFICES ASSUME InNew PROVE FALSE
    OBVIOUS
  <2>1. Len(next.vessels) + loop.spawn = InitialVesselCount /\ next.nextMMSI = Len(next.vessels)
    BY DEF AtomicInv, NewStaged, Vessels
  <2>2. /\ InitialVesselCount \in Nat /\ MaxMMSI \in Nat
        /\ InitialVesselCount <= MaxMMSI + 1
    BY ConfigAssumption, LimitsAssumption
  <2> QED BY <1>1, <2>1, <2>2, StagedFields
<1> QED BY <1>1, <1>2, NothingStaged

\* Nor on a reception: every report is received at most once per station.
LEMMA ReceiveFailsStep ==
  ASSUME TypeInv, AtomicInv, ReceiveFails
  PROVE  AtomicInv' /\ visible' = visible
<1> DEFINE m == Len(next.vessels)
           s == Len(state.stations)
<1>1. /\ pc = "receive" /\ state' = state /\ pc' = "idle"
      /\ loop.station <= Len(next.stations)
      /\ \/ batch.stats[loop.station].lastReception = MaxSequence
         \/ batch.receptions = MaxSequence
  BY DEF ReceiveFails, Drop
<1>2. ~InNew
  <2> SUFFICES ASSUME InNew PROVE FALSE
    OBVIOUS
  <2>1. /\ m + loop.spawn = InitialVesselCount /\ s = Len(InitialStations) /\ m >= 1
        /\ \A i \in DOMAIN batch.stats : batch.stats[i].lastReception <= batch.receptions
        /\ batch.receptions <= (m - 1) * s + (loop.station - 1)
    BY <1>1 DEF AtomicInv, NewStaged, Vessels
  <2>2. /\ m \in Nat /\ s \in Nat /\ loop.station \in Nat /\ loop.spawn \in Nat
        /\ batch.receptions \in Nat
    BY StagedFields
  <2>3. /\ InitialVesselCount \in Nat /\ MaxSequence \in Nat
        /\ InitialVesselCount * s <= MaxSequence
    BY <2>1, ConfigAssumption, LimitsAssumption
  <2>4. loop.station \in DOMAIN batch.stats /\ loop.station <= s
    <3>1. /\ Len(next.stations) = s /\ Len(batch.stats) = s /\ loop.station >= 1
          /\ batch.stats \in Seq(Stats)
      BY <1>1 DEF TypeInv, StagedShape, SameStations, Working, TypeOK, BatchTypeOK
    <3> QED BY <1>1, <2>2, <3>1
  <2>5. batch.stats[loop.station].lastReception <= batch.receptions
    BY <2>1, <2>4
  <2>6. batch.stats[loop.station].lastReception \in Nat
    <3>1. batch.stats[loop.station] \in Stats
      BY <2>4 DEF TypeInv, TypeOK, BatchTypeOK
    <3> QED BY <3>1 DEF Stats
  <2> HIDE DEF m, s
  <2>7. m * s <= InitialVesselCount * s /\ m * s \in Nat
    <3>1. m <= InitialVesselCount
      BY <2>1, <2>2, <2>3
    <3> QED BY <2>2, <2>3, <3>1, TimesMonotone
  <2>8. batch.receptions < m * s
    <3> DEFINE p == m * s
               q == (m - 1) * s
    <3>1. q = p - s
      BY <2>2
    <3>2. batch.receptions <= q + (loop.station - 1)
      BY <2>1
    <3>3. p \in Nat
      BY <2>7
    <3> HIDE DEF p, q
    <3>4. batch.receptions < p
      BY <2>2, <2>4, <3>1, <3>2, <3>3
    <3> QED BY <3>4 DEF p
  <2>9. InitialVesselCount * s \in Nat
    BY <2>2, <2>3
  <2> QED BY <1>1, <2>2, <2>3, <2>5, <2>6, <2>7, <2>8, <2>9
<1> QED BY <1>1, <1>2, NothingStaged

\* The fields of the state that a caller sees determine it.
IsCall(f) ==
  /\ DOMAIN f = {"created", "count", "sequence", "time", "speed", "revision", "stations",
                 "lastStationID", "stationRevision"}
  /\ f = [k \in DOMAIN f |-> f[k]]

LEMMA SameCall ==
  ASSUME NEW f, NEW g, IsCall(f), IsCall(g),
         f.created = g.created, f.count = g.count, f.sequence = g.sequence,
         f.time = g.time, f.speed = g.speed, f.revision = g.revision,
         f.stations = g.stations, f.lastStationID = g.lastStationID,
         f.stationRevision = g.stationRevision
  PROVE  f = g
<1> DEFINE D == {"created", "count", "sequence", "time", "speed", "revision", "stations",
                 "lastStationID", "stationRevision"}
<1>1. \A k \in D : f[k] = g[k]
  OBVIOUS
<1>2. DOMAIN f = D /\ DOMAIN g = D
  BY DEF IsCall
<1> HIDE DEF D
<1> QED BY <1>1, <1>2 DEF IsCall

\* What is seen has these fields, before and after a step.
LEMMA VisibleCall == IsCall(visible) /\ IsCall(visible')
<1>1. IsCall(visible)
  BY DEF IsCall, visible
<1>2. IsCall(visible')
  BY DEF IsCall, visible
<1> QED BY <1>1, <1>2

\* A caller that waits for the lock sees all of the committed state.
LEMMA VisibleFields ==
  /\ visible.count = Len(state.vessels) /\ visible.sequence = state.sequence
  /\ visible.time = state.elapsed * SpeedScale + state.remainder
  /\ visible.speed = state.speed /\ visible.revision = state.revision
  /\ visible.lastStationID = state.lastStationID
  /\ visible.stationRevision = state.stationRevision
  /\ visible.created = ~InNew
BY DEF visible

\* Stations that stay are seen to stay.
LEMMA StationsKept ==
  ASSUME state'.stations = state.stations
  PROVE  visible'.stations = visible.stations
<1>1. visible'.stations = [i \in DOMAIN state'.stations |->
                             [id |-> state'.stations[i].id,
                              definition |-> state'.stations[i].definition]]
  BY DEF visible
<1>2. visible.stations = [i \in DOMAIN state.stations |->
                            [id |-> state.stations[i].id,
                             definition |-> state.stations[i].definition]]
  BY DEF visible
<1> QED BY <1>1, <1>2

\* The committed state that a caller sees when the staged one replaces it.
LEMMA CommitVisible ==
  ASSUME TypeInv, ClockInv, AtomicInv, Commit
  PROVE  /\ AtomicInv'
         /\ visible' = [visible EXCEPT !.created = TRUE,
                                       !.count = Len(next.vessels),
                                       !.sequence = next.sequence,
                                       !.time = visible.time + loop.credit,
                                       !.revision = next.revision]
<1>1. /\ Working /\ pc' = "apply" /\ state' = [next EXCEPT !.elapsed = loop.target]
  BY DEF Commit, Working
<1>2. ~Working' /\ ~Counting' /\ ~Advancing' /\ ~InNew'
  BY <1>1 DEF Working, Counting, Advancing, InNew
<1>3. AtomicInv'
  BY <1>2 DEF AtomicInv, Kinds, NewStaged, CountStaged, AdvanceStaged
<1>4. /\ state'.vessels = next.vessels /\ state'.sequence = next.sequence
      /\ state'.elapsed = loop.target /\ state'.remainder = next.remainder
      /\ state'.speed = next.speed /\ state'.revision = next.revision
      /\ state'.stations = next.stations /\ state'.lastStationID = next.lastStationID
      /\ state'.stationRevision = next.stationRevision
  BY <1>1, StagedFields DEF StateRecord
<1>5. /\ next.speed = state.speed /\ next.stations = state.stations
      /\ next.lastStationID = state.lastStationID
      /\ next.stationRevision = state.stationRevision
  BY <1>1 DEF AtomicInv, SameClock, TypeInv, StagedShape, SameStations
<1>6. loop.target * SpeedScale + next.remainder
      = (state.elapsed * SpeedScale + state.remainder) + loop.credit
  BY <1>1 DEF ClockInv, ClockExact, StagedClock
<1>7. (~InNew)' = TRUE
  BY <1>2
<1> DEFINE g == [visible EXCEPT !.created = TRUE,
                                !.count = Len(next.vessels),
                                !.sequence = next.sequence,
                                !.time = visible.time + loop.credit,
                                !.revision = next.revision]
<1>8. /\ visible'.created = TRUE /\ visible'.count = Len(next.vessels)
      /\ visible'.sequence = next.sequence /\ visible'.time = visible.time + loop.credit
      /\ visible'.speed = visible.speed /\ visible'.revision = next.revision
      /\ visible'.lastStationID = visible.lastStationID
      /\ visible'.stationRevision = visible.stationRevision
  <2>1. visible'.created = TRUE
    BY <1>7 DEF visible
  <2>2. visible'.time = loop.target * SpeedScale + next.remainder
    BY <1>4 DEF visible
  <2>3. /\ visible'.speed = state'.speed /\ visible'.lastStationID = state'.lastStationID
        /\ visible'.stationRevision = state'.stationRevision
        /\ visible'.count = Len(state'.vessels) /\ visible'.sequence = state'.sequence
        /\ visible'.revision = state'.revision
    BY DEF visible
  <2> QED BY <1>4, <1>5, <1>6, <2>1, <2>2, <2>3, VisibleFields
<1>9. visible'.stations = visible.stations
  BY <1>4, <1>5, StationsKept
<1>10. /\ g.created = TRUE /\ g.count = Len(next.vessels) /\ g.sequence = next.sequence
       /\ g.time = visible.time + loop.credit /\ g.speed = visible.speed
       /\ g.revision = next.revision /\ g.stations = visible.stations
       /\ g.lastStationID = visible.lastStationID
       /\ g.stationRevision = visible.stationRevision
  BY VisibleCall DEF IsCall
<1>11. IsCall(g)
  BY VisibleCall DEF IsCall
<1> HIDE DEF g
<1>12. visible' = g
  BY <1>8, <1>9, <1>10, <1>11, VisibleCall, SameCall
<1> QED BY <1>3, <1>12 DEF g

\* The end of New is New.
LEMMA CommitNew ==
  ASSUME TypeInv, ClockInv, AtomicInv, Commit, InNew
  PROVE  AtomicInv' /\ Calls!Next
<1>1. pc = "spawn" /\ loop.spawn = 0 /\ Counting /\ next.revision = state.revision
  BY DEF Commit, InNew, Counting
<1>2. Len(next.vessels) = InitialVesselCount /\ next.sequence = InitialVesselCount
  BY <1>1, StagedFields DEF AtomicInv, NewStaged, Vessels
<1>3. visible.time + loop.credit = visible.time
  <2>1. loop.credit = 0 /\ state.elapsed \in Nat /\ state.remainder \in Nat /\ SpeedScale \in Nat
    BY <1>1, StateFields, LimitsAssumption DEF AtomicInv, SameClock, Working
  <2>2. visible.time \in Nat
    BY <2>1 DEF visible
  <2> QED BY <2>1, <2>2
<1>4. visible.revision = state.revision /\ visible.created = FALSE
  BY DEF visible
<1>5. visible' = [visible EXCEPT !.created = TRUE,
                                 !.count = InitialVesselCount,
                                 !.sequence = InitialVesselCount]
  <2>1. visible' = [visible EXCEPT !.created = TRUE, !.count = InitialVesselCount,
                                   !.sequence = InitialVesselCount,
                                   !.time = visible.time, !.revision = visible.revision]
    BY <1>1, <1>2, <1>3, <1>4, CommitVisible
  <2>2. "time" \in DOMAIN visible /\ "revision" \in DOMAIN visible
    BY DEF visible
  <2> QED BY <2>1, <2>2
<1>6. Calls!New
  BY <1>4, <1>5 DEF Calls!New
<1> QED BY <1>6, CommitVisible DEF Calls!Next

\* The end of any other SetCount is SetCount with the size of the staged fleet.
LEMMA CommitCount ==
  ASSUME TypeInv, ClockInv, AtomicInv, Commit, Counting, ~InNew,
         state.sequence <= MaxSequence
  PROVE  AtomicInv' /\ Calls!Next
<1> DEFINE c == Len(next.vessels)
           l == Len(state.vessels)
           q == state.sequence
           added == IF c > l THEN c - l ELSE 0
<1>1. pc = "spawn" /\ loop.spawn = 0
  BY DEF Commit, Counting
<1>2. /\ c \in Nat /\ l \in Nat /\ q \in Nat /\ MaxSequence \in Nat
      /\ loop.spawn \in Nat /\ next.sequence \in Nat
  BY StagedFields, StateFields, LimitsAssumption
<1>3. Vessels = c
  BY <1>1, <1>2 DEF Vessels
<1>4. /\ state.revision < MaxRevision /\ next.revision = state.revision + 1
      /\ c \in 0..MaxVessels /\ c # l
      /\ \/ c < l /\ next.sequence = q
         \/ c >= l /\ next.sequence = q + (c - l) /\ c - l <= MaxSequence - q
  BY <1>3, Zenon DEF AtomicInv, CountStaged
<1>5. /\ visible.created = TRUE /\ visible.count = l /\ visible.sequence = q
      /\ visible.revision = state.revision
  BY DEF visible
<1> HIDE DEF c, l, q
<1>6. next.sequence = q + added /\ added <= MaxSequence - q
  BY <1>2, <1>4 DEF q
<1>7. visible.time + loop.credit = visible.time
  <2>1. /\ loop.credit = 0 /\ state.elapsed \in Nat /\ state.remainder \in Nat
        /\ SpeedScale \in Nat
    BY <1>1, StateFields, LimitsAssumption DEF AtomicInv, SameClock, Working
  <2>2. visible.time \in Nat
    BY <2>1 DEF visible
  <2> QED BY <2>1, <2>2
<1>8. visible' = [visible EXCEPT !.count = c,
                                 !.sequence = visible.sequence + added,
                                 !.revision = visible.revision + 1]
  <2>1. visible' = [visible EXCEPT !.created = visible.created, !.count = c,
                                   !.sequence = visible.sequence + added,
                                   !.time = visible.time,
                                   !.revision = visible.revision + 1]
    BY <1>4, <1>5, <1>6, <1>7, CommitVisible DEF c
  <2>2. "time" \in DOMAIN visible /\ "created" \in DOMAIN visible
    BY DEF visible
  <2> QED BY <2>1, <2>2
<1>9. Calls!SetCount(c)
  BY <1>4, <1>5, <1>6, <1>8 DEF Calls!SetCount
<1> QED BY <1>4, <1>9, CommitVisible DEF Calls!Next

\* The end of advance moves the clock by the time that was asked for.
LEMMA CommitAdvance ==
  ASSUME TypeInv, ClockInv, AtomicInv, Commit, Advancing
  PROVE  AtomicInv' /\ Calls!Next
<1> DEFINE n == Len(state.vessels)
<1>1. pc = "tick" /\ loop.tick > loop.last /\ ~InNew
  BY DEF Commit, Advancing, InNew
<1>2. AdvancePlan /\ AdvanceProgress
  BY DEF AtomicInv, AdvanceStaged
<1>3. next.sequence = state.sequence + TicksPassed * n
  <2>1. loop.tick \in loop.first..(loop.last + 1) /\ loop.vessel = 1
        /\ next.sequence = state.sequence + Emissions + (loop.vessel - 1)
    BY <1>1, <1>2 DEF AdvanceProgress
  <2>2. loop.last + 1 - loop.first = TicksPassed
    BY <1>2 DEF AdvancePlan
  <2>3. /\ loop.tick \in Nat /\ loop.first \in Nat /\ loop.last \in Nat
        /\ n \in Nat /\ state.sequence \in Nat
    BY StagedFields, StateFields
  <2>4. loop.tick - loop.first = TicksPassed
    BY <1>1, <2>1, <2>2, <2>3
  <2>5. TicksPassed \in Int
    BY <2>2, <2>3
  <2>6. Emissions = TicksPassed * n
    BY <2>4 DEF Emissions
  <2> HIDE DEF n
  <2>7. TicksPassed * n \in Int
    BY <2>3, <2>5
  <2> QED BY <2>1, <2>3, <2>6, <2>7
<1>4. Calls!Elapsed(visible) = state.elapsed /\ Calls!Remainder(visible) = state.remainder
  <2>1. visible.time = state.elapsed * SpeedScale + state.remainder
    BY DEF visible
  <2>2. /\ state.elapsed \in Nat /\ state.remainder \in Nat /\ SpeedScale \in Nat \ {0}
        /\ state.remainder < SpeedScale
    BY StateFields, LimitsAssumption DEF ClockInv, ClockExact
  <2>3. /\ (state.elapsed * SpeedScale + state.remainder) \div SpeedScale = state.elapsed
        /\ (state.elapsed * SpeedScale + state.remainder) % SpeedScale = state.remainder
    BY <2>2, DivExact
  <2> QED BY <2>1, <2>3 DEF Calls!Elapsed, Calls!Remainder
<1>5. Calls!Whole(loop.credit) = Passed
  BY <1>4 DEF Calls!Whole, Passed
<1>6. Calls!Ticks(loop.credit) = TicksPassed
  BY <1>2, <1>4, <1>5 DEF Calls!Ticks, TicksPassed, AdvancePlan
<1>7. /\ visible.created = TRUE /\ visible.count = n /\ visible.sequence = state.sequence
      /\ visible.revision = state.revision /\ visible.speed = state.speed
  BY <1>1 DEF visible
<1>8. Calls!CanMove(loop.credit)
  BY <1>2, <1>4, <1>5, <1>6, <1>7 DEF Calls!CanMove, AdvancePlan
<1>9. visible' = [visible EXCEPT
                    !.time = visible.time + loop.credit,
                    !.sequence = visible.sequence + Calls!Ticks(loop.credit) * visible.count,
                    !.revision = IF Calls!Whole(loop.credit) > 0 THEN visible.revision + 1
                                 ELSE visible.revision]
  <2>1. Len(next.vessels) = n
        /\ next.revision = IF Passed > 0 THEN state.revision + 1 ELSE state.revision
    BY <1>2 DEF AdvancePlan
  <2> DEFINE q == visible.sequence + Calls!Ticks(loop.credit) * visible.count
             r == IF Calls!Whole(loop.credit) > 0 THEN visible.revision + 1
                  ELSE visible.revision
             t == visible.time + loop.credit
  <2>2. next.sequence = q /\ next.revision = r
    BY <1>3, <1>5, <1>6, <1>7, <2>1
  <2> HIDE DEF q, r, t
  <2>3. visible' = [visible EXCEPT !.created = visible.created, !.count = visible.count,
                                   !.sequence = q, !.time = t, !.revision = r]
    BY <1>7, <2>1, <2>2, CommitVisible DEF t
  <2>4. /\ "count" \in DOMAIN visible /\ "created" \in DOMAIN visible
        /\ "time" \in DOMAIN visible /\ "sequence" \in DOMAIN visible
    BY DEF visible
  <2>5. visible' = [visible EXCEPT !.time = t, !.sequence = q, !.revision = r]
    BY <2>3, <2>4
  <2> QED BY <2>5 DEF q, r, t
<1>10. Calls!MoveTime(loop.credit)
  BY <1>7, <1>8, <1>9 DEF Calls!MoveTime
<1>11. CASE \E delta \in VirtualDeltas : loop.credit = delta * SpeedScale
  BY <1>10, <1>11, CommitVisible DEF Calls!Next, Calls!Advance
<1>12. CASE \E delta \in RealDeltas : loop.credit = delta * state.speed
  BY <1>7, <1>10, <1>12, CommitVisible DEF Calls!Next, Calls!Elapse
<1> QED BY <1>2, <1>11, <1>12 DEF AdvancePlan
-----------------------------------------------------------------------------
(***************************************************************************)
(* Calls that take one step                                                *)
(***************************************************************************)
LEMMA IdleStep ==
  ASSUME pc = "idle", pc' = "idle"
  PROVE  AtomicInv' /\ ~InNew /\ ~InNew'
<1>1. ~Working' /\ ~Counting' /\ ~Advancing' /\ ~InNew' /\ ~InNew
  BY DEF Working, Counting, Advancing, InNew
<1> QED BY <1>1 DEF AtomicInv, Kinds, NewStaged, CountStaged, AdvanceStaged

\* SetSpeed replaces the speed only.
LEMMA SetSpeedStep ==
  ASSUME TypeInv, NEW speed \in Speeds, SetSpeed(speed)
  PROVE  AtomicInv' /\ Calls!Next
<1>1. /\ pc = "idle" /\ pc' = "idle" /\ speed # state.speed /\ state.revision < MaxRevision
      /\ state' = [state EXCEPT !.speed = speed, !.revision = state.revision + 1]
  BY DEF SetSpeed, Idle
<1>2. /\ state'.speed = speed /\ state'.revision = state.revision + 1
      /\ state'.vessels = state.vessels /\ state'.sequence = state.sequence
      /\ state'.elapsed = state.elapsed /\ state'.remainder = state.remainder
      /\ state'.stations = state.stations /\ state'.lastStationID = state.lastStationID
      /\ state'.stationRevision = state.stationRevision
  BY <1>1, StateFields DEF StateRecord
<1>3. AtomicInv' /\ ~InNew /\ ~InNew'
  BY <1>1, IdleStep
<1>4. (~InNew)' = TRUE /\ (~InNew) = TRUE
  BY <1>3
<1>5. visible' = [visible EXCEPT !.speed = speed, !.revision = visible.revision + 1]
  <2> DEFINE g == [visible EXCEPT !.speed = speed, !.revision = visible.revision + 1]
  <2>1. /\ visible'.created = TRUE /\ visible'.count = Len(state'.vessels)
        /\ visible'.sequence = state'.sequence
        /\ visible'.time = state'.elapsed * SpeedScale + state'.remainder
        /\ visible'.speed = state'.speed /\ visible'.revision = state'.revision
        /\ visible'.lastStationID = state'.lastStationID
        /\ visible'.stationRevision = state'.stationRevision
    BY <1>4 DEF visible
  <2>2. visible'.stations = visible.stations
    BY <1>2, StationsKept
  <2>3. /\ g.created = visible.created /\ g.count = visible.count
        /\ g.sequence = visible.sequence /\ g.time = visible.time /\ g.speed = speed
        /\ g.revision = visible.revision + 1 /\ g.stations = visible.stations
        /\ g.lastStationID = visible.lastStationID
        /\ g.stationRevision = visible.stationRevision
    BY VisibleCall DEF IsCall
  <2>4. IsCall(g)
    BY VisibleCall DEF IsCall
  <2> HIDE DEF g
  <2>5. visible.created = TRUE
    BY <1>4 DEF visible
  <2>6. visible'.time = visible.time
    BY <1>2, <2>1, VisibleFields
  <2>7. /\ visible'.count = visible.count /\ visible'.sequence = visible.sequence
        /\ visible'.speed = speed /\ visible'.revision = visible.revision + 1
        /\ visible'.lastStationID = visible.lastStationID
        /\ visible'.stationRevision = visible.stationRevision
    BY <1>2, <2>1, VisibleFields
  <2>8. visible' = g
    BY <2>1, <2>2, <2>3, <2>4, <2>5, <2>6, <2>7, VisibleCall, SameCall
  <2> QED BY <2>8 DEF g
<1>6. Calls!SetSpeed(speed)
  BY <1>1, <1>4, <1>5, VisibleFields DEF Calls!SetSpeed
<1> QED BY <1>3, <1>6 DEF Calls!Next

\* A station as callers see it.
Named(station) == [id |-> station.id, definition |-> station.definition]

\* Stations are seen in their order.
LEMMA VisibleStations ==
  ASSUME TypeInv
  PROVE  /\ visible.stations \in Seq([id : Nat, definition : Definitions])
         /\ Len(visible.stations) = Len(state.stations)
         /\ DOMAIN visible.stations = 1..Len(state.stations)
         /\ DOMAIN state.stations = 1..Len(state.stations)
         /\ \A i \in 1..Len(state.stations) : visible.stations[i] = Named(state.stations[i])
         /\ Calls!StationIDs = StationIDs
<1> DEFINE n == Len(state.stations)
           vs == [i \in DOMAIN state.stations |-> Named(state.stations[i])]
<1>0. state.stations \in Seq(Station)
  BY StateFields
<1>1. /\ state.stations \in Seq(Station) /\ n \in Nat
      /\ DOMAIN state.stations = 1..n
  BY <1>0, LenProperties
<1>2. visible.stations = vs
  BY DEF visible, Named
<1>3. \A i \in 1..n : Named(state.stations[i]) \in [id : Nat, definition : Definitions]
  <2> SUFFICES ASSUME NEW i \in 1..n
               PROVE  Named(state.stations[i]) \in [id : Nat, definition : Definitions]
    OBVIOUS
  <2>1. state.stations[i] \in Station
    BY <1>1
  <2> QED BY <2>1 DEF Named, Station
<1>4. vs \in Seq([id : Nat, definition : Definitions]) /\ Len(vs) = n /\ DOMAIN vs = 1..n
  BY <1>1, <1>3
<1>5. \A i \in 1..n : vs[i] = Named(state.stations[i])
  BY <1>1
<1>6. Calls!StationIDs = StationIDs
  <2>1. \A i \in 1..n : visible.stations[i].id = state.stations[i].id
    BY <1>2, <1>5 DEF Named
  <2> QED BY <1>1, <1>2, <1>4, <2>1 DEF Calls!StationIDs, StationIDs
<1> QED BY <1>1, <1>2, <1>4, <1>5, <1>6

\* findStation finds the same station for both, because no two have one ID.
LEMMA SamePosition ==
  ASSUME TypeInv, NEW id \in StationIDs
  PROVE  /\ Calls!Position(id) = StationIndex(id)
         /\ StationIndex(id) \in 1..Len(state.stations)
<1> DEFINE n == Len(state.stations)
           i == StationIndex(id)
           j == Calls!Position(id)
<1>1. i \in 1..n /\ state.stations[i].id = id
  BY StationIndexType, VisibleStations
<1>a. DOMAIN visible.stations = 1..n
      /\ \A k \in 1..n : visible.stations[k].id = state.stations[k].id
  <2>1. DOMAIN visible.stations = 1..n
        /\ \A k \in 1..n : visible.stations[k] = Named(state.stations[k])
    BY VisibleStations
  <2>2. ASSUME NEW st PROVE Named(st).id = st.id
    BY DEF Named
  <2> QED BY <2>1, <2>2
<1>2. \E k \in DOMAIN visible.stations : visible.stations[k].id = id
  BY <1>1, <1>a
<1>3. j \in DOMAIN visible.stations /\ visible.stations[j].id = id
  BY <1>2, Zenon DEF Calls!Position
<1>4. j \in 1..n /\ state.stations[j].id = id
  BY <1>3, <1>a
<1>5. \A a, b \in 1..n : a < b => state.stations[a].id < state.stations[b].id
  BY VisibleStations DEF TypeInv, StationIDsOrdered
<1>6. n \in Nat /\ id \in Nat
  <2>1. state.stations[i] \in Station
    BY <1>1, StateFields
  <2> QED BY <1>1, <2>1, StagedFields DEF Station
<1> HIDE DEF i, j, n
<1>7. ~(i < j) /\ ~(j < i)
  BY <1>1, <1>4, <1>5, <1>6
<1>8. i = j
  BY <1>1, <1>4, <1>6, <1>7
<1> QED BY <1>1, <1>8 DEF i, j, n
\* What the three edits have in common: ss and last are what a caller sees of the edit.
LEMMA EditVisible ==
  ASSUME TypeInv, NEW expected, NEW ss, NEW last, pc = "idle", pc' = "idle",
         expected = state.stationRevision,
         state.stationRevision < MaxRevision, state.revision < MaxRevision,
         state'.lastStationID = last,
         state'.stationRevision = state.stationRevision + 1,
         state'.revision = state.revision + 1, state'.speed = state.speed,
         state'.vessels = state.vessels, state'.sequence = state.sequence,
         state'.elapsed = state.elapsed, state'.remainder = state.remainder,
         visible'.stations = ss
  PROVE  AtomicInv' /\ Calls!Edit(expected, ss, last)
<1> DEFINE g == [visible EXCEPT !.stations = ss, !.lastStationID = last,
                                !.stationRevision = visible.stationRevision + 1,
                                !.revision = visible.revision + 1]
<1>1. AtomicInv' /\ ~InNew /\ ~InNew'
  BY IdleStep
<1>2. (~InNew)' = TRUE /\ (~InNew) = TRUE
  BY <1>1
<1>3. /\ visible'.created = TRUE /\ visible'.count = Len(state'.vessels)
      /\ visible'.sequence = state'.sequence
      /\ visible'.time = state'.elapsed * SpeedScale + state'.remainder
      /\ visible'.speed = state'.speed /\ visible'.revision = state'.revision
      /\ visible'.lastStationID = state'.lastStationID
      /\ visible'.stationRevision = state'.stationRevision
      /\ visible.created = TRUE
  BY <1>2 DEF visible
<1>4. /\ g.created = visible.created /\ g.count = visible.count
      /\ g.sequence = visible.sequence /\ g.time = visible.time
      /\ g.speed = visible.speed /\ g.revision = visible.revision + 1 /\ g.stations = ss
      /\ g.lastStationID = last /\ g.stationRevision = visible.stationRevision + 1
  BY VisibleCall DEF IsCall
<1>5. IsCall(g)
  BY VisibleCall DEF IsCall
<1> HIDE DEF g
<1>6. visible'.time = visible.time
  BY <1>3, VisibleFields
<1>7. /\ visible'.count = visible.count /\ visible'.sequence = visible.sequence
      /\ visible'.speed = visible.speed /\ visible'.revision = visible.revision + 1
      /\ visible'.lastStationID = last
      /\ visible'.stationRevision = visible.stationRevision + 1
  BY <1>3, VisibleFields
<1>8. visible' = g
  BY <1>3, <1>4, <1>5, <1>6, <1>7, VisibleCall, SameCall
<1>9. /\ expected = visible.stationRevision /\ visible.revision < MaxRevision
       /\ visible.stationRevision < MaxRevision
  BY VisibleFields
<1>10. Calls!Edit(expected, ss, last)
  BY <1>3, <1>8, <1>9 DEF g, Calls!Edit
<1> QED BY <1>1, <1>10

\* What a caller sees of the stations after an edit.
LEMMA StationsSeen ==
  ASSUME NEW n \in Nat, NEW T, DOMAIN T = 1..n, state'.stations = T
  PROVE  /\ visible'.stations = [i \in 1..n |-> visible'.stations[i]]
         /\ \A i \in 1..n : visible'.stations[i] = Named(T[i])
<1>1. visible'.stations = [i \in DOMAIN state'.stations |->
                             [id |-> state'.stations[i].id,
                              definition |-> state'.stations[i].definition]]
  BY DEF visible
<1>2. visible'.stations = [i \in 1..n |-> Named(T[i])]
  BY <1>1 DEF Named
<1> QED BY <1>2

\* An added station is seen at the end, under the next identifier.
LEMMA AddStationStep ==
  ASSUME TypeInv, NEW expected, NEW d \in Definitions, AddStation(expected, d)
  PROVE  AtomicInv' /\ Calls!Next
<1> DEFINE id == state.lastStationID + 1
           new == NewStation(id, d, state.elapsed)
           S == state.stations
           n == Len(S)
           T == Append(S, new)
           vs == visible.stations
           seen == [id |-> id, definition |-> d]
           ss == Append(vs, seen)
<1>1. /\ pc = "idle" /\ pc' = "idle" /\ expected = state.stationRevision
      /\ n < MaxStations /\ state.lastStationID < MaxRevision
      /\ state.stationRevision < MaxRevision /\ state.revision < MaxRevision
      /\ state' = [state EXCEPT !.lastStationID = id, !.stations = T,
                                !.stationRevision = state.stationRevision + 1,
                                !.revision = state.revision + 1]
  BY DEF AddStation, Idle, NextStationID
<1>2. Named(new) = seen
  BY DEF Named, NewStation
<1>3. /\ n \in Nat /\ S \in Seq(Station)
      /\ vs \in Seq([id : Nat, definition : Definitions]) /\ Len(vs) = n
      /\ \A i \in 1..n : vs[i] = Named(S[i])
  BY StateFields, StagedFields, VisibleStations
<1>a. seen \in [id : Nat, definition : Definitions]
  BY StateFields
<1> HIDE DEF new, seen, S, vs, id
<1>4. /\ DOMAIN T = 1..(n + 1) /\ T[n + 1] = new
      /\ \A i \in 1..n : T[i] = S[i]
  BY <1>3, AppendProperties
<1>5. /\ ss = [i \in 1..(n + 1) |-> ss[i]] /\ ss[n + 1] = seen
      /\ \A i \in 1..n : ss[i] = vs[i]
  <2>1. /\ ss \in Seq([id : Nat, definition : Definitions]) /\ Len(ss) = n + 1
        /\ ss[n + 1] = seen /\ \A i \in 1..n : ss[i] = vs[i]
    BY <1>3, <1>a, AppendProperties
  <2> HIDE DEF ss
  <2>2. ss = [i \in 1..(n + 1) |-> ss[i]]
    BY <2>1
  <2> QED BY <2>1, <2>2
<1>6. /\ state'.stations = T /\ state'.lastStationID = id
      /\ state'.revision = state.revision + 1
      /\ state'.stationRevision = state.stationRevision + 1
      /\ state'.speed = state.speed
      /\ state'.vessels = state.vessels /\ state'.sequence = state.sequence
      /\ state'.elapsed = state.elapsed /\ state'.remainder = state.remainder
  BY <1>1, StateFields DEF StateRecord
<1> HIDE DEF T, ss
<1>7. /\ visible'.stations = [i \in 1..(n + 1) |-> visible'.stations[i]]
      /\ \A i \in 1..(n + 1) : visible'.stations[i] = Named(T[i])
  BY <1>3, <1>4, <1>6, StationsSeen
<1>8. \A i \in 1..(n + 1) : visible'.stations[i] = ss[i]
  <2> SUFFICES ASSUME NEW i \in 1..(n + 1) PROVE visible'.stations[i] = ss[i]
    OBVIOUS
  <2>1. visible'.stations[i] = Named(T[i])
    BY <1>7
  <2>2. CASE i \in 1..n
    BY <1>3, <1>4, <1>5, <2>1, <2>2
  <2>3. CASE i = n + 1
    BY <1>2, <1>4, <1>5, <2>1, <2>3
  <2> QED BY <1>3, <2>2, <2>3
<1>9. visible'.stations = ss
  BY <1>5, <1>7, <1>8
<1>10. AtomicInv' /\ Calls!Edit(expected, ss, id)
  BY <1>1, <1>6, <1>9, EditVisible
<1>11. Calls!AddStation(visible.stationRevision, d)
  BY <1>1, <1>3, <1>10, VisibleFields DEF Calls!AddStation, id, seen, ss, vs
<1> QED BY <1>10, <1>11 DEF Calls!Next
\* An edited station is seen with its new definition.
LEMMA UpdateStationStep ==
  ASSUME TypeInv, NEW expected, NEW id \in StationIDs, NEW d \in Definitions,
         UpdateStation(expected, id, d)
  PROVE  AtomicInv' /\ Calls!Next
<1> DEFINE S == state.stations
           n == Len(S)
           i == StationIndex(id)
           e == Edited(S[i], d)
           T == [S EXCEPT ![i] = e]
           vs == visible.stations
           ss == [vs EXCEPT ![i].definition = d]
<1>1. /\ pc = "idle" /\ pc' = "idle" /\ expected = state.stationRevision
      /\ d # S[i].definition
      /\ state.stationRevision < MaxRevision /\ state.revision < MaxRevision
      /\ state' = [state EXCEPT !.stations[i] = e,
                                !.stationRevision = state.stationRevision + 1,
                                !.revision = state.revision + 1]
  BY DEF UpdateStation, Idle
<1>2. /\ n \in Nat /\ S \in Seq(Station) /\ DOMAIN S = 1..n
      /\ vs \in Seq([id : Nat, definition : Definitions])
      /\ Len(vs) = n /\ DOMAIN vs = 1..n
      /\ \A k \in 1..n : vs[k] = Named(S[k])
  BY StateFields, StagedFields, VisibleStations
<1>3. i \in 1..n /\ Calls!Position(id) = i /\ id \in Calls!StationIDs
  BY SamePosition, VisibleStations
<1>4. S[i] \in Station
  BY <1>2, <1>3
<1>5. Named(e) = [id |-> S[i].id, definition |-> d]
  <2>1. e.id = S[i].id /\ e.definition = d
    BY <1>4 DEF Edited, Station
  <2> QED BY <2>1 DEF Named
<1>6. /\ state'.stations = T /\ state'.lastStationID = state.lastStationID
      /\ state'.revision = state.revision + 1
      /\ state'.stationRevision = state.stationRevision + 1
      /\ state'.speed = state.speed
      /\ state'.vessels = state.vessels /\ state'.sequence = state.sequence
      /\ state'.elapsed = state.elapsed /\ state'.remainder = state.remainder
  BY <1>1, StateFields DEF StateRecord
<1>7. DOMAIN T = 1..n /\ T[i] = e /\ \A k \in 1..n : k # i => T[k] = S[k]
  BY <1>2, <1>3
<1>8. /\ ss = [k \in 1..n |-> ss[k]] /\ ss[i] = [id |-> S[i].id, definition |-> d]
      /\ \A k \in 1..n : k # i => ss[k] = vs[k]
  <2>1. vs[i] = [id |-> S[i].id, definition |-> S[i].definition]
    BY <1>2, <1>3 DEF Named
  <2>2. ss = [k \in 1..n |-> ss[k]] /\ \A k \in 1..n : k # i => ss[k] = vs[k]
    BY <1>2
  <2>3. ss[i] = [vs[i] EXCEPT !.definition = d]
    BY <1>2, <1>3
  <2> QED BY <2>1, <2>2, <2>3
<1>9. vs[i].definition = S[i].definition
  <2>1. vs[i] = Named(S[i])
    BY <1>2, <1>3
  <2> QED BY <2>1 DEF Named
<1> HIDE DEF e, S, vs, i, T, ss
<1>10. /\ visible'.stations = [k \in 1..n |-> visible'.stations[k]]
       /\ \A k \in 1..n : visible'.stations[k] = Named(T[k])
  BY <1>2, <1>6, <1>7, StationsSeen
<1>11. \A k \in 1..n : visible'.stations[k] = ss[k]
  <2> SUFFICES ASSUME NEW k \in 1..n PROVE visible'.stations[k] = ss[k]
    OBVIOUS
  <2>1. visible'.stations[k] = Named(T[k])
    BY <1>10
  <2>2. CASE k = i
    BY <1>5, <1>7, <1>8, <2>1, <2>2
  <2>3. CASE k # i
    BY <1>2, <1>7, <1>8, <2>1, <2>3
  <2> QED BY <2>2, <2>3
<1>12. visible'.stations = ss
  BY <1>8, <1>10, <1>11
<1>13. AtomicInv' /\ Calls!Edit(expected, ss, state.lastStationID)
  BY <1>1, <1>6, <1>12, EditVisible
<1>14. Calls!UpdateStation(visible.stationRevision, id, d)
  <2>1. visible.stations[i].definition # d
    BY <1>1, <1>9 DEF vs, S
  <2>2. Calls!Edit(visible.stationRevision, [visible.stations EXCEPT ![i].definition = d],
                   visible.lastStationID)
    BY <1>1, <1>13, VisibleFields DEF ss, vs
  <2> QED BY <1>3, <2>1, <2>2 DEF Calls!UpdateStation
<1> QED BY <1>3, <1>13, <1>14 DEF Calls!Next

\* A removed station is not seen, and the others keep their order.
LEMMA RemoveStationStep ==
  ASSUME TypeInv, NEW expected, NEW id \in StationIDs, RemoveStation(expected, id)
  PROVE  AtomicInv' /\ Calls!Next
<1> DEFINE S == state.stations
           n == Len(S)
           i == StationIndex(id)
           T == RemoveAt(S, i)
           vs == visible.stations
           ss == RemoveAt(vs, i)
<1>1. /\ pc = "idle" /\ pc' = "idle" /\ expected = state.stationRevision
      /\ state.stationRevision < MaxRevision /\ state.revision < MaxRevision
      /\ state' = [state EXCEPT !.stations = T,
                                !.stationRevision = state.stationRevision + 1,
                                !.revision = state.revision + 1]
  BY DEF RemoveStation, Idle
<1>2. /\ n \in Nat /\ S \in Seq(Station)
      /\ vs \in Seq([id : Nat, definition : Definitions]) /\ Len(vs) = n
      /\ \A k \in 1..n : vs[k] = Named(S[k])
  BY StateFields, StagedFields, VisibleStations
<1>3. i \in 1..n /\ Calls!Position(id) = i /\ id \in Calls!StationIDs
  BY SamePosition, VisibleStations
<1>4. /\ state'.stations = T /\ state'.lastStationID = state.lastStationID
      /\ state'.revision = state.revision + 1
      /\ state'.stationRevision = state.stationRevision + 1
      /\ state'.speed = state.speed
      /\ state'.vessels = state.vessels /\ state'.sequence = state.sequence
      /\ state'.elapsed = state.elapsed /\ state'.remainder = state.remainder
  BY <1>1, StateFields DEF StateRecord
<1> HIDE DEF S, vs, i
<1>5. /\ T \in Seq(Station) /\ Len(T) = n - 1
      /\ \A k \in 1..(n - 1) : T[k] = IF k < i THEN S[k] ELSE S[k + 1]
  BY <1>2, <1>3, RemoveAtProperties
<1>6. /\ ss \in Seq([id : Nat, definition : Definitions]) /\ Len(ss) = n - 1
      /\ \A k \in 1..(n - 1) : ss[k] = IF k < i THEN vs[k] ELSE vs[k + 1]
  BY <1>2, <1>3, RemoveAtProperties
<1> HIDE DEF T, ss
<1>7. n - 1 \in Nat /\ DOMAIN T = 1..(n - 1) /\ ss = [k \in 1..(n - 1) |-> ss[k]]
  BY <1>2, <1>3, <1>5, <1>6
<1>8. /\ visible'.stations = [k \in 1..(n - 1) |-> visible'.stations[k]]
      /\ \A k \in 1..(n - 1) : visible'.stations[k] = Named(T[k])
  BY <1>4, <1>7, StationsSeen
<1>9. \A k \in 1..(n - 1) : visible'.stations[k] = ss[k]
  <2> SUFFICES ASSUME NEW k \in 1..(n - 1) PROVE visible'.stations[k] = ss[k]
    OBVIOUS
  <2>1. visible'.stations[k] = Named(T[k])
    BY <1>8
  <2>2. k \in 1..n /\ k + 1 \in 1..n
    BY <1>2
  <2>3. vs[k] = Named(S[k]) /\ vs[k + 1] = Named(S[k + 1])
    BY <1>2, <2>2
  <2> QED BY <1>5, <1>6, <2>1, <2>3
<1>10. visible'.stations = ss
  BY <1>7, <1>8, <1>9
<1>11. AtomicInv' /\ Calls!Edit(expected, ss, state.lastStationID)
  BY <1>1, <1>4, <1>10, EditVisible
<1>12. Calls!RemoveAt(vs, i) = ss
  BY DEF ss, RemoveAt, Calls!RemoveAt
<1>13. Calls!RemoveStation(visible.stationRevision, id)
  <2>1. Calls!Edit(visible.stationRevision, Calls!RemoveAt(visible.stations, i),
                   visible.lastStationID)
    BY <1>1, <1>11, <1>12, VisibleFields DEF vs
  <2> QED BY <1>3, <2>1 DEF Calls!RemoveStation
<1> QED BY <1>3, <1>11, <1>13 DEF Calls!Next
-----------------------------------------------------------------------------
(***************************************************************************)
(* The refinement                                                          *)
(***************************************************************************)
\* No committed report has a number that cannot be encoded.
SequenceInv == state.sequence <= MaxSequence

\* What the calls promise keeps the sequence below its limit.
LEMMA SequenceStep ==
  ASSUME TypeInv, SequenceInv, [Calls!Next]_visible
  PROVE  SequenceInv'
<1>1. visible.sequence = state.sequence /\ visible'.sequence = state'.sequence
  BY DEF visible
<1> SUFFICES visible'.sequence <= MaxSequence
  BY <1>1 DEF SequenceInv
<1>2. /\ visible.sequence \in Nat /\ visible.sequence <= MaxSequence /\ MaxSequence \in Nat
      /\ "sequence" \in DOMAIN visible /\ visible.count \in Nat
  BY <1>1, StateFields, StagedFields, VisibleFields, VisibleCall, LimitsAssumption
     DEF SequenceInv, IsCall
<1>3. ASSUME Calls!New PROVE visible'.sequence <= MaxSequence
  BY <1>2, <1>3, ConfigAssumption DEF Calls!New
<1>4. ASSUME NEW count \in 0..MaxVessels, Calls!SetCount(count)
      PROVE  visible'.sequence <= MaxSequence
  <2> DEFINE added == IF count > visible.count THEN count - visible.count ELSE 0
  <2>1. /\ added <= MaxSequence - visible.sequence
        /\ visible' = [visible EXCEPT !.count = count,
                                      !.sequence = visible.sequence + added,
                                      !.revision = visible.revision + 1]
    BY <1>4 DEF Calls!SetCount
  <2>2. added \in Int
    BY <1>2, LimitsAssumption
  <2> HIDE DEF added
  <2> QED BY <1>2, <2>1, <2>2
<1>5. ASSUME NEW span \in Nat, Calls!MoveTime(span)
      PROVE  visible'.sequence <= MaxSequence
  <2> DEFINE added == Calls!Ticks(span) * visible.count
  <2>1. /\ added <= MaxSequence - visible.sequence
        /\ visible'.sequence = visible.sequence + added
    BY <1>2, <1>5 DEF Calls!MoveTime, Calls!CanMove
  <2>2. added \in Int
    <3>1. /\ visible.time \in Nat /\ SpeedScale \in Nat \ {0}
          /\ TickInterval \in Nat \ {0}
      <4>1. /\ state.elapsed \in Nat /\ state.remainder \in Nat
            /\ SpeedScale \in Nat \ {0} /\ TickInterval \in Nat \ {0}
        BY StateFields, LimitsAssumption
      <4>2. state.elapsed * SpeedScale + state.remainder \in Nat
        BY <4>1
      <4> QED BY <4>1, <4>2, VisibleFields
    <3>2. Calls!Elapsed(visible) \in Nat /\ Calls!Remainder(visible) \in Nat
      BY <3>1, DivMod DEF Calls!Elapsed, Calls!Remainder
    <3>3. Calls!Whole(span) \in Nat
      BY <3>1, <3>2, DivMod DEF Calls!Whole
    <3>4. Calls!Ticks(span) \in Int
      <4>1. /\ Calls!Elapsed(visible) + Calls!Whole(span) \in Nat
        BY <3>2, <3>3
      <4>2. /\ (Calls!Elapsed(visible) + Calls!Whole(span)) \div TickInterval \in Nat
            /\ Calls!Elapsed(visible) \div TickInterval \in Nat
        BY <3>1, <3>2, <4>1, DivMod
      <4> QED BY <4>2 DEF Calls!Ticks
    <3> QED BY <1>2, <3>4
  <2> HIDE DEF added
  <2> QED BY <1>2, <2>1, <2>2
<1>6. ASSUME NEW speed, Calls!SetSpeed(speed) PROVE visible'.sequence <= MaxSequence
  BY <1>2, <1>6 DEF Calls!SetSpeed
<1>7. ASSUME NEW expected, NEW ss, NEW last, Calls!Edit(expected, ss, last)
      PROVE  visible'.sequence <= MaxSequence
  BY <1>2, <1>7 DEF Calls!Edit
<1>8. CASE Calls!Next
  <2>1. ASSUME NEW delta \in VirtualDeltas, Calls!Advance(delta)
        PROVE  visible'.sequence <= MaxSequence
    <3>1. delta * SpeedScale \in Nat
      BY InputsAssumption, LimitsAssumption
    <3> QED BY <1>5, <2>1, <3>1 DEF Calls!Advance
  <2>2. ASSUME NEW delta \in RealDeltas, Calls!Elapse(delta)
        PROVE  visible'.sequence <= MaxSequence
    <3>1. delta * visible.speed \in Nat
      BY InputsAssumption, StateFields, VisibleFields
    <3> QED BY <1>5, <2>2, <3>1 DEF Calls!Elapse
  <2>3. ASSUME NEW d, Calls!AddStation(visible.stationRevision, d)
        PROVE  visible'.sequence <= MaxSequence
    BY <1>7, <2>3 DEF Calls!AddStation
  <2>4. ASSUME NEW id, NEW d, Calls!UpdateStation(visible.stationRevision, id, d)
        PROVE  visible'.sequence <= MaxSequence
    BY <1>7, <2>4 DEF Calls!UpdateStation
  <2>5. ASSUME NEW id, Calls!RemoveStation(visible.stationRevision, id)
        PROVE  visible'.sequence <= MaxSequence
    BY <1>7, <2>5 DEF Calls!RemoveStation
  <2> QED BY <1>3, <1>4, <1>6, <1>8, <2>1, <2>2, <2>3, <2>4, <2>5, Zenon DEF Calls!Next
<1>9. CASE visible' = visible
  BY <1>2, <1>9
<1> QED BY <1>8, <1>9

\* Every step of the engine is a call or is not seen.
LEMMA NextAtomic ==
  ASSUME TypeInv, ClockInv, AtomicInv, SequenceInv, [Next]_vars
  PROVE  AtomicInv' /\ [Calls!Next]_visible
<1>1. ASSUME NEW count \in 0..MaxVessels, BeginSetCount(count)
      PROVE  AtomicInv' /\ visible' = visible
  BY <1>1, BeginSetCountStep
<1>2. ASSUME NEW delta \in VirtualDeltas, BeginAdvance(delta)
      PROVE  AtomicInv' /\ visible' = visible
  BY <1>2, BeginAdvanceStep
<1>3. ASSUME NEW delta \in RealDeltas, BeginElapse(delta)
      PROVE  AtomicInv' /\ visible' = visible
  BY <1>3, BeginElapseStep
<1>4. ASSUME NEW speed \in Speeds, SetSpeed(speed)
      PROVE  AtomicInv' /\ Calls!Next
  BY <1>4, SetSpeedStep
<1>5. ASSUME NEW expected, NEW d \in Definitions, AddStation(expected, d)
      PROVE  AtomicInv' /\ Calls!Next
  BY <1>5, AddStationStep
<1>6. ASSUME NEW expected, NEW id \in StationIDs, NEW d \in Definitions,
             UpdateStation(expected, id, d)
      PROVE  AtomicInv' /\ Calls!Next
  BY <1>6, UpdateStationStep
<1>7. ASSUME NEW expected, NEW id \in StationIDs, RemoveStation(expected, id)
      PROVE  AtomicInv' /\ Calls!Next
  BY <1>7, RemoveStationStep
<1>8. ASSUME Spawn \/ SpawnFails PROVE AtomicInv' /\ visible' = visible
  BY <1>8, SpawnStep, SpawnFailsStep
<1>9. ASSUME TickVessel \/ TickEnd PROVE AtomicInv' /\ visible' = visible
  BY <1>9, TickVesselStep, TickEndStep
<1>10. ASSUME Cancel PROVE AtomicInv' /\ visible' = visible
  <2>1. state' = state /\ pc = "tick" /\ pc' = "idle"
    BY <1>10 DEF Cancel, Drop
  <2>2. ~InNew
    BY <2>1 DEF InNew
  <2> QED BY <2>1, <2>2, NothingStaged
<1>11. ASSUME NEW outcome \in Outcomes, Receive(outcome)
       PROVE  AtomicInv' /\ visible' = visible
  BY <1>11, ReceiveStep
<1>12. ASSUME ReceiveFails \/ ReceiveEnd PROVE AtomicInv' /\ visible' = visible
  BY <1>12, ReceiveFailsStep, ReceiveEndStep
<1>13. ASSUME Commit PROVE AtomicInv' /\ Calls!Next
  <2>1. Counting \/ Advancing
    BY <1>13 DEF Commit, AtomicInv, Kinds, Working
  <2> QED BY <1>13, <2>1, CommitNew, CommitCount, CommitAdvance DEF SequenceInv
<1>14. ASSUME ApplyRecord \/ Finish PROVE AtomicInv' /\ visible' = visible
  <2>1. state' = state /\ pc = "apply" /\ pc' \in {"idle", "apply"}
    BY <1>14 DEF ApplyRecord, Finish, Drop
  <2>2. ~InNew
    BY <2>1 DEF InNew
  <2> QED BY <2>1, <2>2, NothingStaged
<1>15. CASE UNCHANGED vars
  <2>1. /\ state' = state /\ pc' = pc /\ next' = next /\ loop' = loop /\ batch' = batch
    BY <1>15 DEF vars
  <2>2. InNew' <=> InNew
    BY <2>1 DEF InNew
  <2>3. AtomicInv'
    BY <2>1 DEF AtomicInv, Kinds, Working, Counting, Advancing, SameClock, NewStaged, InNew,
                Vessels, CountStaged, AdvanceStaged, AdvancePlan, AdvanceProgress, Passed,
                TicksPassed, Emissions
  <2> QED BY <2>1, <2>2, <2>3, Unseen
<1>16. CASE Next
  BY <1>1, <1>2, <1>3, <1>4, <1>5, <1>6, <1>7, <1>8, <1>9, <1>10, <1>11, <1>12, <1>13,
     <1>14, <1>16, Zenon DEF Next
<1> QED BY <1>15, <1>16

\* Every call takes effect at one instant or not at all, for every configuration
\* that New accepts: a method that is cancelled, that fails or that is still in
\* its loops has done nothing a caller can see (SetCount, advance, commit).
THEOREM AtomicCorrect == Spec => Atomic
<1>1. Init => TypeInv /\ ClockInv /\ AtomicInv /\ SequenceInv /\ Calls!Init
  <2>1. Init => SequenceInv
    BY LimitsAssumption DEF Init, SequenceInv
  <2> QED BY <2>1, TypeInit, ClockInit, AtomicInit
<1>2. TypeInv /\ ClockInv /\ AtomicInv /\ SequenceInv /\ [Next]_vars
      => TypeInv' /\ ClockInv' /\ AtomicInv' /\ SequenceInv' /\ [Calls!Next]_visible
  BY TypeStep, ClockStep, NextAtomic, SequenceStep
<1> QED BY <1>1, <1>2, PTL DEF Spec, Atomic, Calls!Spec
=============================================================================
