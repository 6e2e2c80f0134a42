---------------------------- MODULE EngineReads ----------------------------
(***************************************************************************)
(* What the engine answers to its readers, in the order in which the API   *)
(* sends it: snapshots of the received traffic for a selection of          *)
(* stations, and pages of the reception history of one station.            *)
(*                                                                         *)
(* A read holds the engine's lock, so it sees one committed state, and it  *)
(* changes nothing: it is an operator of the state at pc = "idle".         *)
(***************************************************************************)
EXTENDS Engine

CONSTANTS
  RecentReceptionLimit,   \* receptions of a snapshot's sample
  FreshAge,
  StaleAge,
  Millisecond,            \* the unit in which answers give a duration
  TextRank                \* station ID -> its place among the IDs as text

ASSUME ReadsAssumption ==
  /\ {RecentReceptionLimit, FreshAge, StaleAge, Millisecond} \subseteq Nat \ {0}
  /\ FreshAge < StaleAge /\ StaleAge < ExpiryAge

\* Two stations never have the same ID, as a number or as text.
ASSUME TextAssumption ==
  \A a, b \in 1..MaxRevision :
    TextRank[a] \in Int /\ (TextRank[a] = TextRank[b] => a = b)

StationOf(id) == state.stations[StationIndex(id)]

\* The API sorts by station ID, which is text: station-10 before station-2.
TextBefore(a, b) == TextRank[a] < TextRank[b]

\* What is known of a target goes by the station that knows it.
StationBefore(a, b) == TextBefore(a.station, b.station)

Below(a, b) == a < b

\* The elements of a finite set, by an order that is total on it.
Sorted(S, before(_, _)) ==
  [k \in 1..Cardinality(S) |->
     CHOOSE x \in S : Cardinality({y \in S : before(y, x)}) = k - 1]

-----------------------------------------------------------------------------
(***************************************************************************)
(* Recent counters                                                         *)
(***************************************************************************)

\* The sum of the values of a function.
SumOver(f) == MapThenSumSet(LAMBDA k : f[k], DOMAIN f)

\* observation: the buckets inside the window at the committed instant.
Window(id) ==
  LET current == state.elapsed \div TickInterval
  IN {b \in DOMAIN stats[id].buckets :
        LET s == stats[id].buckets[b].second
        IN s > current - RateBuckets /\ s <= current}

RecentOpportunities(id) ==
  SumOver([b \in Window(id) |-> stats[id].buckets[b].opportunities])

RecentReceived(id) ==
  SumOver([b \in Window(id) |-> stats[id].buckets[b].received])

RecentDuration(id) == Min({RateBuckets * TickInterval, state.elapsed - StationOf(id).createdAt})

\* A duration as an answer gives it, in whole milliseconds.
Milliseconds(duration) == duration \div Millisecond

\* ratio, and a rate over a duration: the quotient, or null over nothing.
Null == <<>>
Ratio(part, whole) == IF whole = 0 THEN Null ELSE <<part, whole>>

-----------------------------------------------------------------------------
(***************************************************************************)
(* Snapshots                                                               *)
(***************************************************************************)

TargetStatus(age) ==
  IF age <= FreshAge THEN "fresh" ELSE IF age <= StaleAge THEN "stale" ELSE "lost"

AgeOf(r) == state.elapsed - r.timestamp
IsLost(r) == TargetStatus(AgeOf(r)) = "lost"

\* selectStations: an empty selection selects every station.
Selected(selection) == IF selection = {} THEN StationIDs ELSE selection

\* Mutant: the chosen report is the one of the first station.
ChosenFirst(observations) ==
  CHOOSE r \in observations :
    \A q \in observations : StationIndex(r.station) <= StationIndex(q.station)

\* Mutant: the chosen report shows its station's receiver as it is now.
ChosenPresent(observations) ==
  LET newest == CHOOSE r \in observations :
                  \A q \in observations \ {r} :
                    \/ r.transmission > q.transmission
                    \/ /\ r.transmission = q.transmission
                       /\ StationIndex(r.station) < StationIndex(q.station)
  IN [newest EXCEPT !.receiver = Receiver(StationOf(newest.station).definition, newest.channel)]

\* observedTarget: the newest transmission, from the first station that has it.
Chosen(observations) ==
  CHOOSE r \in observations :
    \A q \in observations \ {r} :
      \/ r.transmission > q.transmission
      \/ r.transmission = q.transmission /\ StationIndex(r.station) < StationIndex(q.station)

TargetStation(r, chosen) ==
  [station |-> r.station, enabled |-> StationOf(r.station).definition.enabled,
   sequence |-> r.sequence, transmission |-> r.transmission, timestamp |-> r.timestamp,
   channel |-> r.channel, rfRevision |-> r.rfRevision, age |-> Milliseconds(AgeOf(r)),
   status |-> TargetStatus(AgeOf(r)), chosen |-> r.transmission = chosen.transmission]

Provenance(observations) ==
  Sorted({TargetStation(r, Chosen(observations)) : r \in observations}, StationBefore)

ObservedTarget(m, observations) ==
  LET chosen == Chosen(observations)
  IN [mmsi |-> m, report |-> chosen, age |-> Milliseconds(AgeOf(chosen)),
      status |-> TargetStatus(AgeOf(chosen)), stations |-> Provenance(observations)]

\* The observations of target m at the selected stations.
ObservedBy(m, selected) == {r \in targets[m].observations : r.station \in selected}

\* A target that no selected station observes is left out.
ObservedTargets(selected) ==
  LET shown == {m \in DOMAIN targets : ObservedBy(m, selected) # {}}
      order == Sorted(shown, Below)
  IN [k \in DOMAIN order |-> ObservedTarget(order[k], ObservedBy(order[k], selected))]

\* The newest n elements of a sequence.
Newest(s, n) == IF Len(s) > n THEN SubSeq(s, Len(s) - n + 1, Len(s)) ELSE s

\* Receptions go by instant and transmission; the same transmission at two
\* stations goes by their place in the engine, and in an answer by their text.
Earlier(a, b) ==
  \/ a.timestamp < b.timestamp
  \/ a.timestamp = b.timestamp /\ a.transmission < b.transmission

Together(a, b) == a.timestamp = b.timestamp /\ a.transmission = b.transmission

StoredBefore(a, b) ==
  \/ Earlier(a, b)
  \/ Together(a, b) /\ StationIndex(a.station) < StationIndex(b.station)

SentBefore(a, b) ==
  \/ Earlier(a, b)
  \/ Together(a, b) /\ StationBefore(a, b)

\* recentReceptions: the newest of the selected stations' newest receptions.
RecentReceptions(selected) ==
  LET candidates == UNION {ToSet(Newest(history[id], RecentReceptionLimit)) : id \in selected}
      sample == Newest(Sorted(candidates, StoredBefore), RecentReceptionLimit)
  IN Sorted(ToSet(sample), SentBefore)

\* The observations of a station, selected or not, that are lost or current.
CountObservations(id, lost) ==
  Cardinality({r \in AllObservations(targets) : r.station = id /\ IsLost(r) = lost})

\* Bounds of what is retained; None when nothing was received.
None == -1
Oldest(id) == IF history[id] = <<>> THEN None ELSE history[id][1].sequence
Latest(id) == IF history[id] = <<>> THEN None ELSE stats[id].lastReception

StationObservation(id) ==
  [station |-> StationOf(id), counters |-> stats[id],
   receiveRatio |-> Ratio(stats[id].outcome["received"], stats[id].opportunities),
   recentDuration |-> Milliseconds(RecentDuration(id)),
   recentOpportunities |-> RecentOpportunities(id), recentReceived |-> RecentReceived(id),
   opportunityRate |-> Ratio(RecentOpportunities(id), RecentDuration(id)),
   receptionRate |-> Ratio(RecentReceived(id), RecentDuration(id)),
   recentReceiveRatio |-> Ratio(RecentReceived(id), RecentOpportunities(id)),
   oldest |-> Oldest(id), latest |-> Latest(id),
   current |-> CountObservations(id, FALSE), lost |-> CountObservations(id, TRUE)]

\* The answer for a selection, {} meaning all stations.
Observations(selection) ==
  LET selected == Selected(selection)
      observed == ObservedTargets(selected)
      lost == {k \in DOMAIN observed : observed[k].status = "lost"}
      order == Sorted(StationIDs, TextBefore)
  IN [revision |-> state.revision, stationRevision |-> state.stationRevision,
      snapshotAt |-> state.elapsed, now |-> state.elapsed, speed |-> state.speed,
      paused |-> state.speed = 0, selection |-> Sorted(selected, TextBefore),
      stations |-> [k \in DOMAIN order |-> StationObservation(order[k])],
      targets |-> observed, recent |-> RecentReceptions(selected),
      transmissions |-> state.sequence,
      receivedTransmissions |-> totals.receivedTransmissions,
      receptions |-> totals.receptions,
      currentTargets |-> Len(observed) - Cardinality(lost),
      lostTargets |-> Cardinality(lost)]

-----------------------------------------------------------------------------
(***************************************************************************)
(* Pages of the reception history                                          *)
(***************************************************************************)
NoCursor == -1

\* Mutant: a cursor just before the oldest retained reception reports a gap.
GapAfterOff(after, oldest) == after < oldest

GapAfter(after, oldest) == after < oldest - 1

\* The retained receptions that a page after a cursor skips.
FirstAfter(after, oldest) == Max({after + 1, oldest}) - oldest

\* A cursor above the latest reception is refused: PageRejected.
PageRejected(id, after) == after # NoCursor /\ after > stats[id].lastReception

ReceptionHistory(id, after, limit) ==
  LET h == history[id]
      retained == Len(h)
      latest == stats[id].lastReception
      oldest == Oldest(id)
      behind == after # NoCursor /\ retained > 0 /\ after < latest
      from == IF after = NoCursor THEN Max({retained - limit, 0})
              ELSE IF behind THEN FirstAfter(after, oldest)
              ELSE retained
      to == Min({from + limit, retained})
  IN [station |-> id, tail |-> after = NoCursor, oldest |-> oldest, latest |-> Latest(id),
      truncatedBefore |-> IF oldest > 1 THEN oldest ELSE None,
      receptions |-> SubSeq(h, from + 1, to),
      nextAfter |-> IF to > from THEN h[to].sequence
                    ELSE IF after = NoCursor THEN 0 ELSE after,
      hasMore |-> to < retained,
      gap |-> behind /\ GapAfter(after, oldest)]

\* Paging never skips a reception in silence: a page after a cursor holds the
\* first retained receptions above it, and reports a gap exactly when one above
\* it is no longer retained; more is promised exactly when more is retained.
PagingComplete ==
  Idle =>
    \A id \in StationIDs, limit \in 1..ReceptionHistoryLimit :
      \A after \in 0..stats[id].lastReception :
        LET page == ReceptionHistory(id, after, limit)
            sent == {page.receptions[k].sequence : k \in DOMAIN page.receptions}
            retained == {history[id][k].sequence : k \in DOMAIN history[id]}
            above == (after + 1)..stats[id].lastReception
        IN /\ sent \subseteq above \cap retained
           /\ Cardinality(sent) = Min({limit, Cardinality(above \cap retained)})
           /\ \A s \in sent, q \in (above \cap retained) \ sent : s < q
           /\ page.gap <=> above \ retained # {}
           /\ page.hasMore <=> (above \cap retained) \ sent # {}
           /\ page.nextAfter = Max(sent \cup {after})
=============================================================================
