----------------------------- MODULE Projection -----------------------------
(***************************************************************************)
(* The display's checks of an answer of the simulator (package display).   *)
(*                                                                         *)
(* The display trusts nothing: it accepts a snapshot or a page only if it  *)
(* is consistent with itself and with the request, and otherwise drops all *)
(* of it.  The simulator and the display share no code here: the checks    *)
(* are stated against the answers of EngineReads.                          *)
(*                                                                         *)
(* Left out are the checks of what the model has no state for: the         *)
(* metadata and settings, which are constants of the run (with the ranges  *)
(* of speed), the run that a page names, presence of fields that are       *)
(* always sent, ranges of coordinates, decibels, link values and finite    *)
(* numbers, the geometry of the coverage, and the decoding of a sentence,  *)
(* which only its transmission determines.                                 *)
(***************************************************************************)
EXTENDS EngineReads

Elements(s) == {s[k] : k \in DOMAIN s}

-----------------------------------------------------------------------------
(***************************************************************************)
(* Snapshots                                                               *)
(***************************************************************************)
\* validateTime, and the instant of the snapshot.
TimeValid(o) ==
  /\ o.now >= 0 /\ Milliseconds(o.now) >= 0
  /\ o.paused = (o.speed = 0)
  /\ o.snapshotAt = o.now

\* validateRatio: null exactly without opportunities, and at most 1.
RatioValid(ratio, whole) ==
  /\ (ratio = Null) = (whole = 0)
  /\ ratio # Null => ratio[1] \in 0..ratio[2]

\* validateCounters
CountersValid(s) ==
  LET c == s.counters
      received == c.outcome["received"]
  IN /\ SumOver(c.outcome) = c.opportunities
     /\ SumOver([k \in Channels |-> c.channel[k].opportunities]) = c.opportunities
     /\ SumOver([k \in Channels |-> c.channel[k].received]) = received
     /\ \A k \in Channels : c.channel[k].received <= c.channel[k].opportunities
     /\ s.recentDuration \in 0..Milliseconds(RateBuckets * TickInterval)
     /\ s.recentReceived <= s.recentOpportunities
     /\ s.recentOpportunities <= c.opportunities
     /\ s.recentReceived <= received
     /\ (s.opportunityRate = Null) = (s.receptionRate = Null)
     /\ s.recentDuration > 0 => s.opportunityRate # Null
     /\ (s.oldest = None) = (s.latest = None)
     /\ (s.latest = None) = (received = 0)
     /\ s.latest # None =>
          /\ s.oldest \in 1..s.latest
          /\ s.latest = received
          /\ s.latest - s.oldest < ReceptionHistoryLimit
     /\ s.current + s.lost <= TargetLimit
     /\ RatioValid(s.receiveRatio, c.opportunities)
     /\ RatioValid(s.recentReceiveRatio, s.recentOpportunities)

\* validateStation
StationValid(s, now) ==
  /\ s.station.configRevision # 0 /\ s.station.rfRevision # 0
  /\ s.station.createdAt \in 0..now
  /\ s.station.rfUpdatedAt \in s.station.createdAt..now
  /\ CountersValid(s)

\* The snapshot's entry for a station.
StationIn(o, id) == CHOOSE s \in Elements(o.stations) : s.station.id = id

\* identity: a reception of a known and selected station, within its bounds.
IdentityValid(o, r) ==
  /\ r.sequence # 0 /\ r.transmission # 0
  /\ \E s \in Elements(o.stations) :
       /\ s.station.id = r.station
       /\ s.latest # None /\ r.sequence <= s.latest
  /\ r.station \in Elements(o.selection)
  /\ r.transmission <= o.transmissions

\* inSnapshot
InSnapshot(o, at) == at \in 0..o.now

\* age: the status that the virtual age of an instant gives, and not expired.
AgeValid(o, age, status, at) ==
  LET actual == o.now - at
  IN /\ actual < ExpiryAge
     /\ age = Milliseconds(actual)
     /\ status = IF actual <= FreshAge THEN "fresh"
                 ELSE IF actual <= StaleAge THEN "stale" ELSE "lost"

\* reception, of any answer: numbers and revisions are set, and the receiver that
\* it shows, the one at reception, had its channel enabled.
RecordValid(r) ==
  /\ r.sequence # 0 /\ r.transmission # 0
  /\ r.channel \in Channels
  /\ r.configRevision # 0 /\ r.rfRevision # 0
  /\ r.receiver.enabled

\* reception, in a snapshot: also its station, the selection and the clock.
ReceptionValid(o, r) ==
  /\ IdentityValid(o, r)
  /\ RecordValid(r)
  /\ r.configRevision <= StationIn(o, r.station).station.configRevision
  /\ r.rfRevision <= StationIn(o, r.station).station.rfRevision
  /\ InSnapshot(o, r.timestamp)

\* provenance: one station's last reception of target t.
ProvenanceValid(o, t, s) ==
  LET station == StationIn(o, s.station).station
  IN /\ IdentityValid(o, s)
     /\ s.channel \in Channels
     /\ s.transmission <= t.report.transmission
     /\ s.chosen = (s.transmission = t.report.transmission)
     /\ s.enabled = station.definition.enabled
     /\ s.rfRevision \in 1..station.rfRevision
     /\ InSnapshot(o, s.timestamp)
     /\ AgeValid(o, s.age, s.status, s.timestamp)

\* target: the report is the provenance of the station that it names.
TargetValid(o, t) ==
  /\ ReceptionValid(o, t.report)
  /\ t.mmsi = t.report.mmsi
  /\ AgeValid(o, t.age, t.status, t.report.timestamp)
  /\ t.stations # <<>>
  /\ \A j, k \in DOMAIN t.stations : t.stations[j].station = t.stations[k].station => j = k
  /\ \A s \in Elements(t.stations) :
       /\ ProvenanceValid(o, t, s)
       /\ s.station = t.report.station => s.sequence = t.report.sequence
  /\ \E s \in Elements(t.stations) : s.station = t.report.station

\* What a reference to a reception says about it and its transmission.
Reference(r, m) ==
  [station |-> r.station, sequence |-> r.sequence, transmission |-> r.transmission,
   mmsi |-> m, channel |-> r.channel, timestamp |-> r.timestamp]

References(o) ==
  LET shown(t) == {Reference(t.report, t.report.mmsi)} \cup
                    {Reference(s, t.mmsi) : s \in Elements(t.stations)}
  IN (UNION {shown(t) : t \in Elements(o.targets)})
       \cup {Reference(r, r.mmsi) : r \in Elements(o.recent)}

\* identity and transmission: references to one reception name one
\* transmission, and references to one transmission agree.
ReferencesAgree(references) ==
  \A a, b \in references :
    /\ a.station = b.station /\ a.sequence = b.sequence => a.transmission = b.transmission
    /\ a.transmission = b.transmission =>
         a.mmsi = b.mmsi /\ a.channel = b.channel /\ a.timestamp = b.timestamp

\* The provenance of a station in the snapshot that is lost or current.
ProvenanceCount(o, id, lost) ==
  Cardinality({t \in Elements(o.targets) :
                 \E s \in Elements(t.stations) : s.station = id /\ (s.status = "lost") = lost})

\* The sample is ascending in instant, transmission and station.
RecentOrdered(recent) ==
  \A k \in 2..Len(recent) :
    LET a == recent[k - 1]
        b == recent[k]
    IN \/ a.timestamp < b.timestamp
       \/ a.timestamp = b.timestamp /\ a.transmission < b.transmission
       \/ /\ a.timestamp = b.timestamp
          /\ a.transmission = b.transmission
          /\ TextRank[a.station] <= TextRank[b.station]

\* projectObservations; the requested selection {} stands for all stations.
ProjectObservations(requested, o) ==
  LET ids == {s.station.id : s \in Elements(o.stations)}
      wanted == IF requested = {} THEN ids ELSE requested
      lost == Cardinality({t \in Elements(o.targets) : t.status = "lost"})
  IN /\ TimeValid(o)
     /\ o.revision # 0 /\ o.stationRevision # 0
     /\ Len(o.stations) <= MaxStations
     /\ Len(o.targets) <= TargetLimit
     /\ Len(o.recent) <= RecentReceptionLimit
     /\ o.receivedTransmissions <= o.transmissions
     /\ o.receivedTransmissions <= o.receptions
     /\ \A s \in Elements(o.stations) : StationValid(s, o.now)
     /\ \A k \in 2..Len(o.stations) :
          TextBefore(o.stations[k - 1].station.id, o.stations[k].station.id)
     /\ o.selection = Sorted(wanted, TextBefore)
     /\ \A j, k \in DOMAIN o.targets : o.targets[j].mmsi = o.targets[k].mmsi => j = k
     /\ \A t \in Elements(o.targets) : TargetValid(o, t)
     /\ lost = o.lostTargets /\ Len(o.targets) - lost = o.currentTargets
     /\ \A s \in Elements(o.stations) :
          s.station.id \in wanted =>
            /\ s.current = ProvenanceCount(o, s.station.id, FALSE)
            /\ s.lost = ProvenanceCount(o, s.station.id, TRUE)
     /\ IsInjective([k \in DOMAIN o.recent |-> <<o.recent[k].station, o.recent[k].sequence>>])
     /\ RecentOrdered(o.recent)
     /\ \A r \in Elements(o.recent) : ReceptionValid(o, r)
     /\ ReferencesAgree(References(o))

-----------------------------------------------------------------------------
(***************************************************************************)
(* Pages                                                                   *)
(***************************************************************************)
PageBoundsValid(after, limit, page) ==
  /\ page.tail = (after = NoCursor)
  /\ Len(page.receptions) <= limit
  /\ (page.oldest = None) = (page.latest = None)
  /\ page.oldest # None => page.oldest \in 1..page.latest
  /\ page.truncatedBefore = IF page.oldest > 1 THEN page.oldest ELSE None
  /\ page.receptions # <<>> => page.oldest # None
  /\ after # NoCursor => after <= (IF page.latest = None THEN 0 ELSE page.latest)

\* Transmissions rise within a page, so two rows never name the same one.
PageRowsValid(id, page) ==
  /\ \A r \in Elements(page.receptions) :
       /\ r.station = id
       /\ r.sequence \in page.oldest..page.latest
       /\ RecordValid(r)
  /\ \A k \in 2..Len(page.receptions) :
       LET a == page.receptions[k - 1]
           b == page.receptions[k]
       IN /\ b.sequence = a.sequence + 1
          /\ b.transmission > a.transmission
          /\ b.timestamp >= a.timestamp

PageCursorValid(after, page) ==
  LET rows == page.receptions
  IN /\ page.nextAfter = IF rows # <<>> THEN Last(rows).sequence
                         ELSE IF after = NoCursor THEN 0 ELSE after
     /\ rows # <<>> =>
          IF after = NoCursor THEN Last(rows).sequence = page.latest
          ELSE Head(rows).sequence = Max({after + 1, page.oldest})
     /\ rows = <<>> /\ page.latest # None => after # NoCursor /\ after >= page.latest
     /\ page.hasMore = (page.latest # None /\ page.nextAfter < page.latest)
     /\ page.gap = (after # NoCursor /\ page.oldest # None /\ after < page.oldest - 1)

\* projectReceptionPage
ProjectReceptionPage(id, after, limit, page) ==
  /\ page.station = id
  /\ PageBoundsValid(after, limit, page)
  /\ PageRowsValid(id, page)
  /\ PageCursorValid(after, page)

-----------------------------------------------------------------------------
(***************************************************************************)
(* Properties                                                              *)
(***************************************************************************)

\* The display accepts every snapshot the simulator can send, for every
\* selection: a check that a legal state fails would blank the whole view
\* (projectObservations against Observations).
SnapshotsAccepted ==
  Idle => \A requested \in SUBSET StationIDs :
            ProjectObservations(requested, Observations(requested))

\* The display accepts every history page the simulator can send, for every
\* cursor and limit (projectReceptionPage against ReceptionHistory).
PagesAccepted ==
  Idle =>
    \A id \in StationIDs, limit \in 1..ReceptionHistoryLimit :
      \A after \in {NoCursor} \cup 0..stats[id].lastReception :
        ~PageRejected(id, after) =>
          ProjectReceptionPage(id, after, limit, ReceptionHistory(id, after, limit))

\* No answer of a correct simulator is refused by the display.
AnswersAccepted == SnapshotsAccepted /\ PagesAccepted
=============================================================================
