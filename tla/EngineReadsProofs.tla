-------------------------- MODULE EngineReadsProofs --------------------------
(***************************************************************************)
(* What the engine answers: pages of the reception history, the counters,  *)
(* and snapshots, and why the display accepts all of them.                 *)
(***************************************************************************)
EXTENDS EngineStoreProofs, EngineRate

USE DEF store, committed, staged

-----------------------------------------------------------------------------
(***************************************************************************)
(* Pages of the reception history, and what the display checks of them     *)
(***************************************************************************)
\* The larger of two integers.
LEMMA MaxOfTwo ==
  ASSUME NEW a \in Int, NEW b \in Int
  PROVE  Max({a, b}) = IF a >= b THEN a ELSE b
<1> DEFINE m == IF a >= b THEN a ELSE b
<1>1. m \in {a, b} /\ \A y \in {a, b} : m >= y
  OBVIOUS
<1>2. \A x \in {a, b} : (\A y \in {a, b} : x >= y) => x = m
  OBVIOUS
<1> HIDE DEF m
<1>3. Max({a, b}) \in {a, b} /\ \A y \in {a, b} : Max({a, b}) >= y
  BY <1>1 DEF Max
<1>4. Max({a, b}) = m
  BY <1>2, <1>3
<1> QED BY <1>4 DEF m

\* The smaller of two integers.
LEMMA MinOfTwo ==
  ASSUME NEW a \in Int, NEW b \in Int
  PROVE  Min({a, b}) = IF a <= b THEN a ELSE b
<1> DEFINE m == IF a <= b THEN a ELSE b
<1>1. m \in {a, b} /\ \A y \in {a, b} : m <= y
  OBVIOUS
<1>2. \A x \in {a, b} : (\A y \in {a, b} : x <= y) => x = m
  OBVIOUS
<1> HIDE DEF m
<1>3. Min({a, b}) \in {a, b} /\ \A y \in {a, b} : Min({a, b}) <= y
  BY <1>1 DEF Min
<1>4. Min({a, b}) = m
  BY <1>2, <1>3
<1> QED BY <1>4 DEF m

\* How many receptions of a station are no longer retained, and how many are.
Dropped(id) == stats[id].lastReception - Len(history[id])
Retained(id) == Len(history[id])

\* A page holds the retained receptions PageFrom + 1 to PageTo.
PageFrom(id, after, limit) ==
  IF after = NoCursor THEN IF Retained(id) >= limit THEN Retained(id) - limit ELSE 0
  ELSE IF after >= Dropped(id) THEN after - Dropped(id) ELSE 0

PageTo(id, after, limit) ==
  IF PageFrom(id, after, limit) + limit <= Retained(id)
  THEN PageFrom(id, after, limit) + limit
  ELSE Retained(id)

\* What is retained is the newest part of what was received.
LEMMA RetainedFacts ==
  ASSUME TypeInv, StoreInv, Idle, NEW id \in StationIDs
  PROVE  /\ history[id] \in Seq(ReceptionRecord)
         /\ Retained(id) \in Nat /\ DOMAIN history[id] = 1..Retained(id)
         /\ stats[id].lastReception \in Nat /\ Dropped(id) \in Nat
         /\ stats[id].lastReception = Dropped(id) + Retained(id)
         /\ Retained(id) <= ReceptionHistoryLimit
         /\ Retained(id) = 0 => Dropped(id) = 0
         /\ history[id] = <<>> <=> Retained(id) = 0
         /\ \A k \in 1..Retained(id) : history[id][k].sequence = Dropped(id) + k
         /\ \A i, j \in 1..Retained(id) :
              i < j => /\ history[id][i].transmission < history[id][j].transmission
                       /\ history[id][i].timestamp <= history[id][j].timestamp
<1> DEFINE h == history[id]
           n == Len(h)
           last == stats[id].lastReception
<1>1. h \in Seq(ReceptionRecord) /\ stats[id] \in Stats
  BY DEF TypeInv, TypeOK, StatsTypeOK
<1>2. last \in Nat /\ n \in Nat /\ DOMAIN h = 1..n /\ (h = <<>> <=> n = 0)
  <2>1. last \in Nat
    BY <1>1 DEF Stats
  <2>2. n \in Nat /\ DOMAIN h = 1..n
    BY <1>1, LenProperties
  <2>3. h = <<>> <=> n = 0
    BY <1>1, EmptySeq
  <2> QED BY <2>1, <2>2, <2>3
<1>3. ReceptionsContiguous
  BY StoreReads DEF StoreExact
<1>4. /\ n = Minimum(last, ReceptionHistoryLimit)
      /\ \A i \in 1..n : h[i].sequence = last - n + i
      /\ \A i, j \in 1..n : i < j => /\ h[i].transmission < h[j].transmission
                                     /\ h[i].timestamp <= h[j].timestamp
  BY <1>2, <1>3 DEF ReceptionsContiguous
<1>5. ReceptionHistoryLimit \in Nat \ {0}
  BY LimitsAssumption
<1> HIDE DEF h, n, last
<1>6. n <= last /\ n <= ReceptionHistoryLimit /\ (n = 0 => last = 0)
  BY <1>2, <1>4, <1>5 DEF Minimum
<1>7. last - n \in Nat /\ last = (last - n) + n /\ (n = 0 => last - n = 0)
  BY <1>2, <1>6
<1> QED BY <1>1, <1>2, <1>4, <1>6, <1>7 DEF Retained, Dropped, h, n, last

\* Where a page begins and ends.
LEMMA PageBounds ==
  ASSUME TypeInv, StoreInv, Idle, NEW id \in StationIDs, NEW limit \in Nat \ {0},
         NEW after \in {NoCursor} \cup 0..stats[id].lastReception
  PROVE  LET from == PageFrom(id, after, limit)
             to == PageTo(id, after, limit)
         IN /\ after \in Int /\ from \in Nat /\ to \in Nat
            /\ from <= to /\ to <= Retained(id) /\ to - from <= limit
            /\ to < Retained(id) => to = from + limit
            /\ after # NoCursor =>
                 /\ after \in Nat /\ after <= Dropped(id) + from
                 /\ from > 0 => after = Dropped(id) + from
            /\ after = NoCursor => to = Retained(id) /\ (to > 0 => to > from)
<1>1. /\ Retained(id) \in Nat /\ Dropped(id) \in Nat
      /\ stats[id].lastReception = Dropped(id) + Retained(id)
  BY RetainedFacts
<1>2. after \in Int /\ (after # NoCursor => after \in Nat /\ after <= Dropped(id) + Retained(id))
  BY <1>1 DEF NoCursor
<1> DEFINE n == Retained(id)
           base == Dropped(id)
<1> HIDE DEF n, base
<1>3. n \in Nat /\ base \in Nat /\ (after # NoCursor => after \in Nat /\ after <= base + n)
  BY <1>1, <1>2 DEF n, base
<1>4. CASE after = NoCursor
  <2>1. PageFrom(id, after, limit) = IF n >= limit THEN n - limit ELSE 0
    BY <1>4 DEF PageFrom, n
  <2>2. PageTo(id, after, limit) = n
    BY <1>3, <2>1 DEF PageTo, n
  <2> QED BY <1>2, <1>3, <1>4, <2>1, <2>2 DEF n
<1>5. CASE after # NoCursor
  <2> DEFINE from == PageFrom(id, after, limit)
             to == PageTo(id, after, limit)
  <2>1. from = IF after >= base THEN after - base ELSE 0
    BY <1>5 DEF PageFrom, base
  <2>2. to = IF from + limit <= n THEN from + limit ELSE n
    BY DEF PageTo, n
  <2> HIDE DEF from, to
  <2>3. from \in Nat /\ from <= n /\ after <= base + from /\ (from > 0 => after = base + from)
    BY <1>3, <1>5, <2>1
  <2>4. /\ to \in Nat /\ from <= to /\ to <= n /\ to - from <= limit
        /\ to < n => to = from + limit
    BY <1>3, <2>2, <2>3
  <2> QED BY <1>2, <1>5, <2>3, <2>4 DEF n, base, from, to
<1> QED BY <1>4, <1>5

\* What a page of the history says.
LEMMA PageShape ==
  ASSUME TypeInv, StoreInv, Idle, NEW id \in StationIDs, NEW limit \in Nat \ {0},
         NEW after \in {NoCursor} \cup 0..stats[id].lastReception
  PROVE  LET from == PageFrom(id, after, limit)
             to == PageTo(id, after, limit)
             page == ReceptionHistory(id, after, limit)
         IN /\ page.station = id /\ page.tail = (after = NoCursor)
            /\ page.oldest = IF Retained(id) = 0 THEN None ELSE Dropped(id) + 1
            /\ page.latest = IF Retained(id) = 0 THEN None ELSE Dropped(id) + Retained(id)
            /\ page.truncatedBefore = IF page.oldest > 1 THEN page.oldest ELSE None
            /\ page.receptions \in Seq(ReceptionRecord)
            /\ Len(page.receptions) = to - from
            /\ \A k \in 1..(to - from) : page.receptions[k] = history[id][from + k]
            /\ page.nextAfter = IF to > from THEN Dropped(id) + to
                                ELSE IF after = NoCursor THEN 0 ELSE after
            /\ page.hasMore <=> to < Retained(id)
            /\ page.gap <=> after # NoCursor /\ after < Dropped(id)
<1> DEFINE h == history[id]
           n == Retained(id)
           base == Dropped(id)
           last == stats[id].lastReception
           from == PageFrom(id, after, limit)
           to == PageTo(id, after, limit)
           page == ReceptionHistory(id, after, limit)
           oldest == Oldest(id)
           behind == after # NoCursor /\ n > 0 /\ after < last
           start == IF after = NoCursor THEN Max({n - limit, 0})
                    ELSE IF behind THEN FirstAfter(after, oldest)
                    ELSE n
           stop == Min({start + limit, n})
<1>1. /\ h \in Seq(ReceptionRecord) /\ n \in Nat /\ DOMAIN h = 1..n /\ base \in Nat
      /\ last = base + n /\ (n = 0 => base = 0) /\ (h = <<>> <=> n = 0)
      /\ \A k \in 1..n : h[k].sequence = base + k
  BY RetainedFacts
<1>2. /\ after \in Int /\ from \in Nat /\ to \in Nat
      /\ from <= to /\ to <= n
      /\ after # NoCursor => after \in Nat /\ after <= base + from
      /\ after # NoCursor => after <= last
  BY PageBounds
<1>3. /\ oldest = IF n = 0 THEN None ELSE base + 1
      /\ Latest(id) = IF n = 0 THEN None ELSE base + n
  <2> HIDE DEF h, n, base
  <2>1. CASE n = 0
    BY <1>1, <2>1 DEF Oldest, Latest, h
  <2>2. CASE n # 0
    <3>1. 1 \in 1..n
      BY <1>1, <2>2
    <3> QED BY <1>1, <2>2, <3>1 DEF Oldest, Latest, h
  <2> QED BY <2>1, <2>2
<1>4. page = [station |-> id, tail |-> after = NoCursor, oldest |-> oldest,
              latest |-> Latest(id),
              truncatedBefore |-> IF oldest > 1 THEN oldest ELSE None,
              receptions |-> SubSeq(h, start + 1, stop),
              nextAfter |-> IF stop > start THEN h[stop].sequence
                            ELSE IF after = NoCursor THEN 0 ELSE after,
              hasMore |-> stop < n,
              gap |-> behind /\ GapAfter(after, oldest)]
  BY DEF ReceptionHistory, Retained
<1>5. from = IF after = NoCursor THEN IF n >= limit THEN n - limit ELSE 0
             ELSE IF after >= base THEN after - base ELSE 0
  BY DEF PageFrom
<1>6. to = IF from + limit <= n THEN from + limit ELSE n
  BY DEF PageTo
<1> HIDE DEF h, n, base, last, from, to, page, oldest
<1>7. start = from
  <2>1. CASE after = NoCursor
    <3>1. Max({n - limit, 0}) = IF n - limit >= 0 THEN n - limit ELSE 0
      BY <1>1, MaxOfTwo
    <3> QED BY <1>1, <1>5, <2>1, <3>1
  <2>2. CASE after # NoCursor /\ behind
    <3>1. oldest = base + 1 /\ after \in Nat
      BY <1>1, <1>2, <1>3, <2>2
    <3>2. Max({after + 1, oldest}) = IF after + 1 >= oldest THEN after + 1 ELSE oldest
      BY <1>1, <3>1, MaxOfTwo
    <3> QED BY <1>1, <1>5, <2>2, <3>1, <3>2 DEF FirstAfter
  <2>3. CASE after # NoCursor /\ ~behind
    <3>1. n = 0 \/ after = last
      BY <1>1, <1>2, <2>3
    <3> QED BY <1>1, <1>2, <1>5, <2>3, <3>1
  <2> QED BY <2>1, <2>2, <2>3
<1> HIDE DEF start
<1>8. stop = to
  <2>1. Min({start + limit, n}) = IF start + limit <= n THEN start + limit ELSE n
    BY <1>1, <1>2, <1>7, MinOfTwo
  <2> QED BY <1>6, <1>7, <2>1
<1> HIDE DEF stop
<1>9. /\ SubSeq(h, from + 1, to) \in Seq(ReceptionRecord)
      /\ Len(SubSeq(h, from + 1, to)) = to - from
      /\ \A k \in 1..(to - from) : SubSeq(h, from + 1, to)[k] = h[from + k]
  <2>1. \A k \in (from + 1)..to : h[k] \in ReceptionRecord
    <3> SUFFICES ASSUME NEW k \in (from + 1)..to PROVE h[k] \in ReceptionRecord
      OBVIOUS
    <3>1. k \in DOMAIN h
      BY <1>1, <1>2
    <3> QED BY <1>1, <3>1, LenProperties, ElementOfSeq
  <2> DEFINE m == from + 1
  <2>2. m \in Int /\ to \in Int /\ m = from + 1
    BY <1>2
  <2> HIDE DEF m
  <2>3. /\ SubSeq(h, m, to) \in Seq(ReceptionRecord)
        /\ Len(SubSeq(h, m, to)) = IF m <= to THEN to - m + 1 ELSE 0
        /\ \A k \in 1..(to - m + 1) : SubSeq(h, m, to)[k] = h[m + k - 1]
    BY <2>1, <2>2, SubSeqProperties DEF m
  <2>4. (IF m <= to THEN to - m + 1 ELSE 0) = to - from /\ to - m + 1 = to - from
    BY <1>2, <2>2
  <2>5. \A k \in 1..(to - from) : m + k - 1 = from + k
    BY <1>2, <2>2
  <2>6. m = from + 1
    BY DEF m
  <2> QED BY <2>3, <2>4, <2>5, <2>6
<1>10. to > from => h[to].sequence = base + to
  BY <1>1, <1>2
<1>11. behind /\ GapAfter(after, oldest) <=> after # NoCursor /\ after < base
  <2>1. CASE behind
    <3>1. oldest = base + 1
      BY <1>1, <1>3, <2>1
    <3> QED BY <1>1, <1>2, <2>1, <3>1 DEF GapAfter
  <2>2. CASE ~behind
    BY <1>1, <1>2, <2>2
  <2> QED BY <2>1, <2>2
<1> HIDE DEF behind
<1>12. /\ page.station = id /\ page.oldest = oldest /\ page.latest = Latest(id)
       /\ page.truncatedBefore = IF oldest > 1 THEN oldest ELSE None
       /\ page.receptions = SubSeq(h, from + 1, to)
       /\ page.nextAfter = IF to > from THEN h[to].sequence
                           ELSE IF after = NoCursor THEN 0 ELSE after
  BY <1>4, <1>7, <1>8
<1>13. /\ page.tail = (after = NoCursor) /\ page.hasMore = (to < n)
       /\ page.gap = (behind /\ GapAfter(after, oldest))
  BY <1>4, <1>7, <1>8, Zenon
<1>14. /\ page.nextAfter = IF to > from THEN base + to
                           ELSE IF after = NoCursor THEN 0 ELSE after
       /\ page.receptions \in Seq(ReceptionRecord) /\ Len(page.receptions) = to - from
       /\ \A k \in 1..(to - from) : page.receptions[k] = h[from + k]
  BY <1>9, <1>10, <1>12
<1>15. /\ page.oldest = IF n = 0 THEN None ELSE base + 1
       /\ page.latest = IF n = 0 THEN None ELSE base + n
       /\ page.truncatedBefore = IF page.oldest > 1 THEN page.oldest ELSE None
  BY <1>3, <1>12
<1>16. page.gap <=> after # NoCursor /\ after < base
  BY <1>11, <1>13, Zenon
<1>17. page.hasMore <=> to < n
  BY <1>13, Zenon
<1>18. page.tail = (after = NoCursor) /\ page.station = id
  BY <1>12, <1>13, Zenon
<1> QED BY <1>14, <1>15, <1>16, <1>17, <1>18, Zenon DEF h, n, base, from, to, page

\* Every page of a sound store is the first retained receptions above its cursor.
LEMMA PagesComplete == TypeInv /\ StoreInv => PagingComplete
<1> SUFFICES ASSUME TypeInv, StoreInv, Idle, NEW id \in StationIDs,
                    NEW limit \in 1..ReceptionHistoryLimit,
                    NEW after \in 0..stats[id].lastReception
             PROVE  LET page == ReceptionHistory(id, after, limit)
                        sent == {page.receptions[k].sequence : k \in DOMAIN page.receptions}
                        retained == {history[id][k].sequence : k \in DOMAIN history[id]}
                        above == (after + 1)..stats[id].lastReception
                    IN /\ sent \subseteq above \cap retained
                       /\ Cardinality(sent) = Min({limit, Cardinality(above \cap retained)})
                       /\ \A s \in sent, q \in (above \cap retained) \ sent : s < q
                       /\ page.gap <=> above \ retained # {}
                       /\ page.hasMore <=> (above \cap retained) \ sent # {}
                       /\ page.nextAfter = Max(sent \cup {after})
  BY DEF PagingComplete
<1> DEFINE h == history[id]
           n == Retained(id)
           base == Dropped(id)
           from == PageFrom(id, after, limit)
           to == PageTo(id, after, limit)
           page == ReceptionHistory(id, after, limit)
           sent == {page.receptions[k].sequence : k \in DOMAIN page.receptions}
           retained == {h[k].sequence : k \in DOMAIN h}
           above == (after + 1)..stats[id].lastReception
<1>0. /\ limit \in Nat \ {0} /\ after \in {NoCursor} \cup 0..stats[id].lastReception
  BY LimitsAssumption
<1>1. after # NoCursor
  BY RetainedFacts DEF NoCursor
<1>2. /\ n \in Nat /\ DOMAIN h = 1..n /\ base \in Nat /\ stats[id].lastReception = base + n
      /\ \A k \in 1..n : h[k].sequence = base + k
  BY RetainedFacts
<1>3. /\ from \in Nat /\ to \in Nat /\ from <= to /\ to <= n /\ to - from <= limit
      /\ to < n => to = from + limit
      /\ after \in Nat /\ after <= base + from
      /\ from > 0 => after = base + from
  BY <1>0, <1>1, PageBounds
<1>4. /\ page.receptions \in Seq(ReceptionRecord) /\ Len(page.receptions) = to - from
      /\ \A k \in 1..(to - from) : page.receptions[k] = h[from + k]
      /\ page.nextAfter = IF to > from THEN base + to ELSE after
  BY <1>0, <1>1, PageShape
<1>5. (page.gap <=> after < base) /\ (page.hasMore <=> to < n)
  BY <1>0, <1>1, PageShape, Zenon
<1> HIDE DEF h, n, base, from, to, page
<1>6. sent = (base + from + 1)..(base + to)
  <2>1. DOMAIN page.receptions = 1..(to - from)
    BY <1>4, LenProperties
  <2>2. ASSUME NEW k \in 1..(to - from) PROVE page.receptions[k].sequence = base + from + k
    <3>1. from + k \in 1..n
      BY <1>2, <1>3
    <3>2. page.receptions[k] = h[from + k] /\ h[from + k].sequence = base + (from + k)
      BY <1>2, <1>4, <3>1
    <3>3. base + (from + k) = base + from + k
      BY <1>2, <1>3
    <3> QED BY <3>2, <3>3
  <2>3. sent \subseteq (base + from + 1)..(base + to)
    BY <1>2, <1>3, <2>1, <2>2
  <2>4. ASSUME NEW q \in (base + from + 1)..(base + to) PROVE q \in sent
    <3>1. q - (base + from) \in 1..(to - from)
          /\ base + from + (q - (base + from)) = q
      BY <1>2, <1>3
    <3>2. page.receptions[q - (base + from)].sequence = q
      BY <2>2, <3>1
    <3> QED BY <2>1, <3>1, <3>2
  <2> QED BY <2>3, <2>4
<1>7. retained = (base + 1)..(base + n)
  <2>1. ASSUME NEW q \in (base + 1)..(base + n) PROVE q \in retained
    <3>1. q - base \in 1..n /\ base + (q - base) = q
      BY <1>2
    <3>2. h[q - base].sequence = q
      BY <1>2, <3>1
    <3> QED BY <1>2, <3>1, <3>2
  <2>2. retained \subseteq (base + 1)..(base + n)
    BY <1>2
  <2> QED BY <2>1, <2>2
<1>8. above = (after + 1)..(base + n)
  BY <1>2
<1> HIDE DEF sent, retained, above
<1>9. above \cap retained = (base + from + 1)..(base + n)
  <2>1. CASE from > 0
    <3>1. after = base + from
      BY <1>3, <2>1
    <3> QED BY <1>2, <1>3, <1>7, <1>8, <3>1
  <2>2. CASE from = 0
    <3>1. after <= base
      BY <1>2, <1>3, <2>2
    <3> QED BY <1>2, <1>3, <1>7, <1>8, <2>2, <3>1
  <2> QED BY <1>3, <2>1, <2>2
<1>10. sent \subseteq above \cap retained
  BY <1>2, <1>3, <1>6, <1>9
<1>11. Cardinality(sent) = Min({limit, Cardinality(above \cap retained)})
  <2>1. base + from + 1 \in Int /\ base + to \in Int /\ base + n \in Int
    BY <1>2, <1>3
  <2>2. Cardinality((base + from + 1)..(base + to)) =
          IF base + from + 1 > base + to THEN 0 ELSE (base + to) - (base + from + 1) + 1
    BY <2>1, FS_Interval
  <2>3. Cardinality((base + from + 1)..(base + n)) =
          IF base + from + 1 > base + n THEN 0 ELSE (base + n) - (base + from + 1) + 1
    BY <2>1, FS_Interval
  <2>4. Cardinality(sent) = to - from
    BY <1>2, <1>3, <1>6, <2>2
  <2>5. Cardinality(above \cap retained) = n - from
    <3>1. (IF base + from + 1 > base + n THEN 0 ELSE (base + n) - (base + from + 1) + 1)
            = n - from
      BY <1>2, <1>3
    <3> QED BY <1>9, <2>3, <3>1
  <2>6. limit \in Int /\ n - from \in Int
    BY <1>0, <1>2, <1>3
  <2>7. Min({limit, n - from}) = IF limit <= n - from THEN limit ELSE n - from
    BY <2>6, MinOfTwo
  <2>8. to - from = IF limit <= n - from THEN limit ELSE n - from
    BY <1>0, <1>2, <1>3
  <2> QED BY <2>4, <2>5, <2>7, <2>8
<1>12. \A s \in sent, q \in (above \cap retained) \ sent : s < q
  BY <1>2, <1>3, <1>6, <1>9
<1>13. page.gap <=> above \ retained # {}
  <2>1. CASE after < base
    <3>1. base \in above \ retained
      BY <1>2, <1>3, <1>7, <1>8, <2>1
    <3> QED BY <1>5, <2>1, <3>1, Zenon
  <2>2. CASE ~(after < base)
    <3>1. above \ retained = {}
      BY <1>2, <1>3, <1>7, <1>8, <2>2
    <3> QED BY <1>5, <2>2, <3>1, Zenon
  <2> QED BY <2>1, <2>2
<1>14. page.hasMore <=> (above \cap retained) \ sent # {}
  <2>1. CASE to < n
    <3>1. base + n \in (above \cap retained) \ sent
      BY <1>2, <1>3, <1>6, <1>9, <2>1
    <3> QED BY <1>5, <2>1, <3>1, Zenon
  <2>2. CASE ~(to < n)
    <3>1. (above \cap retained) \ sent = {}
      BY <1>2, <1>3, <1>6, <1>9, <2>2
    <3> QED BY <1>5, <2>2, <3>1, Zenon
  <2> QED BY <2>1, <2>2
<1>15. page.nextAfter = Max(sent \cup {after})
  <2> DEFINE m == IF to > from THEN base + to ELSE after
  <2>1. m \in sent \cup {after} /\ \A y \in sent \cup {after} : m >= y
    BY <1>2, <1>3, <1>6
  <2>2. \A x \in sent \cup {after} : (\A y \in sent \cup {after} : x >= y) => x = m
    BY SMTT(30), <1>2, <1>3, <1>6
  <2>3. page.nextAfter = m
    BY <1>4
  <2> HIDE DEF m
  <2>4. /\ Max(sent \cup {after}) \in sent \cup {after}
        /\ \A y \in sent \cup {after} : Max(sent \cup {after}) >= y
    BY <2>1 DEF Max
  <2> QED BY <2>2, <2>3, <2>4
<1>16. /\ sent \subseteq above \cap retained
       /\ Cardinality(sent) = Min({limit, Cardinality(above \cap retained)})
       /\ \A s \in sent, q \in (above \cap retained) \ sent : s < q
       /\ page.gap <=> above \ retained # {}
       /\ page.hasMore <=> (above \cap retained) \ sent # {}
       /\ page.nextAfter = Max(sent \cup {after})
  BY <1>10, <1>11, <1>12, <1>13, <1>14, <1>15, Zenon
<1> QED BY <1>16, Zenon DEF sent, retained, above, page, h

\* For every configuration, cursor and limit: paging through the history of a station
\* skips no retained reception, and says so when one is gone.
THEOREM PagingCorrect == Spec => []PagingComplete
BY StoreAlways, PagesComplete, PTL DEF EngineInv

\* The receptions of a station name it, and are sound in any answer.
LEMMA HistoryNamed ==
  ASSUME TypeInv, CoherentInv, NEW id \in StationIDs, NEW k \in DOMAIN history[id],
         history[id][k].sequence >= 1
  PROVE  history[id][k].station = id /\ RecordValid(history[id][k])
<1>1. PICK i \in DOMAIN state.stations : state.stations[i].id = id
  BY DEF StationIDs
<1>2. Fits(history[id][k], state.stations[i])
  BY <1>1 DEF CoherentInv, HistoryFits
<1>3. history[id][k] \in ReceptionRecord
  <2>1. history[id] \in Seq(ReceptionRecord)
    BY DEF TypeInv, TypeOK, StatsTypeOK
  <2> QED BY <2>1, LenProperties, ElementOfSeq
<1> DEFINE r == history[id][k]
<1>4. /\ r.sequence \in Nat /\ r.transmission \in Nat
      /\ r.configRevision \in Nat /\ r.rfRevision \in Nat
  <2>1. r.sequence \in Nat /\ r.transmission \in Nat
    BY <1>3, ReceptionFields
  <2>2. r.configRevision \in Nat
    BY <1>3 DEF ReceptionRecord
  <2>3. r.rfRevision \in Nat
    BY <1>3 DEF ReceptionRecord
  <2> QED BY <2>1, <2>2, <2>3
<1>5. r.channel \in Channels
  BY <1>3 DEF ReceptionRecord
<1>6. /\ r.station = id /\ 1 <= r.transmission /\ 1 <= r.configRevision /\ 1 <= r.rfRevision
      /\ r.receiver.enabled
  BY <1>1, <1>2 DEF Fits, MadeUnder
<1> HIDE DEF r
<1>7. r.sequence # 0 /\ r.transmission # 0 /\ r.configRevision # 0 /\ r.rfRevision # 0
  BY <1>4, <1>6 DEF r
<1>8. r.station = id /\ RecordValid(r)
  BY <1>5, <1>6, <1>7, Zenon DEF RecordValid
<1> QED BY <1>8 DEF r

\* The flags of a page are Boolean, and equal what they are equivalent to.
LEMMA PageFlags ==
  ASSUME NEW id, NEW after, NEW limit
  PROVE  /\ ReceptionHistory(id, after, limit).hasMore \in BOOLEAN
         /\ ReceptionHistory(id, after, limit).gap \in BOOLEAN
<1>1. ReceptionHistory(id, after, limit).hasMore \in BOOLEAN
  BY DEF ReceptionHistory
<1>2. ReceptionHistory(id, after, limit).gap \in BOOLEAN
  BY DEF ReceptionHistory
<1> QED BY <1>1, <1>2

\* Equivalent flags are equal.
LEMMA FlagEquals ==
  ASSUME NEW p \in BOOLEAN, NEW q \in BOOLEAN, p <=> q
  PROVE  p = q
OBVIOUS

\* The display accepts every page of a sound store.
LEMMA PagesValid == TypeInv /\ CoherentInv /\ StoreInv => PagesAccepted
<1> SUFFICES ASSUME TypeInv, CoherentInv, StoreInv, Idle, NEW id \in StationIDs,
                    NEW limit \in 1..ReceptionHistoryLimit,
                    NEW after \in {NoCursor} \cup 0..stats[id].lastReception
             PROVE  ProjectReceptionPage(id, after, limit, ReceptionHistory(id, after, limit))
  BY DEF PagesAccepted
<1> DEFINE h == history[id]
           n == Retained(id)
           base == Dropped(id)
           from == PageFrom(id, after, limit)
           to == PageTo(id, after, limit)
           page == ReceptionHistory(id, after, limit)
           rows == page.receptions
           l == to - from
<1>0. limit \in Nat \ {0}
  BY LimitsAssumption
<1>1. /\ n \in Nat /\ DOMAIN h = 1..n /\ base \in Nat /\ h \in Seq(ReceptionRecord)
      /\ stats[id].lastReception = base + n
      /\ (n = 0 => base = 0)
      /\ \A k \in 1..n : h[k].sequence = base + k
      /\ \A i, j \in 1..n : i < j => h[i].transmission < h[j].transmission
                                     /\ h[i].timestamp <= h[j].timestamp
  BY RetainedFacts
<1>2. /\ from \in Nat /\ to \in Nat /\ from <= to /\ to <= n /\ l <= limit
      /\ to < n => to = from + limit
      /\ after # NoCursor =>
           /\ after \in Nat /\ after <= base + from /\ (from > 0 => after = base + from)
      /\ after = NoCursor => to = n /\ (to > 0 => to > from)
  BY <1>0, PageBounds
<1>3. /\ page.station = id
      /\ page.oldest = IF n = 0 THEN None ELSE base + 1
      /\ page.latest = IF n = 0 THEN None ELSE base + n
      /\ page.truncatedBefore = IF page.oldest > 1 THEN page.oldest ELSE None
      /\ rows \in Seq(ReceptionRecord) /\ Len(rows) = l
      /\ \A k \in 1..l : rows[k] = h[from + k]
      /\ page.nextAfter = IF to > from THEN base + to ELSE IF after = NoCursor THEN 0 ELSE after
  BY <1>0, PageShape
<1>4. /\ page.tail = (after = NoCursor) /\ (page.hasMore <=> to < n)
      /\ page.gap <=> after # NoCursor /\ after < base
  <2>1. page.hasMore <=> to < n
    BY <1>0, PageShape, Zenon
  <2>2. page.gap <=> after # NoCursor /\ after < base
    BY <1>0, PageShape, Zenon
  <2>3. page.tail = (after = NoCursor)
    BY Zenon DEF ReceptionHistory
  <2> QED BY <2>1, <2>2, <2>3, Zenon
<1>a. page.hasMore \in BOOLEAN /\ page.gap \in BOOLEAN
  BY PageFlags, Zenon
<1>5. \A k \in 1..n : h[k].station = id /\ RecordValid(h[k])
  <2> SUFFICES ASSUME NEW k \in DOMAIN h PROVE h[k].station = id /\ RecordValid(h[k])
    BY <1>1
  <2>1. h[k].sequence >= 1
    BY <1>1
  <2> QED BY <2>1, HistoryNamed
<1> HIDE DEF h, n, base, from, to, page, rows
<1>6. /\ l \in Nat /\ DOMAIN rows = 1..l /\ (rows = <<>> <=> l = 0)
  <2>1. l \in Nat
    BY <1>2
  <2> QED BY <1>3, <2>1, LenProperties, EmptySeq
<1>7. \A k \in 1..l : from + k \in 1..n /\ rows[k] = h[from + k]
                      /\ rows[k].sequence = base + from + k
  <2> SUFFICES ASSUME NEW k \in 1..l PROVE from + k \in 1..n /\ rows[k].sequence = base + from + k
    BY <1>3
  <2>1. from + k \in 1..n
    BY <1>1, <1>2
  <2>2. rows[k] = h[from + k] /\ h[from + k].sequence = base + (from + k)
    BY <1>1, <1>3, <2>1
  <2>3. base + (from + k) = base + from + k
    BY <1>1, <1>2
  <2> QED BY <2>1, <2>2, <2>3
<1>8. n # 0 \/ (n = 0 /\ l = 0 /\ base = 0)
  BY <1>1, <1>2
<1>9. PageBoundsValid(after, limit, page)
  <2>1. Len(page.receptions) <= limit /\ page.truncatedBefore =
          IF page.oldest > 1 THEN page.oldest ELSE None
    BY <1>2, <1>3 DEF rows
  <2>2. (page.oldest = None) <=> (page.latest = None)
    BY <1>1, <1>3 DEF None
  <2>3. page.oldest # None => page.oldest \in 1..page.latest
    BY <1>1, <1>3 DEF None
  <2>4. page.receptions # <<>> => page.oldest # None
    <3>1. rows # <<>> => n # 0
      BY <1>6, <1>8
    <3> QED BY <1>1, <1>3, <3>1 DEF rows, None
  <2>5. after # NoCursor => after <= (IF page.latest = None THEN 0 ELSE page.latest)
    <3>1. after # NoCursor => after <= base + n
      BY <1>1
    <3>2. (IF page.latest = None THEN 0 ELSE page.latest) = base + n
      BY <1>1, <1>3 DEF None
    <3> QED BY <3>1, <3>2
  <2>6. (page.oldest = None) = (page.latest = None)
    BY <2>2, Zenon
  <2> QED BY <1>4, <2>1, <2>3, <2>4, <2>5, <2>6, Zenon DEF PageBoundsValid
<1>10. PageRowsValid(id, page)
  <2>1. ASSUME NEW r \in Elements(page.receptions)
        PROVE  /\ r.station = id
               /\ r.sequence \in page.oldest..page.latest
               /\ RecordValid(r)
    <3>1. PICK k \in 1..l : r = rows[k]
      BY <1>6 DEF Elements, rows
    <3>2. from + k \in 1..n /\ r = h[from + k] /\ r.sequence = base + from + k
      BY <1>7, <3>1
    <3>3. page.oldest = base + 1 /\ page.latest = base + n
      BY <1>1, <1>3, <3>2
    <3>4. r.sequence \in page.oldest..page.latest
      BY SMTT(30), <1>1, <1>2, <3>2, <3>3
    <3>5. h[from + k].station = id /\ RecordValid(h[from + k])
      BY <1>5, <3>2
    <3> QED BY <3>2, <3>4, <3>5, Zenon
  <2>2. ASSUME NEW k \in 2..Len(page.receptions)
        PROVE  LET a == page.receptions[k - 1]
                   b == page.receptions[k]
               IN b.sequence = a.sequence + 1 /\ b.transmission > a.transmission
                  /\ b.timestamp >= a.timestamp
    <3>1. k \in 1..l /\ k - 1 \in 1..l
      BY <1>3, <1>6 DEF rows
    <3>2. /\ from + k \in 1..n /\ from + (k - 1) \in 1..n /\ from + (k - 1) < from + k
          /\ rows[k] = h[from + k] /\ rows[k - 1] = h[from + (k - 1)]
          /\ rows[k].sequence = base + from + k /\ rows[k - 1].sequence = base + from + (k - 1)
      BY <1>2, <1>7, <3>1
    <3>3. rows[k].sequence = rows[k - 1].sequence + 1
      BY <1>1, <1>2, <3>1, <3>2
    <3>4. rows[k - 1].transmission < rows[k].transmission
          /\ rows[k - 1].timestamp <= rows[k].timestamp
      BY <1>1, <3>2
    <3>5. rows[k] \in ReceptionRecord /\ rows[k - 1] \in ReceptionRecord
      BY <1>3, <3>1, ElementOfSeq
    <3>6. /\ rows[k].transmission \in Nat /\ rows[k - 1].transmission \in Nat
          /\ rows[k].timestamp \in Nat /\ rows[k - 1].timestamp \in Nat
      BY <3>5, ReceptionFields
    <3>7. rows[k].transmission > rows[k - 1].transmission
          /\ rows[k].timestamp >= rows[k - 1].timestamp
      BY <3>4, <3>6
    <3> QED BY <3>3, <3>7 DEF rows
  <2> QED BY <2>1, <2>2 DEF PageRowsValid
<1>11. PageCursorValid(after, page)
  <2>1. after # NoCursor /\ after < base
          <=> after # NoCursor /\ page.oldest # None /\ after < page.oldest - 1
    <3>1. CASE n = 0
      BY <1>2, <1>3, <1>8, <3>1
    <3>2. CASE n # 0
      <4>1. page.oldest = base + 1 /\ page.oldest # None
        BY <1>1, <1>3, <3>2 DEF None
      <4> QED BY <1>1, <1>2, <4>1
    <3> QED BY <3>1, <3>2
  <2>2. to = from /\ n # 0 => after # NoCursor /\ to = n /\ after = base + n
    <3> SUFFICES ASSUME to = from, n # 0 PROVE after # NoCursor /\ to = n /\ after = base + n
      OBVIOUS
    <3>1. to = n
      BY <1>0, <1>1, <1>2
    <3> QED BY <1>1, <1>2, <3>1
  <2>3. to < n <=> page.latest # None /\ page.nextAfter < page.latest
    <3>1. CASE n = 0
      BY <1>2, <1>3, <3>1
    <3>2. CASE n # 0
      <4>1. page.latest = base + n /\ page.latest # None
        BY <1>1, <1>3, <3>2 DEF None
      <4>2. CASE to > from
        BY <1>1, <1>2, <1>3, <4>1, <4>2
      <4>3. CASE to = from
        <5>1. page.nextAfter = base + n /\ to = n
          BY <1>2, <1>3, <2>2, <3>2, <4>3
        <5> QED BY <1>1, <4>1, <5>1
      <4> QED BY <1>2, <4>2, <4>3
    <3> QED BY <3>1, <3>2
  <2>6. page.hasMore = (page.latest # None /\ page.nextAfter < page.latest)
    <3>1. page.hasMore <=> page.latest # None /\ page.nextAfter < page.latest
      BY <1>4, <2>3, Zenon
    <3> QED BY <1>a, <3>1, FlagEquals, Zenon
  <2>7. page.gap = (after # NoCursor /\ page.oldest # None /\ after < page.oldest - 1)
    <3>1. page.gap <=> after # NoCursor /\ page.oldest # None /\ after < page.oldest - 1
      BY <1>4, <2>1, Zenon
    <3> QED BY <1>a, <3>1, FlagEquals, Zenon
  <2>4. CASE rows = <<>>
    <3>1. to = from
      BY <1>2, <1>6, <2>4
    <3>2. page.nextAfter = IF after = NoCursor THEN 0 ELSE after
      BY <1>2, <1>3, <3>1
    <3>3. page.latest # None => after # NoCursor /\ after >= page.latest
      <4>1. page.latest # None => n # 0 /\ page.latest = base + n
        BY <1>3
      <4> QED BY <1>1, <2>2, <3>1, <4>1
    <3> QED BY <2>4, <2>6, <2>7, <3>2, <3>3, Zenon DEF PageCursorValid, rows
  <2>5. CASE rows # <<>>
    <3>1. l \in 1..l /\ 1 \in 1..l /\ to > from
      BY <1>2, <1>6, <2>5
    <3>2. /\ Last(rows).sequence = base + from + l /\ Head(rows).sequence = base + from + 1
      <4>1. Last(rows) = rows[l] /\ Head(rows) = rows[1]
        BY <1>3, <2>5 DEF Last
      <4> QED BY <1>7, <3>1, <4>1
    <3>3. base + from + l = base + to /\ n # 0
      BY <1>1, <1>2, <3>1
    <3>4. page.nextAfter = Last(rows).sequence
      BY <1>3, <3>1, <3>2, <3>3
    <3>5. page.latest = base + n /\ page.oldest = base + 1
      BY <1>3, <3>3
    <3>6. after = NoCursor => Last(rows).sequence = page.latest
      BY <1>2, <3>2, <3>3, <3>5
    <3>7. after # NoCursor => Head(rows).sequence = Max({after + 1, page.oldest})
      <4> SUFFICES ASSUME after # NoCursor
                   PROVE  Head(rows).sequence = Max({after + 1, page.oldest})
        OBVIOUS
      <4>1. after + 1 \in Int /\ base + 1 \in Int
        BY <1>1, <1>2
      <4>2. Max({after + 1, base + 1}) = IF after + 1 >= base + 1 THEN after + 1 ELSE base + 1
        BY <4>1, MaxOfTwo
      <4>3. base + from + 1 = IF after + 1 >= base + 1 THEN after + 1 ELSE base + 1
        <5>1. after \in Nat /\ after <= base + from /\ (from > 0 => after = base + from)
          BY <1>2
        <5> QED BY <1>1, <1>2, <5>1
      <4> QED BY <3>2, <3>5, <4>2, <4>3
    <3> QED BY <2>5, <2>6, <2>7, <3>4, <3>6, <3>7, Zenon DEF PageCursorValid, rows
  <2> QED BY <2>4, <2>5
<1> QED BY <1>3, <1>9, <1>10, <1>11 DEF ProjectReceptionPage, page

\* Every page the simulator answers, for every cursor the display may ask with, passes
\* all the checks of the display's client: no page is refused as inconsistent.
THEOREM PagesCorrect == Spec => []PagesAccepted
BY StoreAlways, PagesValid, PTL DEF EngineInv

-----------------------------------------------------------------------------
(***************************************************************************)
(* Sums                                                                    *)
(***************************************************************************)
\* A column of f[x] cells for each x: a sum is the number of the cells.
Cells(f) == UNION {{x} \X (1..f[x]) : x \in DOMAIN f}

\* One cell more.
LEMMA CellAdded ==
  ASSUME NEW S, IsFiniteSet(S), NEW x, x \notin S
  PROVE  IsFiniteSet(S \cup {x}) /\ Cardinality(S \cup {x}) = Cardinality(S) + 1
BY FS_AddElement

\* A column is finite and as high as it says.
LEMMA ColumnCount ==
  ASSUME NEW x, NEW n \in Nat
  PROVE  IsFiniteSet({x} \X (1..n)) /\ Cardinality({x} \X (1..n)) = n
<1>1. IsFiniteSet(1..n) /\ Cardinality(1..n) = n
  BY FS_Interval
<1>2. IsFiniteSet({x}) /\ Cardinality({x}) = 1
  BY FS_Singleton
<1>3. /\ IsFiniteSet({x} \X (1..n))
      /\ Cardinality({x} \X (1..n)) = Cardinality({x}) * Cardinality(1..n)
  BY <1>1, <1>2, FS_Product
<1> QED BY <1>1, <1>2, <1>3

\* The cells of a finite number of columns, with and without one of them.
LEMMA ColumnTaken ==
  ASSUME NEW S, NEW f \in [S -> Nat], NEW x \in S,
         LET g == [y \in S \ {x} |-> f[y]] IN IsFiniteSet(Cells(g))
  PROVE  LET g == [y \in S \ {x} |-> f[y]]
         IN /\ IsFiniteSet(Cells(f))
            /\ Cardinality(Cells(f)) = f[x] + Cardinality(Cells(g))
<1> DEFINE g == [y \in S \ {x} |-> f[y]]
           column == {x} \X (1..f[x])
<1>1. Cells(f) = column \cup Cells(g)
  <2>1. DOMAIN f = S /\ DOMAIN g = S \ {x} /\ \A y \in S \ {x} : g[y] = f[y]
    OBVIOUS
  <2> HIDE DEF g
  <2> QED BY <2>1 DEF Cells
<1>2. column \cap Cells(g) = {}
  <2>1. ASSUME NEW p \in column, NEW y \in S \ {x}, p \in {y} \X (1..f[y]) PROVE FALSE
    BY <2>1
  <2>2. DOMAIN g = S \ {x} /\ \A y \in S \ {x} : g[y] = f[y]
    OBVIOUS
  <2> HIDE DEF g, column
  <2> QED BY <2>1, <2>2 DEF Cells
<1>3. IsFiniteSet(column) /\ Cardinality(column) = f[x] /\ IsFiniteSet(Cells(g))
  BY ColumnCount
<1> HIDE DEF column, g
<1>4. /\ IsFiniteSet(column \cup Cells(g))
      /\ Cardinality(column \cup Cells(g))
           = Cardinality(column) + Cardinality(Cells(g)) - Cardinality(column \cap Cells(g))
  BY <1>3, FS_Union
<1>5. Cardinality(column \cap Cells(g)) = 0
  BY <1>2, FS_EmptySet
<1>6. Cardinality(Cells(g)) \in Nat /\ f[x] \in Nat
  BY <1>3, FS_CardinalityType
<1> QED BY <1>1, <1>3, <1>4, <1>5, <1>6 DEF g

\* The cells of finitely many columns are finitely many.
LEMMA CellsFinite ==
  ASSUME NEW S, IsFiniteSet(S), NEW f \in [S -> Nat]
  PROVE  IsFiniteSet(Cells(f))
<1> DEFINE part(s) == [y \in s |-> f[y]]
           Bad == {s \in SUBSET S : ~IsFiniteSet(Cells(part(s)))}
<1>1. Bad = {}
  <2> SUFFICES ASSUME Bad # {} PROVE FALSE
    OBVIOUS
  <2>1. Bad \subseteq FiniteSubsetsOf(S)
    BY FS_Subset DEF FiniteSubsetsOf
  <2>2. PICK s \in Bad : \A r \in Bad : ~(<<r, s>> \in StrictSubsetOrdering(S))
    BY <2>1, WFMin, FS_StrictSubsetOrderingWellFounded
  <2>3. CASE s = {}
    <3>1. Cells(part(s)) = {}
      <4>1. DOMAIN part(s) = {}
        BY <2>3
      <4> HIDE DEF part
      <4> QED BY <4>1 DEF Cells
    <3> QED BY <2>2, <3>1, FS_EmptySet
  <2>4. CASE s # {}
    <3>1. PICK x : x \in s
      BY <2>4
    <3>2. s \ {x} \in SUBSET S /\ s \ {x} \notin Bad
      BY <2>1, <2>2, <3>1 DEF StrictSubsetOrdering, FiniteSubsetsOf
    <3>3. part(s) \in [s -> Nat] /\ part(s \ {x}) = [y \in s \ {x} |-> part(s)[y]]
      OBVIOUS
    <3>4. IsFiniteSet(Cells(part(s \ {x})))
      BY <3>2
    <3> HIDE DEF part
    <3>5. IsFiniteSet(Cells(part(s)))
      BY <3>1, <3>3, <3>4, ColumnTaken
    <3> QED BY <2>2, <3>5
  <2> QED BY <2>3, <2>4
<1>2. part(S) = f
  OBVIOUS
<1> QED BY <1>1, <1>2

\* A sum is the number of its cells.
LEMMA SumIsCells ==
  ASSUME NEW S, IsFiniteSet(S), NEW f \in [S -> Nat]
  PROVE  SumOver(f) = Cardinality(Cells(f)) /\ SumOver(f) \in Nat
<1> DEFINE part(s) == [y \in s |-> f[y]]
           first(s) == CHOOSE x \in s : TRUE
           IsSum(it) == it = [s \in SUBSET S |->
                                IF s = {} THEN 0 ELSE f[first(s)] + it[s \ {first(s)}]]
           iter == CHOOSE it : IsSum(it)
           g == [s \in SUBSET S |-> Cardinality(Cells(part(s)))]
<1>1. SumOver(f) = iter[S]
  <2>1. DOMAIN f = S
    OBVIOUS
  <2> QED BY <2>1 DEF SumOver, MapThenSumSet, MapThenFoldSet
<1>2. ASSUME NEW s \in SUBSET S
      PROVE  part(s) \in [s -> Nat] /\ IsFiniteSet(Cells(part(s))) /\ g[s] \in Nat
  <2>1. part(s) \in [s -> Nat] /\ IsFiniteSet(s)
    BY FS_Subset
  <2>2. IsFiniteSet(Cells(part(s)))
    BY <2>1, CellsFinite
  <2> HIDE DEF part
  <2> QED BY <2>1, <2>2, FS_CardinalityType
<1>3. g[{}] = 0
  <2>1. DOMAIN part({}) = {}
    OBVIOUS
  <2> HIDE DEF part
  <2>2. Cells(part({})) = {}
    BY <2>1 DEF Cells
  <2> QED BY <2>2, FS_EmptySet
<1>4. ASSUME NEW s \in SUBSET S, NEW x \in s PROVE g[s] = f[x] + g[s \ {x}]
  <2>1. part(s)[x] = f[x] /\ part(s \ {x}) = [y \in s \ {x} |-> part(s)[y]] /\ s \ {x} \in SUBSET S
    OBVIOUS
  <2>2. /\ g[s] = Cardinality(Cells(part(s)))
        /\ g[s \ {x}] = Cardinality(Cells(part(s \ {x})))
    OBVIOUS
  <2>3. part(s) \in [s -> Nat] /\ IsFiniteSet(Cells(part(s \ {x})))
    BY <1>2, <2>1
  <2> HIDE DEF part, g
  <2>4. Cardinality(Cells(part(s))) = part(s)[x] + Cardinality(Cells(part(s \ {x})))
    BY <2>1, <2>3, ColumnTaken
  <2> QED BY <2>1, <2>2, <2>4
<1>5. \A s \in SUBSET S : s # {} => first(s) \in s
  OBVIOUS
<1>6. g = [s \in SUBSET S |-> g[s]]
  OBVIOUS
<1> HIDE DEF g, first
<1>7. IsSum(g)
  BY <1>3, <1>4, <1>5, <1>6
<1>8. IsSum(iter)
  <2> HIDE DEF IsSum
  <2> QED BY <1>7
<1>9. \A s \in SUBSET S : iter[s] = IF s = {} THEN 0 ELSE f[first(s)] + iter[s \ {first(s)}]
  <2> HIDE DEF iter
  <2> QED BY <1>8
<1> HIDE DEF iter, IsSum
<1> DEFINE Bad == {s \in SUBSET S : iter[s] # g[s]}
<1>10. Bad = {}
  <2> SUFFICES ASSUME Bad # {} PROVE FALSE
    OBVIOUS
  <2>1. Bad \subseteq FiniteSubsetsOf(S)
    BY FS_Subset DEF FiniteSubsetsOf
  <2>2. PICK s \in Bad : \A r \in Bad : ~(<<r, s>> \in StrictSubsetOrdering(S))
    BY <2>1, WFMin, FS_StrictSubsetOrderingWellFounded
  <2>3. CASE s = {}
    BY <1>3, <1>9, <2>2, <2>3
  <2>4. CASE s # {}
    <3>1. first(s) \in s /\ s \in SUBSET S
      BY <1>5, <2>2, <2>4
    <3>2. s \ {first(s)} \in SUBSET S /\ s \ {first(s)} \notin Bad
      BY ZenonT(30), <2>1, <2>2, <3>1 DEF StrictSubsetOrdering, FiniteSubsetsOf
    <3>3. iter[s \ {first(s)}] = g[s \ {first(s)}]
      BY <3>2
    <3>4. iter[s] = f[first(s)] + iter[s \ {first(s)}]
      BY <1>9, <2>4, <3>1
    <3>5. g[s] = f[first(s)] + g[s \ {first(s)}]
      BY <1>4, <3>1
    <3> QED BY <2>2, <3>3, <3>4, <3>5
  <2> QED BY <2>3, <2>4
<1>11. part(S) = f
  OBVIOUS
<1>12. iter[S] = g[S] /\ g[S] = Cardinality(Cells(part(S))) /\ g[S] \in Nat
  <2>1. iter[S] = g[S]
    BY <1>10
  <2>2. g[S] \in Nat
    BY <1>2
  <2>3. g[S] = Cardinality(Cells(part(S)))
    BY DEF g
  <2> QED BY <2>1, <2>2, <2>3
<1> QED BY <1>1, <1>11, <1>12

\* What follows from it: a sum of zeros, one more in one place, fewer summands.
LEMMA SumFacts ==
  ASSUME NEW S, IsFiniteSet(S), NEW f \in [S -> Nat]
  PROVE  /\ (\A x \in S : f[x] = 0) => SumOver(f) = 0
         /\ \A x \in S : SumOver([f EXCEPT ![x] = @ + 1]) = SumOver(f) + 1
         /\ \A T \in SUBSET S : SumOver([x \in T |-> f[x]]) <= SumOver(f)
<1>1. SumOver(f) = Cardinality(Cells(f)) /\ IsFiniteSet(Cells(f))
  BY SumIsCells, CellsFinite
<1>2. ASSUME \A x \in S : f[x] = 0 PROVE SumOver(f) = 0
  <2>1. Cells(f) = {}
    BY <1>2 DEF Cells
  <2> QED BY <1>1, <2>1, FS_EmptySet
<1>3. ASSUME NEW x \in S PROVE SumOver([f EXCEPT ![x] = @ + 1]) = SumOver(f) + 1
  <2> DEFINE g == [f EXCEPT ![x] = @ + 1]
             cell == <<x, f[x] + 1>>
  <2>1. /\ g \in [S -> Nat] /\ g[x] = f[x] + 1 /\ f[x] \in Nat
        /\ \A y \in S \ {x} : g[y] = f[y]
    OBVIOUS
  <2>2. DOMAIN f = S /\ DOMAIN g = S
    OBVIOUS
  <2> HIDE DEF g
  <2>3. cell \notin Cells(f)
    <3>1. ASSUME NEW y \in S, cell \in {y} \X (1..f[y]) PROVE FALSE
      <4>1. y = x /\ f[x] + 1 \in 1..f[x]
        BY <3>1
      <4> QED BY <2>1, <4>1
    <3> HIDE DEF cell
    <3> QED BY <2>2, <3>1 DEF Cells
  <2>4. {x} \X (1..g[x]) = ({x} \X (1..f[x])) \cup {cell}
    BY <2>1
  <2>5. Cells(g) = Cells(f) \cup {cell}
    <3> HIDE DEF cell
    <3> QED BY <2>1, <2>2, <2>4 DEF Cells
  <2>6. SumOver(g) = Cardinality(Cells(g))
    BY <2>1, SumIsCells
  <2> HIDE DEF cell
  <2>7. Cardinality(Cells(g)) = Cardinality(Cells(f)) + 1
    BY <1>1, <2>3, <2>5, CellAdded
  <2> QED BY <1>1, <2>6, <2>7 DEF g
<1>4. ASSUME NEW T \in SUBSET S PROVE SumOver([x \in T |-> f[x]]) <= SumOver(f)
  <2> DEFINE g == [x \in T |-> f[x]]
  <2>1. g \in [T -> Nat] /\ DOMAIN g = T /\ DOMAIN f = S /\ \A x \in T : g[x] = f[x]
    OBVIOUS
  <2>2. IsFiniteSet(T)
    BY FS_Subset
  <2> HIDE DEF g
  <2>3. Cells(g) \subseteq Cells(f)
    BY <2>1 DEF Cells
  <2>4. SumOver(g) = Cardinality(Cells(g))
    BY <2>1, <2>2, SumIsCells
  <2> QED BY <1>1, <2>3, <2>4, FS_Subset DEF g
<1> QED BY <1>2, <1>3, <1>4

\* A sum leaves out what is zero.
LEMMA SumWithout ==
  ASSUME NEW S, IsFiniteSet(S), NEW f \in [S -> Nat], NEW T \in SUBSET S,
         \A x \in S \ T : f[x] = 0
  PROVE  SumOver([x \in T |-> f[x]]) = SumOver(f)
<1> DEFINE g == [x \in T |-> f[x]]
<1>1. g \in [T -> Nat] /\ DOMAIN g = T /\ DOMAIN f = S /\ \A x \in T : g[x] = f[x]
  OBVIOUS
<1>2. IsFiniteSet(T)
  BY FS_Subset
<1> HIDE DEF g
<1>3. \A x \in S \ T : {x} \X (1..f[x]) = {}
  OBVIOUS
<1>4. Cells(g) = Cells(f)
  BY <1>1, <1>3 DEF Cells
<1> QED BY <1>1, <1>2, <1>4, SumIsCells DEF g

\* The sizes of disjoint sets add up.
LEMMA DisjointUnion ==
  ASSUME NEW S, IsFiniteSet(S), NEW T, IsFiniteSet(T), S \cap T = {}
  PROVE  /\ IsFiniteSet(S \cup T)
         /\ Cardinality(S \cup T) = Cardinality(S) + Cardinality(T)
<1>1. Cardinality(S \cap T) = 0
  BY FS_EmptySet
<1>2. Cardinality(S) \in Nat /\ Cardinality(T) \in Nat
  BY FS_CardinalityType
<1>3. /\ IsFiniteSet(S \cup T)
      /\ Cardinality(S \cup T)
           = Cardinality(S) + Cardinality(T) - Cardinality(S \cap T)
  BY FS_Union
<1> QED BY <1>1, <1>2, <1>3

\* The sum of the sizes of disjoint sets is the size of their union.
LEMMA SumIsUnion ==
  ASSUME NEW S, IsFiniteSet(S), NEW f \in [S -> Nat], NEW A,
         \A x \in S : IsFiniteSet(A[x]) /\ Cardinality(A[x]) = f[x],
         \A x, y \in S : \A z \in A[x] : z \in A[y] => x = y,
         NEW U, \A z : z \in U <=> \E x \in S : z \in A[x]
  PROVE  SumOver(f) = Cardinality(U)
<1> DEFINE part(s) == [x \in s |-> f[x]]
           union(s) == UNION {A[x] : x \in s}
           Good(s) == /\ IsFiniteSet(union(s))
                      /\ Cardinality(union(s)) = Cardinality(Cells(part(s)))
           Bad == {s \in SUBSET S : ~Good(s)}
<1>1. Bad = {}
  <2> SUFFICES ASSUME Bad # {} PROVE FALSE
    OBVIOUS
  <2>1. Bad \subseteq FiniteSubsetsOf(S)
    BY FS_Subset DEF FiniteSubsetsOf
  <2>2. PICK s \in Bad : \A r \in Bad : ~(<<r, s>> \in StrictSubsetOrdering(S))
    BY <2>1, WFMin, FS_StrictSubsetOrderingWellFounded
  <2>a. s \in SUBSET S /\ IsFiniteSet(s)
    BY <2>1, <2>2 DEF FiniteSubsetsOf
  <2>3. CASE s = {}
    <3>1. DOMAIN part(s) = {} /\ union(s) = {}
      BY <2>3
    <3>2. Cells(part(s)) = {}
      <4> HIDE DEF part
      <4> QED BY <3>1 DEF Cells
    <3> QED BY <2>2, <3>1, <3>2, FS_EmptySet
  <2>4. CASE s # {}
    <3>1. PICK x : x \in s
      BY <2>4
    <3>2. s \in SUBSET S /\ s \ {x} \in SUBSET S /\ s \ {x} \notin Bad
      <4>1. s \ {x} \in FiniteSubsetsOf(S) /\ s \ {x} # s /\ s \ {x} \subseteq s
        BY <2>a, <3>1, FS_Subset DEF FiniteSubsetsOf
      <4> HIDE DEF Bad
      <4>2. s \in FiniteSubsetsOf(S)
        BY <2>1, <2>2
      <4>3. <<s \ {x}, s>> \in StrictSubsetOrdering(S)
        <5> DEFINE r == s \ {x}
        <5>1. r \in SUBSET S /\ r \subseteq s /\ r # s /\ s \in SUBSET S
          BY <2>a, <4>1
        <5> HIDE DEF r
        <5> QED BY <5>1 DEF StrictSubsetOrdering, r
      <4> QED BY <2>2, <2>a, <4>3
    <3>3. /\ IsFiniteSet(union(s \ {x}))
          /\ Cardinality(union(s \ {x})) = Cardinality(Cells(part(s \ {x})))
      BY <3>2
    <3>4. union(s) = A[x] \cup union(s \ {x}) /\ A[x] \cap union(s \ {x}) = {}
      BY <3>1, <3>2
    <3>5. IsFiniteSet(A[x]) /\ Cardinality(A[x]) = f[x]
      BY <3>1, <3>2
    <3>6. /\ IsFiniteSet(union(s))
          /\ Cardinality(union(s)) = Cardinality(A[x]) + Cardinality(union(s \ {x}))
      <4> DEFINE column == A[x]
                 rest == union(s \ {x})
      <4>1. IsFiniteSet(column) /\ IsFiniteSet(rest) /\ column \cap rest = {}
        BY <3>3, <3>4, <3>5
      <4>2. union(s) = column \cup rest
        BY <3>4
      <4> HIDE DEF column, rest, union
      <4>3. /\ IsFiniteSet(column \cup rest)
            /\ Cardinality(column \cup rest) = Cardinality(column) + Cardinality(rest)
        BY <4>1, DisjointUnion
      <4> QED BY <4>2, <4>3 DEF column, rest
    <3> HIDE DEF union, Bad, Good
    <3>8. /\ part(s) \in [s -> Nat] /\ part(s)[x] = f[x]
          /\ part(s \ {x}) = [y \in s \ {x} |-> part(s)[y]]
          /\ part(s \ {x}) \in [s \ {x} -> Nat]
      BY <3>1, <3>2
    <3>9. IsFiniteSet(s \ {x})
      BY <3>2, FS_Subset
    <3> HIDE DEF part
    <3>10. IsFiniteSet(Cells(part(s \ {x})))
      BY <3>8, <3>9, CellsFinite
    <3>11. Cardinality(Cells(part(s))) = part(s)[x] + Cardinality(Cells(part(s \ {x})))
      <4>1. /\ part(s) \in [s -> Nat]
            /\ part(s \ {x}) = [y \in s \ {x} |-> part(s)[y]]
        BY <3>8
      <4> QED BY <3>1, <3>10, <4>1, ColumnTaken
    <3>12. f[x] \in Nat /\ Cardinality(Cells(part(s \ {x}))) \in Nat
      BY <3>1, <3>2, <3>10, FS_CardinalityType
    <3>13. Cardinality(union(s)) = Cardinality(Cells(part(s)))
      BY <3>3, <3>5, <3>6, <3>8, <3>11, <3>12
    <3>14. Good(s)
      BY <3>6, <3>13 DEF Good
    <3> QED BY <2>2, <3>14 DEF Bad
  <2> QED BY <2>3, <2>4
<1>2. part(S) = f
  OBVIOUS
<1>3. Cardinality(union(S)) = Cardinality(Cells(f))
  BY <1>1, <1>2
<1>4. union(S) = U
  OBVIOUS
<1> QED BY <1>3, <1>4, SumIsCells

-----------------------------------------------------------------------------
(***************************************************************************)
(* Seconds                                                                 *)
(***************************************************************************)
\* The multiples of n are n apart.
LEMMA MultiplesApart ==
  ASSUME NEW n \in Nat, NEW p \in Nat, NEW q \in Nat, p < q
  PROVE  n * p + n <= n * q /\ n * p \in Nat
<1>1. PICK c \in Nat : q = p + 1 + c
  <2>1. q - p - 1 \in Nat /\ q = p + 1 + (q - p - 1)
    OBVIOUS
  <2> QED BY <2>1
<1>2. n * q = n * p + n + n * c
  BY <1>1
<1>3. n * c \in Nat /\ n * p \in Nat
  BY <1>1
<1> QED BY <1>2, <1>3

\* Two seconds of one slot that are less than a round apart are one second.
LEMMA SameSecond ==
  ASSUME NEW n \in Nat \ {0}, NEW a \in Nat, NEW b \in Nat, a <= b, b - a < n, a % n = b % n
  PROVE  a = b
<1> DEFINE p == a \div n
           q == b \div n
<1>1. /\ a = n * p + (a % n) /\ b = n * q + (b % n) /\ p \in Nat /\ q \in Nat
      /\ a % n \in Nat
  BY DivMod
<1> HIDE DEF p, q
<1>2. n * p \in Nat /\ n * q \in Nat
  BY <1>1
<1>3. CASE p < q
  BY <1>1, <1>2, <1>3, MultiplesApart
<1>4. CASE q < p
  BY <1>1, <1>2, <1>4, MultiplesApart
<1>5. CASE p = q
  BY <1>1, <1>5
<1> QED BY <1>1, <1>3, <1>4, <1>5

\* A later instant is in no earlier second, and a tick begins its second.
LEMMA SecondsOrdered ==
  ASSUME NEW a \in Nat, NEW b \in Nat, a <= b
  PROVE  /\ a \div TickInterval <= b \div TickInterval
         /\ a \div TickInterval \in Nat /\ b \div TickInterval \in Nat
<1> DEFINE n == TickInterval
           p == a \div n
           q == b \div n
<1>1. n \in Nat \ {0}
  BY LimitsAssumption
<1>2. /\ a = n * p + (a % n) /\ b = n * q + (b % n) /\ p \in Nat /\ q \in Nat
      /\ a % n \in Nat /\ b % n \in Nat /\ b % n < n
  BY <1>1, DivMod
<1> HIDE DEF p, q, n
<1>3. n * p \in Nat /\ n * q \in Nat
  BY <1>1, <1>2
<1>4. ~(q < p)
  BY <1>1, <1>2, <1>3, MultiplesApart
<1> QED BY <1>2, <1>4 DEF p, q, n

-----------------------------------------------------------------------------
(***************************************************************************)
(* One station's counters beside its log                                   *)
(***************************************************************************)
Entry == [at : Nat, got : BOOLEAN]

SecondOf(e) == e.at \div TickInterval

Got(l) == {k \in DOMAIN l : l[k].got}

\* The entries that bucket b counts.
Kept(st, l, b) ==
  {k \in DOMAIN l : /\ SecondOf(l[k]) = st.buckets[b].second
                    /\ SecondOf(l[k]) % RateBuckets = b}

\* The lifetime counters of a station: by outcome and by channel they are the same.
Partitioned(st) ==
  /\ st.opportunities = SumOver(st.outcome)
  /\ st.opportunities = SumOver([c \in Channels |-> st.channel[c].opportunities])
  /\ st.outcome["received"] = SumOver([c \in Channels |-> st.channel[c].received])

\* Those of a station that has logged l.
Accounts(st, l) ==
  /\ Partitioned(st)
  /\ st.opportunities = Len(l)
  /\ st.outcome["received"] = Cardinality(Got(l))

\* Its buckets: each counts what was logged in its second, and the newest second
\* of its slot is never older than what was logged there.
Filed(st, l, now) ==
  /\ \A k \in DOMAIN l :
       LET slot == SecondOf(l[k]) % RateBuckets
       IN /\ SecondOf(l[k]) <= now
          /\ SecondOf(l[k]) <= st.buckets[slot].second
          /\ st.buckets[slot].second % RateBuckets = slot
  /\ \A b \in 0..(RateBuckets - 1) :
       /\ st.buckets[b].second <= now
       /\ st.buckets[b].opportunities = Cardinality(Kept(st, l, b))
       /\ st.buckets[b].received = Cardinality(Kept(st, l, b) \cap Got(l))

\* One more entry.
LEMMA EntryAppended ==
  ASSUME NEW l \in Seq(Entry), NEW at \in Nat, NEW got \in BOOLEAN
  PROVE  LET m == Append(l, [at |-> at, got |-> got])
             n == Len(l) + 1
         IN /\ m \in Seq(Entry) /\ Len(m) = n /\ DOMAIN m = DOMAIN l \cup {n}
            /\ n \notin DOMAIN l /\ IsFiniteSet(DOMAIN l)
            /\ m[n].at = at /\ \A k \in DOMAIN l : m[k] = l[k]
            /\ Got(m) = IF got THEN Got(l) \cup {n} ELSE Got(l)
            /\ Got(l) \subseteq DOMAIN l
<1> DEFINE e == [at |-> at, got |-> got]
           m == Append(l, e)
           n == Len(l) + 1
<1>1. e \in Entry /\ e.at = at
  BY DEF Entry
<1>2. e.got <=> got
  OBVIOUS
<1> HIDE DEF e
<1>3. /\ m \in Seq(Entry) /\ Len(m) = n /\ m[n] = e
      /\ \A k \in 1..Len(l) : m[k] = l[k]
  BY <1>1, AppendProperties
<1>4. Len(l) \in Nat /\ DOMAIN l = 1..Len(l) /\ DOMAIN m = 1..n
  BY <1>3, LenProperties
<1>5. DOMAIN m = DOMAIN l \cup {n} /\ n \notin DOMAIN l
  BY <1>4
<1>6. IsFiniteSet(DOMAIN l)
  BY <1>4, FS_Interval
<1> HIDE DEF m, n
<1>7. Got(m) = IF got THEN Got(l) \cup {n} ELSE Got(l)
  <2>1. \A k \in DOMAIN l : m[k] = l[k]
    BY <1>3, <1>4
  <2>2. CASE got
    BY <1>2, <1>3, <1>5, <2>1, <2>2 DEF Got
  <2>3. CASE ~got
    BY <1>2, <1>3, <1>5, <2>1, <2>3 DEF Got
  <2> QED BY <2>2, <2>3
<1>8. m[n].at = at
  BY <1>1, <1>3
<1> QED BY <1>3, <1>4, <1>5, <1>6, <1>7, <1>8 DEF Got, m, n, e

\* A bucket counts one more in its second, and starts again in a new one.
LEMMA BucketCounted ==
  ASSUME NEW st \in Stats, NEW outcome \in Outcomes, NEW channel, NEW second \in Nat
  PROVE  LET new == Count(st, outcome, channel, second)
             slot == second % RateBuckets
             old == st.buckets[slot]
         IN /\ slot \in 0..(RateBuckets - 1)
            /\ \A b \in 0..(RateBuckets - 1) :
                 /\ b # slot => new.buckets[b] = st.buckets[b]
                 /\ st.buckets[b].second \in Nat /\ st.buckets[b].opportunities \in Nat
                 /\ st.buckets[b].received \in Nat
            /\ new.buckets[slot].second = second
            /\ old.second = second =>
                 /\ new.buckets[slot].opportunities = old.opportunities + 1
                 /\ new.buckets[slot].received = old.received + Bump(outcome = "received")
            /\ old.second # second =>
                 /\ new.buckets[slot].opportunities = 1
                 /\ new.buckets[slot].received = Bump(outcome = "received")
<1> DEFINE new == Count(st, outcome, channel, second)
           slot == second % RateBuckets
           old == st.buckets[slot]
           got == outcome = "received"
           Bucket == [second : Nat, opportunities : Nat, received : Nat]
           counted == CountBucket(old, second, got)
<1>1. slot \in 0..(RateBuckets - 1)
  <2>1. RateBuckets \in Nat \ {0}
    BY LimitsAssumption
  <2> QED BY <2>1, DivMod
<1>2. st.buckets \in [0..(RateBuckets - 1) -> Bucket]
  BY DEF Stats
<1>3. new.buckets = [st.buckets EXCEPT ![slot] = counted]
  BY DEF Count, Stats
<1>4. \A b \in 0..(RateBuckets - 1) : st.buckets[b] \in Bucket
  BY <1>2
<1> HIDE DEF new, slot
<1>5. old \in Bucket
  BY <1>1, <1>4
<1> HIDE DEF counted
<1>6. /\ new.buckets[slot] = counted
      /\ \A b \in 0..(RateBuckets - 1) : b # slot => new.buckets[b] = st.buckets[b]
  BY <1>1, <1>2, <1>3
<1> HIDE DEF old, got
<1>7. CASE old.second = second
  <2>1. counted = [old EXCEPT !.opportunities = @ + 1, !.received = @ + Bump(got)]
    BY <1>7 DEF counted, CountBucket
  <2>2. /\ counted.second = second /\ counted.opportunities = old.opportunities + 1
        /\ counted.received = old.received + Bump(got)
    BY <1>5, <1>7, <2>1
  <2> QED BY <1>1, <1>4, <1>6, <1>7, <2>2 DEF new, slot, old, got
<1>8. CASE old.second # second
  <2>1. counted = [second |-> second, opportunities |-> 1, received |-> Bump(got)]
    BY <1>8 DEF counted, CountBucket
  <2>2. /\ counted.second = second /\ counted.opportunities = 1
        /\ counted.received = Bump(got)
    BY <2>1
  <2> QED BY <1>1, <1>4, <1>6, <1>8, <2>2 DEF new, slot, old, got
<1> QED BY <1>7, <1>8

\* Counting an opportunity files it in the bucket of its second.
LEMMA CountFiled ==
  ASSUME NEW st \in Stats, NEW l \in Seq(Entry), NEW outcome \in Outcomes, NEW channel,
         NEW at \in Nat, Filed(st, l, at \div TickInterval)
  PROVE  Filed(Count(st, outcome, channel, at \div TickInterval),
               Append(l, [at |-> at, got |-> outcome = "received"]), at \div TickInterval)
<1> DEFINE s == at \div TickInterval
           slot == s % RateBuckets
           got == outcome = "received"
           new == Count(st, outcome, channel, s)
           m == Append(l, [at |-> at, got |-> got])
           n == Len(l) + 1
           Slots == 0..(RateBuckets - 1)
<1>1. s \in Nat
  BY SecondsOrdered
<1>2. /\ DOMAIN m = DOMAIN l \cup {n} /\ n \notin DOMAIN l /\ IsFiniteSet(DOMAIN l)
      /\ SecondOf(m[n]) = s
      /\ \A k \in DOMAIN l : m[k] = l[k]
      /\ Got(m) = IF got THEN Got(l) \cup {n} ELSE Got(l)
      /\ Got(l) \subseteq DOMAIN l
  <2> HIDE DEF m, n, got
  <2>1. got \in BOOLEAN
    BY DEF got
  <2>2. n \notin DOMAIN l /\ IsFiniteSet(DOMAIN l) /\ Got(l) \subseteq DOMAIN l
    BY <2>1, EntryAppended DEF m, n
  <2>6. DOMAIN m = DOMAIN l \cup {n}
    <3>1. Len(m) = n /\ m \in Seq(Entry)
      BY <2>1, EntryAppended DEF m, n
    <3>2. DOMAIN m = 1..n /\ DOMAIN l = 1..Len(l) /\ Len(l) \in Nat
      BY <3>1, LenProperties
    <3> QED BY <3>2 DEF n
  <2>7. \A k \in DOMAIN l : m[k] = l[k]
    <3> SUFFICES ASSUME NEW k \in DOMAIN l PROVE m[k] = l[k]
      OBVIOUS
    <3> QED BY <2>1, EntryAppended DEF m, n
  <2>3. m[n].at = at
    BY <2>1, EntryAppended DEF m, n
  <2>4. Got(m) = IF got THEN Got(l) \cup {n} ELSE Got(l)
    BY <2>1, EntryAppended DEF m, n
  <2>5. SecondOf(m[n]) = s
    BY <2>3 DEF SecondOf
  <2> QED BY <2>2, <2>4, <2>5, <2>6, <2>7
<1> HIDE DEF s, m, n
<1>3. /\ slot \in Slots
      /\ \A b \in Slots :
           /\ b # slot => new.buckets[b] = st.buckets[b]
           /\ st.buckets[b].second \in Nat /\ st.buckets[b].opportunities \in Nat
           /\ st.buckets[b].received \in Nat
      /\ new.buckets[slot].second = s
      /\ st.buckets[slot].second = s =>
           /\ new.buckets[slot].opportunities = st.buckets[slot].opportunities + 1
           /\ new.buckets[slot].received = st.buckets[slot].received + Bump(got)
      /\ st.buckets[slot].second # s =>
           /\ new.buckets[slot].opportunities = 1
           /\ new.buckets[slot].received = Bump(got)
  <2>1. slot \in Slots /\ \A b \in Slots : b # slot => new.buckets[b] = st.buckets[b]
    <3>1. slot \in Slots
      BY <1>1, BucketCounted
    <3>2. ASSUME NEW b \in Slots, b # slot PROVE new.buckets[b] = st.buckets[b]
      BY <1>1, <3>2, BucketCounted
    <3> QED BY <3>1, <3>2
  <2>5. new.buckets[slot].second = s
    BY <1>1, BucketCounted
  <2>2. \A b \in Slots :
          /\ st.buckets[b].second \in Nat /\ st.buckets[b].opportunities \in Nat
          /\ st.buckets[b].received \in Nat
    BY <1>1, BucketCounted
  <2>3. st.buckets[slot].second = s =>
          /\ new.buckets[slot].opportunities = st.buckets[slot].opportunities + 1
          /\ new.buckets[slot].received = st.buckets[slot].received + Bump(got)
    BY <1>1, BucketCounted
  <2>4. st.buckets[slot].second # s =>
          /\ new.buckets[slot].opportunities = 1
          /\ new.buckets[slot].received = Bump(got)
    BY <1>1, BucketCounted
  <2> HIDE DEF new, got, slot, Slots
  <2> QED BY <2>1, <2>2, <2>3, <2>4, <2>5
<1> HIDE DEF new, got, Slots, slot
<1>4. /\ \A k \in DOMAIN l :
           LET b == SecondOf(l[k]) % RateBuckets
           IN /\ SecondOf(l[k]) <= s /\ SecondOf(l[k]) <= st.buckets[b].second
              /\ st.buckets[b].second % RateBuckets = b
              /\ SecondOf(l[k]) \in Nat /\ b \in Slots
      /\ \A b \in Slots :
           /\ st.buckets[b].second <= s
           /\ st.buckets[b].opportunities = Cardinality(Kept(st, l, b))
           /\ st.buckets[b].received = Cardinality(Kept(st, l, b) \cap Got(l))
  <2>1. ASSUME NEW k \in DOMAIN l
        PROVE  SecondOf(l[k]) \in Nat /\ SecondOf(l[k]) % RateBuckets \in Slots
    <3> DEFINE a == l[k].at
    <3>1. a \in Nat
      <4>1. k \in 1..Len(l)
        BY LenProperties
      <4>2. l[k] \in Entry
        BY <4>1, ElementOfSeq
      <4> QED BY <4>2 DEF Entry
    <3>2. a \div TickInterval \in Nat
      <4> HIDE DEF a
      <4>1. a <= a
        BY <3>1
      <4> QED BY <3>1, <4>1, SecondsOrdered
    <3>3. RateBuckets \in Nat \ {0}
      BY LimitsAssumption
    <3> QED BY <3>2, <3>3, DivMod DEF SecondOf, Slots
  <2> QED BY <2>1 DEF Filed, s, Slots
<1>5. ASSUME NEW k \in DOMAIN m
      PROVE  LET b == SecondOf(m[k]) % RateBuckets
             IN /\ SecondOf(m[k]) <= s
                /\ SecondOf(m[k]) <= new.buckets[b].second
                /\ new.buckets[b].second % RateBuckets = b
  <2>1. CASE k = n
    BY <1>1, <1>2, <1>3, <2>1 DEF slot
  <2>2. CASE k \in DOMAIN l
    <3> DEFINE b == SecondOf(l[k]) % RateBuckets
    <3>1. m[k] = l[k]
      BY <1>2, <2>2
    <3>2. CASE b = slot
      BY <1>1, <1>3, <1>4, <2>2, <3>1, <3>2 DEF slot
    <3>3. CASE b # slot
      BY <1>3, <1>4, <2>2, <3>1, <3>3
    <3> QED BY <3>2, <3>3
  <2> QED BY <1>2, <2>1, <2>2
<1>6. ASSUME NEW b \in Slots
      PROVE  /\ new.buckets[b].second <= s
             /\ new.buckets[b].opportunities = Cardinality(Kept(new, m, b))
             /\ new.buckets[b].received = Cardinality(Kept(new, m, b) \cap Got(m))
  <2> DEFINE K == Kept(st, l, b)
  <2>0. /\ K \subseteq DOMAIN l /\ IsFiniteSet(K) /\ IsFiniteSet(K \cap Got(l))
        /\ n \notin K
    BY <1>2, FS_Subset DEF Kept
  <2>1. CASE b # slot
    <3>1. new.buckets[b] = st.buckets[b]
      BY <1>3, <2>1
    <3>2. Kept(new, m, b) = K
      BY <1>2, <2>1, <3>1 DEF Kept, slot
    <3>3. K \cap Got(m) = K \cap Got(l)
      BY <1>2, <2>0
    <3> QED BY <1>4, <3>1, <3>2, <3>3
  <2>2. CASE b = slot /\ st.buckets[slot].second = s
    <3>1. Kept(new, m, b) = K \cup {n}
      BY <1>2, <1>3, <2>2 DEF Kept, slot
    <3>2. Cardinality(Kept(new, m, b)) = Cardinality(K) + 1
      BY <2>0, <3>1, CellAdded
    <3>3. Cardinality(Kept(new, m, b) \cap Got(m)) = Cardinality(K \cap Got(l)) + Bump(got)
      <4>1. CASE got
        <5>1. Kept(new, m, b) \cap Got(m) = (K \cap Got(l)) \cup {n}
          BY <1>2, <2>0, <3>1, <4>1
        <5>2. n \notin K \cap Got(l)
          BY <2>0
        <5> HIDE DEF K
        <5>3. Cardinality((K \cap Got(l)) \cup {n}) = Cardinality(K \cap Got(l)) + 1
          BY <2>0, <5>2, CellAdded
        <5> QED BY <4>1, <5>1, <5>3 DEF Bump
      <4>2. CASE ~got
        <5>1. Kept(new, m, b) \cap Got(m) = K \cap Got(l)
          BY <1>2, <2>0, <3>1, <4>2
        <5>2. Cardinality(K \cap Got(l)) \in Nat
          BY <2>0, FS_CardinalityType
        <5>3. Bump(got) = 0
          BY <4>2 DEF Bump
        <5> DEFINE c == Cardinality(K \cap Got(l))
        <5>4. Cardinality(Kept(new, m, b) \cap Got(m)) = c /\ c \in Nat
          <6> HIDE DEF K
          <6> QED BY <5>1, <5>2, Zenon
        <5> HIDE DEF c
        <5>5. c + Bump(got) = c
          BY <5>3, <5>4
        <5> QED BY <5>4, <5>5 DEF c
      <4> QED BY <4>1, <4>2
    <3> QED BY <1>1, <1>3, <1>4, <2>2, <3>2, <3>3
  <2>3. CASE b = slot /\ st.buckets[slot].second # s
    <3>1. ASSUME NEW k \in DOMAIN l, SecondOf(l[k]) = s, SecondOf(l[k]) % RateBuckets = b
          PROVE  FALSE
      <4>1. s <= st.buckets[b].second
        BY <1>4, <3>1
      <4>2. st.buckets[b].second <= s /\ st.buckets[b].second \in Nat
        BY <1>3, <1>4
      <4> QED BY <1>1, <2>3, <4>1, <4>2
    <3>2. Kept(new, m, b) = {n}
      BY <1>2, <1>3, <2>3, <3>1 DEF Kept, slot
    <3>3. Cardinality(Kept(new, m, b)) = 1
      BY <3>2, FS_Singleton
    <3>4. Cardinality(Kept(new, m, b) \cap Got(m)) = Bump(got)
      <4>1. CASE got
        <5>1. Kept(new, m, b) \cap Got(m) = {n}
          BY <1>2, <3>2, <4>1
        <5> QED BY <4>1, <5>1, FS_Singleton DEF Bump
      <4>2. CASE ~got
        <5>1. Kept(new, m, b) \cap Got(m) = {}
          BY <1>2, <3>2, <4>2
        <5> QED BY <4>2, <5>1, FS_EmptySet DEF Bump
      <4> QED BY <4>1, <4>2
    <3> QED BY <1>1, <1>3, <2>3, <3>3, <3>4
  <2> QED BY <2>1, <2>2, <2>3
<1> QED BY <1>5, <1>6 DEF Filed, new, m, got, s, Slots

\* There are six outcomes and two channels.
LEMMA LabelsFinite == IsFiniteSet(Outcomes) /\ IsFiniteSet(Channels)
<1>1. IsFiniteSet({"A"}) /\ IsFiniteSet({"A"} \cup {"B"})
  BY FS_Singleton, FS_AddElement
<1>2. Channels = {"A"} \cup {"B"}
  BY DEF Channels
<1>3. IsFiniteSet(Outcomes)
  <2> DEFINE a == {"station_disabled"}
             b == a \cup {"channel_disabled"}
             c == b \cup {"outside_horizon"}
             d == c \cup {"insufficient_margin"}
             e == d \cup {"probabilistic_loss"}
             f == e \cup {"received"}
  <2>1. Outcomes = f
    BY DEF Outcomes
  <2>2. IsFiniteSet(a)
    BY FS_Singleton
  <2> HIDE DEF a
  <2>3. IsFiniteSet(b)
    BY <2>2, FS_AddElement
  <2> HIDE DEF b
  <2>4. IsFiniteSet(c)
    BY <2>3, FS_AddElement
  <2> HIDE DEF c
  <2>5. IsFiniteSet(d)
    BY <2>4, FS_AddElement
  <2> HIDE DEF d
  <2>6. IsFiniteSet(e)
    BY <2>5, FS_AddElement
  <2> HIDE DEF e
  <2>7. IsFiniteSet(f)
    BY <2>6, FS_AddElement
  <2> QED BY <2>1, <2>7
<1> QED BY <1>1, <1>2, <1>3

\* Counting an opportunity adds it to one outcome and to one channel.
LEMMA CountPartitioned ==
  ASSUME NEW st \in Stats, NEW outcome \in Outcomes, NEW channel \in Channels, NEW second,
         Partitioned(st)
  PROVE  Partitioned(Count(st, outcome, channel, second))
<1> DEFINE got == outcome = "received"
           new == Count(st, outcome, channel, second)
           PerChannel == [opportunities : Nat, received : Nat]
           asked == [c \in Channels |-> st.channel[c].opportunities]
           heard == [c \in Channels |-> st.channel[c].received]
<1>1. /\ st.opportunities \in Nat /\ st.outcome \in [Outcomes -> Nat]
      /\ st.channel \in [Channels -> PerChannel]
  BY DEF Stats
<1>2. /\ new.opportunities = st.opportunities + 1
      /\ new.outcome = [st.outcome EXCEPT ![outcome] = @ + 1]
      /\ new.channel = [st.channel EXCEPT
                          ![channel] = [opportunities |-> @.opportunities + 1,
                                        received |-> @.received + Bump(got)]]
  BY DEF Count, Stats
<1>3. new.outcome["received"] = st.outcome["received"] + Bump(got)
  BY CountReceived
<1> HIDE DEF new
<1>4. IsFiniteSet(Outcomes) /\ IsFiniteSet(Channels)
  BY LabelsFinite
<1>5. SumOver(new.outcome) = SumOver(st.outcome) + 1
  <2> DEFINE f == st.outcome
  <2>1. f \in [Outcomes -> Nat] /\ new.outcome = [f EXCEPT ![outcome] = @ + 1]
    BY <1>1, <1>2
  <2> HIDE DEF f
  <2>2. SumOver([f EXCEPT ![outcome] = @ + 1]) = SumOver(f) + 1
    BY <1>4, <2>1, SumFacts
  <2> QED BY <2>1, <2>2 DEF f
<1>6. asked \in [Channels -> Nat] /\ heard \in [Channels -> Nat]
  BY <1>1
<1>7. /\ [c \in Channels |-> new.channel[c].opportunities] = [asked EXCEPT ![channel] = @ + 1]
      /\ [c \in Channels |-> new.channel[c].received] =
           [heard EXCEPT ![channel] = @ + Bump(got)]
  <2>1. ASSUME NEW c \in Channels
        PROVE  /\ new.channel[c].opportunities = [asked EXCEPT ![channel] = @ + 1][c]
               /\ new.channel[c].received = [heard EXCEPT ![channel] = @ + Bump(got)][c]
    <3>1. CASE c = channel
      BY <1>1, <1>2, <3>1
    <3>2. CASE c # channel
      BY <1>1, <1>2, <3>2
    <3> QED BY <3>1, <3>2
  <2> QED BY <2>1
<1> HIDE DEF asked, heard
<1>8. SumOver([asked EXCEPT ![channel] = @ + 1]) = SumOver(asked) + 1
  BY <1>4, <1>6, SumFacts
<1>9. SumOver([heard EXCEPT ![channel] = @ + Bump(got)]) = SumOver(heard) + Bump(got)
  <2>1. CASE got
    BY <1>4, <1>6, <2>1, SumFacts DEF Bump
  <2>2. CASE ~got
    <3>1. [heard EXCEPT ![channel] = @ + Bump(got)] = heard /\ Bump(got) = 0
      BY <1>6, <2>2 DEF Bump
    <3>2. SumOver(heard) \in Nat
      BY <1>4, <1>6, SumIsCells
    <3> QED BY <3>1, <3>2
  <2> QED BY <2>1, <2>2
<1>10. /\ st.opportunities = SumOver(st.outcome) /\ st.opportunities = SumOver(asked)
       /\ st.outcome["received"] = SumOver(heard)
  BY DEF Partitioned, asked, heard
<1>11. /\ new.opportunities = SumOver(new.outcome)
       /\ new.opportunities = SumOver([c \in Channels |-> new.channel[c].opportunities])
  BY <1>2, <1>5, <1>7, <1>8, <1>10
<1>12. new.outcome["received"] = SumOver([c \in Channels |-> new.channel[c].received])
  BY <1>3, <1>7, <1>9, <1>10
<1> QED BY <1>11, <1>12 DEF Partitioned, new

\* It is one more of those logged.
LEMMA CountAccounts ==
  ASSUME NEW st \in Stats, NEW l \in Seq(Entry), NEW outcome \in Outcomes,
         NEW channel \in Channels, NEW at \in Nat, NEW second, Accounts(st, l)
  PROVE  Accounts(Count(st, outcome, channel, second),
                  Append(l, [at |-> at, got |-> outcome = "received"]))
<1> DEFINE got == outcome = "received"
           new == Count(st, outcome, channel, second)
           m == Append(l, [at |-> at, got |-> got])
           n == Len(l) + 1
<1>1. /\ Len(m) = n /\ n \notin DOMAIN l /\ IsFiniteSet(DOMAIN l)
      /\ Got(m) = IF got THEN Got(l) \cup {n} ELSE Got(l)
      /\ Got(l) \subseteq DOMAIN l
  <2> HIDE DEF m, n, got
  <2>1. got \in BOOLEAN
    BY DEF got
  <2> QED BY <2>1, EntryAppended DEF m, n
<1>2. new.opportunities = st.opportunities + 1
  BY DEF Count, Stats
<1>3. new.outcome["received"] = st.outcome["received"] + Bump(got)
  BY CountReceived
<1>4. Partitioned(new)
  BY CountPartitioned DEF Accounts
<1> HIDE DEF new, m, n
<1>5. Cardinality(Got(m)) = Cardinality(Got(l)) + Bump(got)
  <2>1. IsFiniteSet(Got(l)) /\ n \notin Got(l)
    BY <1>1, FS_Subset
  <2>2. CASE got
    <3>1. Got(m) = Got(l) \cup {n}
      BY <1>1, <2>2
    <3> QED BY <2>1, <2>2, <3>1, CellAdded DEF Bump
  <2>3. CASE ~got
    <3>1. Got(m) = Got(l)
      BY <1>1, <2>3
    <3>2. Cardinality(Got(l)) \in Nat
      BY <2>1, FS_CardinalityType
    <3> QED BY <2>3, <3>1, <3>2 DEF Bump
  <2> QED BY <2>2, <2>3
<1>6. st.opportunities = Len(l) /\ st.outcome["received"] = Cardinality(Got(l))
  BY DEF Accounts
<1>7. new.opportunities = Len(m)
  BY <1>1, <1>2, <1>6 DEF n
<1>8. new.outcome["received"] = Cardinality(Got(m))
  BY <1>3, <1>5, <1>6
<1> QED BY <1>4, <1>7, <1>8 DEF Accounts, new, m, got

\* The buckets of the last RateBuckets seconds count what was logged in them.
LEMMA WindowCounted ==
  ASSUME NEW st \in Stats, NEW l \in Seq(Entry), NEW now \in Nat, Filed(st, l, now)
  PROVE  LET W == {b \in 0..(RateBuckets - 1) :
                     st.buckets[b].second > now - RateBuckets /\ st.buckets[b].second <= now}
             recent == {k \in DOMAIN l : SecondOf(l[k]) > now - RateBuckets}
         IN /\ SumOver([b \in W |-> st.buckets[b].opportunities]) = Cardinality(recent)
            /\ SumOver([b \in W |-> st.buckets[b].received]) = Cardinality(recent \cap Got(l))
<1> DEFINE Slots == 0..(RateBuckets - 1)
           W == {b \in Slots :
                   st.buckets[b].second > now - RateBuckets /\ st.buckets[b].second <= now}
           recent == {k \in DOMAIN l : SecondOf(l[k]) > now - RateBuckets}
           asked == [b \in W |-> st.buckets[b].opportunities]
           heard == [b \in W |-> st.buckets[b].received]
           K == [b \in W |-> Kept(st, l, b)]
           H == [b \in W |-> Kept(st, l, b) \cap Got(l)]
<1>1. RateBuckets \in Nat \ {0}
  BY LimitsAssumption
<1>2. \A b \in Slots : /\ st.buckets[b].second \in Nat /\ st.buckets[b].opportunities \in Nat
                       /\ st.buckets[b].received \in Nat
  BY DEF Stats
<1>3. ASSUME NEW k \in DOMAIN l
      PROVE  SecondOf(l[k]) \in Nat /\ SecondOf(l[k]) % RateBuckets \in Slots
  <2> DEFINE a == l[k].at
  <2>1. a \in Nat
    <3>1. k \in 1..Len(l)
      BY LenProperties
    <3>2. l[k] \in Entry
      BY <3>1, ElementOfSeq
    <3> QED BY <3>2 DEF Entry
  <2>2. a \div TickInterval \in Nat
    <3> HIDE DEF a
    <3>1. a <= a
      BY <2>1
    <3> QED BY <2>1, <3>1, SecondsOrdered
  <2> QED BY <1>1, <2>2, DivMod DEF SecondOf
<1>4. IsFiniteSet(W) /\ IsFiniteSet(DOMAIN l)
  <2>1. IsFiniteSet(Slots)
    BY <1>1, FS_Interval
  <2>2. DOMAIN l = 1..Len(l) /\ Len(l) \in Nat
    BY LenProperties
  <2>3. W \subseteq Slots
    OBVIOUS
  <2> HIDE DEF W, Slots
  <2> QED BY <2>1, <2>2, <2>3, FS_Subset, FS_Interval
<1>5. asked \in [W -> Nat] /\ heard \in [W -> Nat]
  BY <1>2
<1>6. /\ \A b \in W : /\ b \in Slots /\ K[b] = Kept(st, l, b) /\ H[b] = Kept(st, l, b) \cap Got(l)
                      /\ asked[b] = st.buckets[b].opportunities
                      /\ heard[b] = st.buckets[b].received
                      /\ st.buckets[b].second > now - RateBuckets
      /\ \A b \in Slots : b \in W <=> st.buckets[b].second > now - RateBuckets
                                      /\ st.buckets[b].second <= now
  OBVIOUS
<1>7. recent \subseteq DOMAIN l /\ \A k \in DOMAIN l : k \in recent <=> SecondOf(l[k]) > now - RateBuckets
  OBVIOUS
<1> HIDE DEF W, recent, asked, heard, K, H, Slots
<1>8. ASSUME NEW b \in W
      PROVE  /\ IsFiniteSet(K[b]) /\ Cardinality(K[b]) = asked[b]
             /\ IsFiniteSet(H[b]) /\ Cardinality(H[b]) = heard[b]
             /\ K[b] \subseteq recent
  <2>1. K[b] \subseteq DOMAIN l /\ H[b] \subseteq DOMAIN l
    BY <1>6 DEF Kept
  <2>2. Cardinality(Kept(st, l, b)) = asked[b] /\ Cardinality(Kept(st, l, b) \cap Got(l)) = heard[b]
    BY <1>6 DEF Filed, Slots
  <2>3. \A k \in Kept(st, l, b) : k \in recent
    BY <1>6, <1>7 DEF Kept
  <2>4. Cardinality(K[b]) = asked[b]
    BY <1>6, <2>2, Zenon
  <2>5. Cardinality(H[b]) = heard[b]
    BY <1>6, <2>2, Zenon
  <2> QED BY <1>4, <1>6, <2>1, <2>3, <2>4, <2>5, FS_Subset
<1>9. /\ \A b, c \in W : \A k \in K[b] : k \in K[c] => b = c
      /\ \A b, c \in W : \A k \in H[b] : k \in H[c] => b = c
  BY <1>6 DEF Kept
<1>10. ASSUME NEW k \in recent
       PROVE  \E b \in W : k \in K[b]
  <2> DEFINE s == SecondOf(l[k])
             b == s % RateBuckets
  <2>1. k \in DOMAIN l /\ s > now - RateBuckets /\ s \in Nat /\ b \in Slots
    BY <1>3, <1>7
  <2>2. /\ s <= now /\ s <= st.buckets[b].second /\ st.buckets[b].second % RateBuckets = b
        /\ st.buckets[b].second <= now
    BY <2>1 DEF Filed, Slots
  <2>3. st.buckets[b].second \in Nat
    BY <1>2, <2>1
  <2>4. s = st.buckets[b].second
    <3> DEFINE u == st.buckets[b].second
    <3>1. /\ s \in Nat /\ u \in Nat /\ s <= u /\ u - s < RateBuckets
          /\ s % RateBuckets = u % RateBuckets
      BY <1>1, <2>1, <2>2, <2>3
    <3> HIDE DEF u, s
    <3> QED BY <1>1, <3>1, SameSecond DEF u
  <2>5. b \in W
    BY <1>6, <2>1, <2>2, <2>4
  <2>6. k \in Kept(st, l, b)
    BY <2>1, <2>4 DEF Kept
  <2> QED BY <1>6, <2>5, <2>6
<1>11. \A k : k \in recent <=> \E b \in W : k \in K[b]
  BY <1>8, <1>10
<1>12. \A k : k \in recent \cap Got(l) <=> \E b \in W : k \in H[b]
  BY <1>6, <1>11
<1>13. SumOver(asked) = Cardinality(recent)
  <2>1. \A b \in W : IsFiniteSet(K[b]) /\ Cardinality(K[b]) = asked[b]
    BY <1>8
  <2>2. \A b, c \in W : \A k \in K[b] : k \in K[c] => b = c
    BY <1>9
  <2>3. IsFiniteSet(W) /\ asked \in [W -> Nat]
    BY <1>4, <1>5
  <2> QED BY <1>11, <2>1, <2>2, <2>3, SumIsUnion, SMT
<1>14. SumOver(heard) = Cardinality(recent \cap Got(l))
  <2>1. \A b \in W : IsFiniteSet(H[b]) /\ Cardinality(H[b]) = heard[b]
    BY <1>8
  <2>2. \A b, c \in W : \A k \in H[b] : k \in H[c] => b = c
    BY <1>9
  <2>3. IsFiniteSet(W) /\ heard \in [W -> Nat]
    BY <1>4, <1>5
  <2> QED BY <1>12, <2>1, <2>2, <2>3, SumIsUnion, SMT
<1> QED BY <1>13, <1>14 DEF asked, heard, recent, W, Slots

\* What is filed stays filed as time goes by.
LEMMA FiledLater ==
  ASSUME NEW st, NEW l \in Seq(Entry), NEW now \in Nat, NEW later \in Nat, now <= later,
         st \in Stats, Filed(st, l, now)
  PROVE  Filed(st, l, later)
<1>1. ASSUME NEW k \in DOMAIN l PROVE SecondOf(l[k]) <= later
  <2> DEFINE a == l[k].at
  <2>1. a \in Nat
    <3>1. k \in 1..Len(l)
      BY LenProperties
    <3>2. l[k] \in Entry
      BY <3>1, ElementOfSeq
    <3> QED BY <3>2 DEF Entry
  <2>2. a \div TickInterval \in Nat
    <3> HIDE DEF a
    <3>1. a <= a
      BY <2>1
    <3> QED BY <2>1, <3>1, SecondsOrdered
  <2>3. SecondOf(l[k]) <= now
    BY DEF Filed
  <2> QED BY <2>2, <2>3 DEF SecondOf
<1>2. ASSUME NEW b \in 0..(RateBuckets - 1) PROVE st.buckets[b].second <= later
  <2>1. st.buckets[b].second \in Nat
    BY DEF Stats
  <2>2. st.buckets[b].second <= now
    BY DEF Filed
  <2> QED BY <2>1, <2>2
<1> QED BY <1>1, <1>2 DEF Filed

\* A new station has counted and logged nothing.
LEMMA NothingFiled ==
  ASSUME NEW now \in Nat
  PROVE  Accounts(NewStats, <<>>) /\ Filed(NewStats, <<>>, now)
<1>1. /\ NewStats.opportunities = 0 /\ NewStats.outcome = [o \in Outcomes |-> 0]
      /\ NewStats.outcome["received"] = 0
      /\ [c \in Channels |-> NewStats.channel[c].opportunities] = [c \in Channels |-> 0]
      /\ [c \in Channels |-> NewStats.channel[c].received] = [c \in Channels |-> 0]
      /\ \A b \in 0..(RateBuckets - 1) :
           NewStats.buckets[b] = [second |-> 0, opportunities |-> 0, received |-> 0]
  BY DEF NewStats, Outcomes
<1>2. /\ SumOver([o \in Outcomes |-> 0]) = 0
      /\ SumOver([c \in Channels |-> 0]) = 0
  <2>1. ASSUME NEW S, IsFiniteSet(S) PROVE SumOver([x \in S |-> 0]) = 0
    <3> DEFINE f == [x \in S |-> 0]
    <3>1. f \in [S -> Nat] /\ \A x \in S : f[x] = 0
      OBVIOUS
    <3> HIDE DEF f
    <3>2. SumOver(f) = 0
      BY <2>1, <3>1, SumFacts
    <3> QED BY <3>2 DEF f
  <2> QED BY <2>1, LabelsFinite
<1>3. /\ Len(<<>>) = 0 /\ Got(<<>>) = {} /\ DOMAIN <<>> = {}
      /\ \A b : Kept(NewStats, <<>>, b) = {}
  BY DEF Got, Kept
<1>4. Cardinality({}) = 0
  BY FS_EmptySet
<1>5. Accounts(NewStats, <<>>)
  BY <1>1, <1>2, <1>3, <1>4 DEF Accounts, Partitioned
<1>6. \A b \in 0..(RateBuckets - 1) : Kept(NewStats, <<>>, b) \cap Got(<<>>) = {}
  BY <1>3
<1>7. Filed(NewStats, <<>>, now)
  <2>1. ASSUME NEW b \in 0..(RateBuckets - 1)
        PROVE  /\ NewStats.buckets[b].second <= now
               /\ NewStats.buckets[b].opportunities = Cardinality(Kept(NewStats, <<>>, b))
               /\ NewStats.buckets[b].received
                    = Cardinality(Kept(NewStats, <<>>, b) \cap Got(<<>>))
    <3>1. Cardinality(Kept(NewStats, <<>>, b)) = 0
      BY <1>3, <1>4, Zenon
    <3>2. Cardinality(Kept(NewStats, <<>>, b) \cap Got(<<>>)) = 0
      BY <1>4, <1>6, Zenon
    <3>3. /\ NewStats.buckets[b].second <= now /\ NewStats.buckets[b].opportunities = 0
          /\ NewStats.buckets[b].received = 0
      BY <1>1
    <3> QED BY <3>1, <3>2, <3>3, Zenon
  <2>2. \A k \in DOMAIN <<>> : FALSE
    OBVIOUS
  <2> QED BY <2>1, <2>2, Zenon DEF Filed
<1> QED BY <1>5, <1>7

-----------------------------------------------------------------------------
(***************************************************************************)
(* The log beside the engine                                               *)
(***************************************************************************)
\* What station i will have logged when the call commits.
StagedLog(i) == log[state.stations[i].id] \o pending[i]

\* The committed counters and those that a call stages agree with the log, at the
\* committed instant, at that of the report in progress and at that of the commit.
LogInv ==
  /\ DOMAIN log = StationIDs
  /\ \A id \in StationIDs :
       /\ log[id] \in Seq(Entry)
       /\ Accounts(stats[id], log[id])
       /\ Filed(stats[id], log[id], state.elapsed \div TickInterval)
  /\ pending \in [DOMAIN state.stations -> Seq(Entry)]
  /\ ~Working => \A i \in DOMAIN state.stations : pending[i] = <<>>
  /\ Working => \A i \in DOMAIN state.stations :
       /\ Accounts(batch.stats[i], StagedLog(i))
       /\ Filed(batch.stats[i], StagedLog(i), Now \div TickInterval)
       /\ Filed(batch.stats[i], StagedLog(i), loop.target \div TickInterval)

\* The receptions of the configured stations, as committed and as staged.
Total == SumOver([id \in StationIDs |-> stats[id].lastReception])
StagedTotal == SumOver([id \in StationIDs |-> batch.stats[StationIndex(id)].lastReception])

\* The run totals cover them; commit publishes the counters before Finish the totals.
TotalsInv ==
  /\ pc # "apply" =>
       /\ Total <= totals.receptions
       /\ totals.receivedTransmissions <= totals.receptions
       /\ totals.receivedTransmissions <= state.sequence
  /\ pc = "apply" =>
       /\ Total <= batch.receptions
       /\ batch.receivedTransmissions <= batch.receptions
       /\ batch.receivedTransmissions <= state.sequence
  /\ Working =>
       /\ StagedTotal <= batch.receptions
       /\ batch.receivedTransmissions + Bump(pc = "receive" /\ loop.heard) <= batch.receptions
       /\ batch.receivedTransmissions + Bump(pc = "receive") <= next.sequence

\* What RateFollow does in each of its cases.
LEMMA RateFollowed ==
  ASSUME RateFollow
  PROVE  /\ pc = "receive" /\ pc' = "receive" =>
              /\ pending' = [pending EXCEPT ![loop.station] =
                               Append(@, [at |-> Last(reports).timestamp,
                                          got |-> batch'.receptions > batch.receptions])]
              /\ log' = log
         /\ pc' = "apply" /\ pc # "apply" =>
              /\ log' = [id \in DOMAIN log |-> log[id] \o pending[StationIndex(id)]]
              /\ pending' = [i \in DOMAIN pending |-> <<>>]
         /\ pc' = "idle" =>
              /\ log' = Relog
              /\ pending' = [i \in DOMAIN state'.stations |-> <<>>]
         /\ pc' # "idle" /\ ~(pc = "receive" /\ pc' = "receive") /\ ~(pc' = "apply" /\ pc # "apply")
              => log' = log /\ pending' = pending
BY DEF RateFollow

\* An empty tail adds nothing.
LEMMA NothingAdded ==
  ASSUME NEW l \in Seq(Entry) PROVE l \o <<>> = l
OBVIOUS

\* One more pending entry is one more staged entry.
LEMMA EntryStaged ==
  ASSUME NEW l \in Seq(Entry), NEW p \in Seq(Entry), NEW e \in Entry
  PROVE  l \o Append(p, e) = Append(l \o p, e) /\ l \o p \in Seq(Entry)
<1> DEFINE a == l \o Append(p, e)
           b == Append(l \o p, e)
<1>1. l \o p \in Seq(Entry) /\ Append(p, e) \in Seq(Entry)
  BY ConcatProperties, AppendProperties
<1>2. a \in Seq(Entry) /\ b \in Seq(Entry)
  BY <1>1, ConcatProperties, AppendProperties
<1>3. Len(a) = Len(l) + Len(p) + 1 /\ Len(b) = Len(l) + Len(p) + 1
  OBVIOUS
<1>4. \A k \in 1..(Len(l) + Len(p) + 1) : a[k] = b[k]
  OBVIOUS
<1> HIDE DEF a, b
<1>5. a = b
  BY <1>2, <1>3, <1>4, SeqEqual
<1> QED BY <1>1, <1>5 DEF a, b

\* A step to outside any call keeps the log of every station that stays.
LEMMA LogIdle ==
  ASSUME TypeInv, TypeInv', LogInv, RateFollow, pc' = "idle", state'.elapsed = state.elapsed,
         \A id \in StationIDs' : \/ id \in StationIDs /\ stats'[id] = stats[id]
                                 \/ id \notin StationIDs /\ stats'[id] = NewStats
  PROVE  LogInv'
<1>1. /\ DOMAIN stats' = StationIDs' /\ DOMAIN log = StationIDs
      /\ log' = [id \in DOMAIN stats' |-> IF id \in DOMAIN log THEN log[id] ELSE <<>>]
      /\ pending' = [i \in DOMAIN state'.stations |-> <<>>]
  BY RateFollowed DEF Relog, TypeInv, TypeOK, StatsTypeOK, LogInv
<1>2. state.elapsed \div TickInterval \in Nat
  <2>1. state.elapsed \in Nat /\ state.elapsed <= state.elapsed
    BY StateFields
  <2> QED BY <2>1, SecondsOrdered
<1>3. ASSUME NEW id \in StationIDs'
      PROVE  /\ log'[id] \in Seq(Entry) /\ Accounts(stats'[id], log'[id])
             /\ Filed(stats'[id], log'[id], state'.elapsed \div TickInterval)
  <2>1. CASE id \in StationIDs
    <3>1. log'[id] = log[id] /\ stats'[id] = stats[id]
      BY <1>1, <2>1
    <3> QED BY <2>1, <3>1 DEF LogInv
  <2>2. CASE id \notin StationIDs
    <3>1. log'[id] = <<>> /\ stats'[id] = NewStats
      BY <1>1, <2>2
    <3> QED BY <1>2, <3>1, NothingFiled
  <2> QED BY <2>1, <2>2
<1>4. ~Working' /\ \A i \in DOMAIN state'.stations : pending'[i] = <<>>
  BY <1>1 DEF Working
<1>5. pending' \in [DOMAIN state'.stations -> Seq(Entry)]
  BY <1>1
<1> QED BY <1>1, <1>3, <1>4, <1>5 DEF LogInv

\* A call begins with what is committed, no later than its reports and its commit.
LEMMA LogBegin ==
  ASSUME TypeInv, LogInv, RateFollow, pc = "idle", pc' \in {"spawn", "tick"},
         UNCHANGED <<state, stats>>, batch' = StageReceptions(state.stations),
         Now' \in Nat, loop'.target \in Nat, state.elapsed <= Now', state.elapsed <= loop'.target
  PROVE  LogInv'
<1>1. /\ UNCHANGED <<log, pending>> /\ StationIDs' = StationIDs /\ ~Working /\ Working'
      /\ \A i \in DOMAIN state.stations : batch'.stats[i] = stats[state.stations[i].id]
  BY RateFollowed DEF StationIDs, Working, StageReceptions
<1>2. ASSUME NEW i \in DOMAIN state.stations
      PROVE  /\ Accounts(batch'.stats[i], StagedLog(i)')
             /\ Filed(batch'.stats[i], StagedLog(i)', Now' \div TickInterval)
             /\ Filed(batch'.stats[i], StagedLog(i)', loop'.target \div TickInterval)
  <2> DEFINE id == state.stations[i].id
             l == log[id]
             st == stats[id]
  <2>1. id \in StationIDs /\ batch'.stats[i] = st
    BY <1>1, StationFacts
  <2>2. /\ l \in Seq(Entry) /\ Accounts(st, l)
        /\ Filed(st, l, state.elapsed \div TickInterval)
    BY <2>1 DEF LogInv
  <2>3. StagedLog(i)' = l \o <<>>
    BY <1>1 DEF LogInv, StagedLog
  <2>4. st \in Stats /\ state.elapsed \in Nat
    BY <2>1, StateFields DEF TypeInv, TypeOK, StatsTypeOK
  <2> HIDE DEF l, st, id
  <2>5. l \o <<>> = l
    BY <2>2, NothingAdded
  <2>6. Filed(st, l, Now' \div TickInterval) /\ Filed(st, l, loop'.target \div TickInterval)
    <3> DEFINE now == state.elapsed \div TickInterval
               a == Now' \div TickInterval
               b == loop'.target \div TickInterval
    <3>1. now \in Nat /\ a \in Nat /\ now <= a /\ b \in Nat /\ now <= b
      BY <2>4, SecondsOrdered
    <3>2. Filed(st, l, now)
      BY <2>2
    <3> HIDE DEF now, a, b
    <3>3. Filed(st, l, a) /\ Filed(st, l, b)
      BY <2>2, <2>4, <3>1, <3>2, FiledLater
    <3> QED BY <3>3 DEF a, b
  <2> QED BY <2>1, <2>2, <2>3, <2>5, <2>6
<1> QED BY <1>1, <1>2 DEF LogInv

\* A step within the loops that counts no opportunity; the reports only get later.
LEMMA LogWorking ==
  ASSUME TypeInv, LogInv, Working, Working', UNCHANGED <<state, stats, log, pending>>,
         batch'.stats = batch.stats, loop'.target = loop.target,
         Now \in Nat, Now' \in Nat, Now <= Now'
  PROVE  LogInv'
<1>1. StationIDs' = StationIDs
  BY DEF StationIDs
<1>2. ASSUME NEW i \in DOMAIN state.stations
      PROVE  /\ Accounts(batch'.stats[i], StagedLog(i)')
             /\ Filed(batch'.stats[i], StagedLog(i)', Now' \div TickInterval)
             /\ Filed(batch'.stats[i], StagedLog(i)', loop'.target \div TickInterval)
  <2> DEFINE l == StagedLog(i)
             st == batch.stats[i]
             a == Now \div TickInterval
             b == Now' \div TickInterval
  <2>1. Accounts(st, l) /\ Filed(st, l, a) /\ Filed(st, l, loop.target \div TickInterval)
    BY DEF LogInv
  <2>2. StagedLog(i)' = l /\ batch'.stats[i] = st
    BY DEF StagedLog
  <2>3. st \in Stats
    BY RingFacts
  <2>4. l \in Seq(Entry)
    BY StationFacts, ConcatProperties DEF LogInv, StagedLog
  <2>5. a \in Nat /\ b \in Nat /\ a <= b
    BY SecondsOrdered
  <2> HIDE DEF l, st, a, b
  <2>6. Filed(st, l, b)
    BY <2>1, <2>3, <2>4, <2>5, FiledLater
  <2> QED BY <2>1, <2>2, <2>6 DEF b
<1> QED BY <1>1, <1>2 DEF LogInv

\* An opportunity is counted and logged at once.
LEMMA LogReceive ==
  ASSUME TypeInv, TypeInv', HistoryInv, ClockInv, CoherentInv, RingInv, LogInv, RateFollow,
         NEW outcome \in Outcomes, Receive(outcome)
  PROVE  LogInv'
<1>1. /\ pc = "receive" /\ pc' = pc /\ UNCHANGED <<state, stats, next, reports>>
      /\ Working /\ Working' /\ loop.station <= Len(next.stations)
  BY DEF Receive, Working
<1>2. /\ next.stations = state.stations
      /\ \E i \in DOMAIN state.stations : i = loop.station /\ i \in Nat
  <2>1. loop \in LoopRecord /\ next.stations = state.stations /\ loop.station >= 1
    BY <1>1 DEF TypeInv, TypeOK, ControlTypeOK, StagedShape, SameStations
  <2>2. loop.station \in Nat
    BY <2>1 DEF LoopRecord
  <2> QED BY <1>1, <2>1, <2>2, StationFacts
<1>a. PICK i \in DOMAIN state.stations : i = loop.station /\ i \in Nat
  BY <1>2
<1> DEFINE t == Last(reports)
           old == batch.stats[i]
           second == Now \div TickInterval
           counted == Count(old, outcome, t.channel, second)
           got == outcome = "received"
           e == [at |-> Now, got |-> got]
<1>3. /\ t \in Message /\ t.timestamp = Now /\ Now \in Nat /\ loop.target \in Nat
      /\ Now <= loop.target
  BY <1>1, ReportFacts
<1>4. /\ batch \in BatchRecord /\ batch.stats \in Seq(Stats)
      /\ DOMAIN batch.stats = DOMAIN state.stations /\ batch.receptions \in Nat
  <2>1. /\ batch \in BatchRecord /\ batch.stats \in Seq(Stats) /\ batch.receptions \in Nat
        /\ Len(batch.stats) = Len(state.stations)
    BY <1>1 DEF TypeInv, TypeOK, BatchTypeOK, StagedShape, BatchRecord
  <2> QED BY <2>1, StationFacts, LenProperties
<1>5. /\ batch'.stats = [batch.stats EXCEPT ![i] = counted]
      /\ batch'.receptions = batch.receptions + Bump(got)
  BY <1>2, <1>3, <1>4, <1>a DEF Receive, BatchRecord
<1>6. Now' = Now /\ loop'.target = loop.target /\ StationIDs' = StationIDs
  <2>1. loop'.kind = loop.kind /\ loop'.tick = loop.tick /\ loop'.target = loop.target
    BY DEF Receive, TypeInv, TypeOK, ControlTypeOK, LoopRecord
  <2> QED BY <1>1, <2>1 DEF Now, StationIDs
<1>7. [at |-> t.timestamp, got |-> batch'.receptions > batch.receptions] = e
  <2>1. (batch'.receptions > batch.receptions) = got
    <3>1. CASE got
      BY <1>4, <1>5, <3>1 DEF Bump
    <3>2. CASE ~got
      BY <1>4, <1>5, <3>2 DEF Bump
    <3> QED BY <3>1, <3>2
  <2> HIDE DEF t, got
  <2> QED BY <1>3, <2>1
<1>8. /\ pending' = [pending EXCEPT ![i] = Append(@, e)] /\ log' = log
      /\ pending \in [DOMAIN state.stations -> Seq(Entry)]
  <2>1. pending' = [pending EXCEPT ![i] =
                      Append(@, [at |-> t.timestamp,
                                 got |-> batch'.receptions > batch.receptions])]
    BY <1>1, <1>a, RateFollowed
  <2> HIDE DEF t, e
  <2> QED BY <1>1, <1>7, <2>1, RateFollowed DEF LogInv
<1>9. e \in Entry
  <2>1. got \in BOOLEAN
    OBVIOUS
  <2> HIDE DEF got
  <2> QED BY <1>3, <2>1 DEF Entry
<1> HIDE DEF e, t, counted
<1>10. pending' \in [DOMAIN state.stations -> Seq(Entry)]
  <2>1. Append(pending[i], e) \in Seq(Entry)
    BY <1>8, <1>9, AppendProperties
  <2> QED BY <1>8, <2>1
<1>11. ASSUME NEW j \in DOMAIN state.stations
       PROVE  /\ Accounts(batch'.stats[j], StagedLog(j)')
              /\ Filed(batch'.stats[j], StagedLog(j)', second)
              /\ Filed(batch'.stats[j], StagedLog(j)', loop.target \div TickInterval)
  <2>1. /\ Accounts(batch.stats[j], StagedLog(j)) /\ Filed(batch.stats[j], StagedLog(j), second)
        /\ Filed(batch.stats[j], StagedLog(j), loop.target \div TickInterval)
    BY <1>1 DEF LogInv
  <2>2. CASE j # i
    <3>1. batch'.stats[j] = batch.stats[j]
      BY <1>4, <1>5, <2>2
    <3>2. pending'[j] = pending[j]
      BY SMTT(30), <1>8, <2>2
    <3>3. StagedLog(j)' = StagedLog(j)
      BY <1>1, <1>8, <3>2 DEF StagedLog
    <3> QED BY <2>1, <3>1, <3>3
  <2>3. CASE j = i
    <3> DEFINE l == StagedLog(i)
               m == Append(l, e)
               last == loop.target \div TickInterval
    <3>1. batch'.stats[j] = counted
      BY <1>4, <1>5, <2>3
    <3>2. StagedLog(j)' = m /\ l \in Seq(Entry)
      <4> DEFINE a == log[state.stations[i].id]
                 p == pending[i]
      <4>1. a \in Seq(Entry) /\ p \in Seq(Entry)
        BY <1>8, StationFacts DEF LogInv
      <4>2. pending'[i] = Append(p, e)
        BY <1>8
      <4>3. StagedLog(j)' = a \o Append(p, e) /\ l = a \o p
        BY <1>1, <1>8, <2>3, <4>2 DEF StagedLog
      <4> HIDE DEF a, p, l
      <4> QED BY <1>9, <4>1, <4>3, EntryStaged
    <3>3. old \in Stats /\ t.channel \in Channels
      BY <1>1, <1>3, RingFacts DEF Message
    <3>4. Accounts(old, l) /\ Filed(old, l, second)
      BY <2>1, <2>3
    <3> HIDE DEF l, old
    <3>5. Accounts(counted, m)
      BY <1>3, <3>2, <3>3, <3>4, CountAccounts DEF counted, e
    <3>6. Filed(counted, m, second)
      BY <1>3, <3>2, <3>3, <3>4, CountFiled DEF counted, e
    <3>7. second \in Nat /\ last \in Nat /\ second <= last
      BY <1>3, SecondsOrdered
    <3>8. counted \in Stats /\ m \in Seq(Entry)
      BY <1>9, <3>2, <3>3, <3>7, CountType, AppendProperties DEF counted
    <3>9. Filed(counted, m, last)
      <4> HIDE DEF second, last, m
      <4> QED BY <3>6, <3>7, <3>8, FiledLater
    <3> QED BY <3>1, <3>2, <3>5, <3>6, <3>9
  <2> QED BY <2>2, <2>3
<1> QED BY <1>1, <1>6, <1>8, <1>10, <1>11 DEF LogInv

\* commit publishes the counters and the log of the call.
LEMMA LogCommit ==
  ASSUME TypeInv, TypeInv', LogInv, RateFollow, Commit
  PROVE  LogInv'
<1>1. /\ Working /\ ~Working' /\ pc' = "apply" /\ pc # "apply"
      /\ stats' = [id \in StationIDs |-> batch.stats[StationIndex(id)]]
  BY DEF Commit, Working
<1>2. state'.stations = state.stations /\ state'.elapsed = loop.target
  BY <1>1 DEF Commit, StateRecord, TypeInv, TypeOK, StateTypeOK, StagedShape, SameStations
<1>3. StationIDs' = StationIDs
  BY <1>2 DEF StationIDs
<1>4. /\ log' = [id \in StationIDs |-> log[id] \o pending[StationIndex(id)]]
      /\ pending' = [i \in DOMAIN state.stations |-> <<>>]
  BY <1>1, RateFollowed DEF LogInv
<1>5. ASSUME NEW id \in StationIDs
      PROVE  /\ log'[id] \in Seq(Entry) /\ Accounts(stats'[id], log'[id])
             /\ Filed(stats'[id], log'[id], state'.elapsed \div TickInterval)
  <2> DEFINE i == StationIndex(id)
  <2>1. i \in DOMAIN state.stations /\ state.stations[i].id = id
    BY StationIndexType
  <2>2. log'[id] = StagedLog(i) /\ stats'[id] = batch.stats[i]
    BY <1>1, <1>4, <2>1 DEF StagedLog
  <2> HIDE DEF i
  <2>3. /\ Accounts(batch.stats[i], StagedLog(i))
        /\ Filed(batch.stats[i], StagedLog(i), loop.target \div TickInterval)
    BY <1>1, <2>1 DEF LogInv
  <2>4. StagedLog(i) \in Seq(Entry)
    BY <2>1, ConcatProperties DEF LogInv, StagedLog
  <2> QED BY <1>2, <2>2, <2>3, <2>4
<1> QED BY <1>1, <1>2, <1>3, <1>4, <1>5 DEF LogInv

-----------------------------------------------------------------------------
(***************************************************************************)
(* The run totals                                                          *)
(***************************************************************************)
\* The stations of a sequence have finitely many IDs.
LEMMA IDsFinite ==
  ASSUME NEW ss \in Seq(Station)
  PROVE  IsFiniteSet({ss[i].id : i \in DOMAIN ss})
<1> DEFINE D == DOMAIN ss
           T == {ss[i].id : i \in D}
           ids == [i \in D |-> ss[i].id]
<1>1. IsFiniteSet(D)
  <2>1. D = 1..Len(ss) /\ Len(ss) \in Nat
    BY LenProperties
  <2> QED BY <2>1, FS_Interval
<1>2. ids \in Surjection(D, T)
  BY DEF Surjection
<1> HIDE DEF ids, D, T
<1>3. IsFiniteSet(T)
  BY <1>1, <1>2, FS_Surjection
<1> QED BY <1>3 DEF T, D

\* Each configured station has heard a number.
LEMMA HeardFacts ==
  ASSUME TypeInv
  PROVE  /\ IsFiniteSet(StationIDs)
         /\ [id \in StationIDs |-> stats[id].lastReception] \in [StationIDs -> Nat]
         /\ Working => [id \in StationIDs |-> batch.stats[StationIndex(id)].lastReception]
                         \in [StationIDs -> Nat]
<1>1. IsFiniteSet(StationIDs)
  BY StateFields, IDsFinite DEF StationIDs
<1>2. ASSUME NEW id \in StationIDs PROVE stats[id].lastReception \in Nat
  BY RingFacts
<1>3. ASSUME Working, NEW id \in StationIDs
      PROVE  batch.stats[StationIndex(id)].lastReception \in Nat
  <2>1. batch.stats[StationIndex(id)] \in Stats
    BY <1>3, RingFacts, StationIndexType
  <2> QED BY <2>1 DEF Stats
<1> QED BY <1>1, <1>2, <1>3

\* Station edits take no reception away from those that stay, and give none to a new one.
LEMMA TotalKept ==
  ASSUME TypeInv, TypeInv',
         \A id \in StationIDs' : \/ id \in StationIDs /\ stats'[id] = stats[id]
                                 \/ id \notin StationIDs /\ stats'[id] = NewStats
  PROVE  Total' <= Total /\ Total \in Nat /\ Total' \in Nat
<1> DEFINE f == [id \in StationIDs |-> stats[id].lastReception]
           g == [id \in StationIDs' |-> stats'[id].lastReception]
           S == StationIDs
           T == StationIDs'
           C == S \cap T
<1>a. IsFiniteSet(S) /\ f \in [S -> Nat]
  BY HeardFacts
<1>b. IsFiniteSet(T)
  <2>1. state'.stations \in Seq(Station)
    BY DEF TypeInv, TypeOK, StateTypeOK, StateRecord
  <2> QED BY <2>1, IDsFinite DEF StationIDs
<1>c. g \in [T -> Nat]
  <2>1. ASSUME NEW id \in T PROVE stats'[id].lastReception \in Nat
    <3>1. stats'[id] \in Stats
      BY DEF TypeInv, TypeOK, StatsTypeOK
    <3> QED BY <3>1 DEF Stats
  <2> QED BY <2>1
<1>1. IsFiniteSet(S) /\ f \in [S -> Nat] /\ IsFiniteSet(T) /\ g \in [T -> Nat]
  BY <1>a, <1>b, <1>c
<1>2. \A id \in C : g[id] = f[id]
  OBVIOUS
<1>3. \A id \in T \ C : g[id] = 0
  BY DEF NewStats
<1>4. Total = SumOver(f) /\ Total' = SumOver(g)
  BY DEF Total
<1> HIDE DEF f, g, S, T
<1>5. SumOver([id \in C |-> g[id]]) = SumOver(g)
  BY <1>1, <1>3, SumWithout
<1>6. SumOver([id \in C |-> f[id]]) <= SumOver(f)
  BY <1>1, SumFacts
<1>7. [id \in C |-> g[id]] = [id \in C |-> f[id]]
  BY <1>2
<1>8. SumOver(f) \in Nat /\ SumOver(g) \in Nat
  BY <1>1, SumIsCells
<1> QED BY <1>4, <1>5, <1>6, <1>7, <1>8

\* The totals are numbers.
LEMMA TotalsTypes ==
  ASSUME TypeInv
  PROVE  /\ totals.receptions \in Nat /\ totals.receivedTransmissions \in Nat
         /\ batch \in BatchRecord
         /\ batch.receptions \in Nat /\ batch.receivedTransmissions \in Nat
         /\ state.sequence \in Nat /\ next.sequence \in Nat
         /\ loop \in LoopRecord /\ loop.heard \in BOOLEAN
         /\ Total \in Nat /\ Working => StagedTotal \in Nat
<1>1. Total \in Nat
  BY HeardFacts, SumIsCells DEF Total
<1>2. Working => StagedTotal \in Nat
  BY HeardFacts, SumIsCells DEF StagedTotal
<1>3. /\ totals.receptions \in Nat /\ totals.receivedTransmissions \in Nat
      /\ loop \in LoopRecord
  BY DEF TypeInv, TypeOK, ControlTypeOK
<1>4. loop.heard \in BOOLEAN
  BY <1>3 DEF LoopRecord
<1>5. /\ batch \in BatchRecord
      /\ batch.receptions \in Nat /\ batch.receivedTransmissions \in Nat
  BY DEF TypeInv, TypeOK, BatchTypeOK, BatchRecord
<1>6. state.sequence \in Nat /\ next.sequence \in Nat
  BY DEF TypeInv, TypeOK, StateTypeOK, StateRecord
<1> QED BY <1>1, <1>2, <1>3, <1>4, <1>5, <1>6

\* A step to outside any call that changes no total.
LEMMA TotalsIdle ==
  ASSUME TypeInv, TypeInv', TotalsInv, pc # "apply", pc' = "idle",
         totals' = totals, state'.sequence = state.sequence,
         \A id \in StationIDs' : \/ id \in StationIDs /\ stats'[id] = stats[id]
                                 \/ id \notin StationIDs /\ stats'[id] = NewStats
  PROVE  TotalsInv'
<1>1. Total' <= Total /\ Total \in Nat /\ Total' \in Nat
  BY TotalKept
<1>2. /\ Total <= totals.receptions
      /\ totals.receivedTransmissions <= totals.receptions
      /\ totals.receivedTransmissions <= state.sequence
      /\ totals.receptions \in Nat
  BY TotalsTypes DEF TotalsInv
<1>3. Total' <= totals.receptions
  BY <1>1, <1>2
<1> QED BY <1>2, <1>3 DEF TotalsInv, Working

\* A call begins with the committed totals.
LEMMA TotalsBegin ==
  ASSUME TypeInv, TotalsInv, pc = "idle", pc' \in {"spawn", "tick"},
         UNCHANGED <<state, stats, totals>>, batch' = StageReceptions(state.stations),
         next'.sequence = state.sequence
  PROVE  TotalsInv'
<1>1. /\ Total <= totals.receptions
      /\ totals.receivedTransmissions <= totals.receptions
      /\ totals.receivedTransmissions <= state.sequence
      /\ totals.receivedTransmissions \in Nat
  BY TotalsTypes DEF TotalsInv
<1>2. StationIDs' = StationIDs
  BY DEF StationIDs
<1>3. /\ Total' = Total
      /\ batch'.receptions = totals.receptions
      /\ batch'.receivedTransmissions = totals.receivedTransmissions
  BY <1>2 DEF Total, StageReceptions
<1>4. \A id \in StationIDs :
        batch'.stats[StationIndex(id)'].lastReception = stats[id].lastReception
  <2> SUFFICES ASSUME NEW id \in StationIDs
               PROVE  batch'.stats[StationIndex(id)'] = stats[id]
    OBVIOUS
  <2>1. StationIndex(id)' = StationIndex(id)
    BY DEF StationIndex
  <2>2. StationIndex(id) \in DOMAIN state.stations /\ state.stations[StationIndex(id)].id = id
    BY StationIndexType
  <2> QED BY <2>1, <2>2 DEF StageReceptions
<1>5. [id \in StationIDs |-> batch'.stats[StationIndex(id)'].lastReception]
        = [id \in StationIDs |-> stats[id].lastReception]
  BY <1>4
<1>6. StagedTotal' = Total
  BY <1>2, <1>5 DEF StagedTotal, Total
<1>7. /\ pc' # "receive" /\ pc' # "apply"
      /\ Bump(pc' = "receive" /\ loop'.heard) = 0 /\ Bump(pc' = "receive") = 0
  BY DEF Bump
<1> QED BY <1>1, <1>3, <1>6, <1>7 DEF TotalsInv

\* A step within the loops that counts no opportunity.
LEMMA TotalsWorking ==
  ASSUME TypeInv, TotalsInv, Spawn \/ TickVessel \/ TickEnd \/ ReceiveEnd
  PROVE  TotalsInv'
<1>1. /\ Working /\ Working' /\ pc # "apply" /\ pc' # "apply"
      /\ UNCHANGED <<state, stats, totals>>
      /\ batch'.stats = batch.stats /\ batch'.receptions = batch.receptions
  BY TotalsTypes DEF Working, Spawn, TickVessel, Send, TickEnd, ReceiveEnd, BatchRecord
<1>2. StationIDs' = StationIDs /\ \A id \in StationIDs : StationIndex(id)' = StationIndex(id)
  BY <1>1 DEF StationIDs, StationIndex
<1>3. Total' = Total
  BY <1>1, <1>2 DEF Total
<1>4. StagedTotal' = StagedTotal
  <2>1. [id \in StationIDs |-> batch'.stats[StationIndex(id)'].lastReception]
          = [id \in StationIDs |-> batch.stats[StationIndex(id)].lastReception]
    BY <1>1, <1>2
  <2> QED BY <1>2, <2>1 DEF StagedTotal
<1>5. /\ StagedTotal <= batch.receptions
      /\ batch.receivedTransmissions + Bump(pc = "receive" /\ loop.heard) <= batch.receptions
      /\ batch.receivedTransmissions + Bump(pc = "receive") <= next.sequence
      /\ batch.receivedTransmissions \in Nat /\ next.sequence \in Nat
  BY <1>1, TotalsTypes DEF TotalsInv
<1>6. /\ batch'.receivedTransmissions + Bump(pc' = "receive" /\ loop'.heard) <= batch'.receptions
      /\ batch'.receivedTransmissions + Bump(pc' = "receive") <= next'.sequence
  <2>1. CASE Spawn \/ TickVessel
    <3>1. /\ pc # "receive" /\ pc' = "receive" /\ batch' = batch
          /\ next'.sequence = next.sequence + 1
      BY <2>1, SendShape DEF Spawn, TickVessel, Send
    <3>2. loop'.heard = FALSE
      BY <2>1, TotalsTypes DEF Spawn, TickVessel, LoopRecord
    <3>3. /\ Bump(pc = "receive") = 0 /\ Bump(pc = "receive" /\ loop.heard) = 0
          /\ Bump(pc' = "receive") = 1 /\ Bump(pc' = "receive" /\ loop'.heard) = 0
      BY <3>1, <3>2 DEF Bump
    <3> QED BY <1>5, <3>1, <3>3
  <2>2. CASE TickEnd
    <3>1. /\ pc # "receive" /\ pc' # "receive" /\ batch' = batch
          /\ next'.sequence = next.sequence
      BY <2>2 DEF TickEnd, TypeInv, TypeOK, StateTypeOK, StateRecord
    <3>2. /\ Bump(pc = "receive") = 0 /\ Bump(pc = "receive" /\ loop.heard) = 0
          /\ Bump(pc' = "receive") = 0 /\ Bump(pc' = "receive" /\ loop'.heard) = 0
      BY <3>1 DEF Bump
    <3> QED BY <1>5, <3>1, <3>2
  <2>3. CASE ReceiveEnd
    <3>1. /\ pc = "receive" /\ pc' # "receive" /\ next' = next
          /\ batch'.receivedTransmissions = batch.receivedTransmissions + Bump(loop.heard)
      BY <2>3, TotalsTypes DEF ReceiveEnd, BatchRecord
    <3>2. /\ Bump(pc = "receive") = 1
          /\ Bump(pc = "receive" /\ loop.heard) = Bump(loop.heard)
          /\ Bump(pc' = "receive") = 0 /\ Bump(pc' = "receive" /\ loop'.heard) = 0
          /\ Bump(loop.heard) \in {0, 1}
      <4>1. CASE loop.heard
        BY <3>1, <4>1 DEF Bump
      <4>2. CASE ~loop.heard
        BY <3>1, <4>2 DEF Bump
      <4> QED BY <4>1, <4>2
    <3>3. /\ batch'.receivedTransmissions \in Nat
          /\ batch'.receivedTransmissions <= batch.receptions
      BY <1>5, <3>1, <3>2
    <3>4. batch'.receivedTransmissions <= next.sequence
      BY <1>5, <3>1, <3>2
    <3> QED BY <1>1, <3>1, <3>2, <3>3, <3>4
  <2> QED BY <2>1, <2>2, <2>3
<1> QED BY <1>1, <1>3, <1>4, <1>5, <1>6 DEF TotalsInv

\* A reception adds one to its station and one to the run.
LEMMA TotalsReceive ==
  ASSUME TypeInv, TotalsInv, NEW outcome \in Outcomes, Receive(outcome)
  PROVE  TotalsInv'
<1>1. /\ pc = "receive" /\ pc' = pc /\ UNCHANGED <<state, stats, totals, next, reports>>
      /\ Working /\ Working' /\ loop.station <= Len(next.stations)
  BY DEF Receive, Working
<1>2. /\ next.stations = state.stations
      /\ \E i \in DOMAIN state.stations : i = loop.station /\ i \in Nat
  <2>1. loop \in LoopRecord /\ next.stations = state.stations /\ loop.station >= 1
    BY <1>1 DEF TypeInv, TypeOK, ControlTypeOK, StagedShape, SameStations
  <2>2. loop.station \in Nat
    BY <2>1 DEF LoopRecord
  <2> QED BY <1>1, <2>1, <2>2, StationFacts
<1>a. PICK i \in DOMAIN state.stations : i = loop.station /\ i \in Nat
  BY <1>2
<1> DEFINE t == Last(reports)
           old == batch.stats[i]
           counted == Count(old, outcome, t.channel, t.timestamp \div TickInterval)
           got == outcome = "received"
           x == state.stations[i].id
           f == [id \in StationIDs |-> batch.stats[StationIndex(id)].lastReception]
           g == [id \in StationIDs |-> batch'.stats[StationIndex(id)'].lastReception]
<1>3. /\ batch \in BatchRecord /\ batch.stats \in Seq(Stats)
      /\ DOMAIN batch.stats = DOMAIN state.stations
  <2>1. /\ batch \in BatchRecord /\ batch.stats \in Seq(Stats)
        /\ Len(batch.stats) = Len(state.stations)
    BY <1>1 DEF TypeInv, TypeOK, BatchTypeOK, StagedShape, BatchRecord
  <2> QED BY <2>1, StationFacts, LenProperties
<1>4. counted.lastReception = old.lastReception + Bump(got)
  <2>1. old \in Stats
    BY <1>1, RingFacts
  <2> QED BY <2>1, CountReceived
<1> HIDE DEF counted
<1>5. /\ batch'.stats = [batch.stats EXCEPT ![i] = counted]
      /\ batch'.receptions = batch.receptions + Bump(got)
      /\ batch'.receivedTransmissions = batch.receivedTransmissions
  BY <1>2, <1>3, <1>a DEF Receive, BatchRecord, counted
<1>6. StationIDs' = StationIDs /\ \A id \in StationIDs : StationIndex(id)' = StationIndex(id)
  BY <1>1 DEF StationIDs, StationIndex
<1>7. /\ x \in StationIDs /\ StationIndex(x) = i
      /\ \A id \in StationIDs : StationIndex(id) \in DOMAIN state.stations
                                /\ (StationIndex(id) = i => id = x)
  <2>1. \A id \in StationIDs : StationIndex(id) \in DOMAIN state.stations
                               /\ state.stations[StationIndex(id)].id = id
    BY StationIndexType
  <2>2. x \in StationIDs
    BY StationFacts
  <2> QED BY <2>1, <2>2, StationFacts
<1>8. IsFiniteSet(StationIDs) /\ f \in [StationIDs -> Nat]
  BY <1>1, HeardFacts
<1>9. g = [f EXCEPT ![x] = @ + Bump(got)]
  <2> SUFFICES ASSUME NEW id \in StationIDs
               PROVE  batch'.stats[StationIndex(id)].lastReception
                        = IF id = x THEN f[x] + Bump(got) ELSE f[id]
    BY <1>6, <1>8
  <2>1. CASE id = x
    BY <1>3, <1>4, <1>5, <1>7, <2>1
  <2>2. CASE id # x
    BY <1>3, <1>5, <1>7, <2>2
  <2> QED BY <2>1, <2>2
<1>10. StagedTotal = SumOver(f) /\ StagedTotal' = SumOver(g)
  BY <1>6 DEF StagedTotal
<1> HIDE DEF f, g, got
<1>11. SumOver(f) \in Nat /\ SumOver(g) = SumOver(f) + Bump(got)
  <2>1. CASE got
    BY <1>7, <1>8, <1>9, <2>1, SumFacts, SumIsCells DEF Bump
  <2>2. CASE ~got
    <3>1. g = f /\ Bump(got) = 0
      <4>1. Bump(got) = 0
        BY <2>2 DEF Bump
      <4> QED BY <1>7, <1>8, <1>9, <4>1
    <3>2. SumOver(f) \in Nat
      BY <1>8, SumIsCells
    <3> QED BY <3>1, <3>2
  <2> QED BY <2>1, <2>2
<1>12. /\ SumOver(f) <= batch.receptions
       /\ batch.receivedTransmissions + Bump(pc = "receive" /\ loop.heard) <= batch.receptions
       /\ batch.receivedTransmissions + Bump(pc = "receive") <= next.sequence
       /\ batch.receivedTransmissions \in Nat /\ batch.receptions \in Nat
  BY <1>1, <1>10, TotalsTypes DEF TotalsInv
<1>13. Bump(got) \in {0, 1}
  BY DEF Bump
<1>14. StagedTotal' <= batch'.receptions
  BY <1>5, <1>10, <1>11, <1>12, <1>13
<1>15. Bump(pc' = "receive" /\ loop'.heard) <= Bump(pc = "receive" /\ loop.heard) + Bump(got)
       /\ Bump(pc' = "receive" /\ loop'.heard) \in Nat
       /\ Bump(pc = "receive" /\ loop.heard) \in Nat
  <2>1. loop'.heard = (loop.heard \/ got)
    BY TotalsTypes DEF Receive, LoopRecord, got
  <2>2. CASE got
    BY <1>1, <2>1, <2>2 DEF Bump
  <2>3. CASE ~got
    <3>1. (pc' = "receive" /\ loop'.heard) <=> (pc = "receive" /\ loop.heard)
      BY <1>1, <2>1, <2>3
    <3>2. CASE pc = "receive" /\ loop.heard
      BY <3>1, <3>2, <2>3 DEF Bump
    <3>3. CASE ~(pc = "receive" /\ loop.heard)
      BY <3>1, <3>3, <2>3 DEF Bump
    <3> QED BY <3>2, <3>3
  <2> QED BY <2>2, <2>3
<1>16. batch'.receivedTransmissions + Bump(pc' = "receive" /\ loop'.heard) <= batch'.receptions
  BY <1>5, <1>12, <1>13, <1>15
<1>17. Total' = Total
  BY <1>1, <1>6 DEF Total
<1> QED BY <1>1, <1>5, <1>12, <1>14, <1>16, <1>17 DEF TotalsInv

\* commit publishes the counters of the call, whose totals are published by Finish.
LEMMA TotalsCommit ==
  ASSUME TypeInv, TotalsInv, Commit
  PROVE  TotalsInv'
<1>1. /\ Working /\ ~Working' /\ pc' = "apply" /\ pc # "apply" /\ pc # "receive"
      /\ stats' = [id \in StationIDs |-> batch.stats[StationIndex(id)]]
      /\ UNCHANGED <<totals, batch>>
  BY DEF Commit, Working
<1>2. state'.stations = state.stations /\ state'.sequence = next.sequence
  BY <1>1 DEF Commit, StateRecord, TypeInv, TypeOK, StateTypeOK, StagedShape, SameStations
<1>3. StationIDs' = StationIDs
  BY <1>2 DEF StationIDs
<1>4. Total' = StagedTotal
  <2>1. [id \in StationIDs |-> stats'[id].lastReception]
          = [id \in StationIDs |-> batch.stats[StationIndex(id)].lastReception]
    BY <1>1
  <2> QED BY <1>3, <2>1 DEF Total, StagedTotal
<1>5. /\ StagedTotal <= batch.receptions
      /\ batch.receivedTransmissions + Bump(pc = "receive" /\ loop.heard) <= batch.receptions
      /\ batch.receivedTransmissions + Bump(pc = "receive") <= next.sequence
      /\ batch.receivedTransmissions \in Nat
  BY <1>1, TotalsTypes DEF TotalsInv
<1>6. Bump(pc = "receive" /\ loop.heard) = 0 /\ Bump(pc = "receive") = 0
  BY <1>1 DEF Bump
<1>7. batch.receivedTransmissions <= batch.receptions /\ batch.receivedTransmissions <= next.sequence
  BY <1>5, <1>6
<1> QED BY <1>1, <1>2, <1>4, <1>5, <1>7 DEF TotalsInv

\* What is stored does not count again, and Finish publishes what was counted.
LEMMA TotalsApply ==
  ASSUME TypeInv, TotalsInv, ApplyRecord \/ Finish
  PROVE  TotalsInv'
<1>1. pc = "apply" /\ UNCHANGED <<state, stats>> /\ ~Working'
  BY DEF ApplyRecord, Finish, Drop, Working
<1>2. Total' = Total
  BY <1>1 DEF Total, StationIDs
<1>3. /\ Total <= batch.receptions /\ batch.receivedTransmissions <= batch.receptions
      /\ batch.receivedTransmissions <= state.sequence
  BY <1>1 DEF TotalsInv
<1>4. CASE ApplyRecord
  <2>1. pc' = "apply" /\ batch' = batch
    BY <1>4 DEF ApplyRecord
  <2> QED BY <1>1, <1>2, <1>3, <2>1 DEF TotalsInv
<1>5. CASE Finish
  <2>1. /\ pc' = "idle" /\ totals'.receptions = batch.receptions
        /\ totals'.receivedTransmissions = batch.receivedTransmissions
    BY <1>5 DEF Finish, Drop, TypeInv, TypeOK, ControlTypeOK
  <2> QED BY <1>1, <1>2, <1>3, <2>1 DEF TotalsInv
<1> QED BY <1>4, <1>5

-----------------------------------------------------------------------------
(***************************************************************************)
(* The counters beside the log in every reachable state                    *)
(***************************************************************************)
\* Nothing was asked of a new run.
LEMMA RateStarts ==
  ASSUME RateInit, TypeInv
  PROVE  LogInv /\ TotalsInv
<1>1. /\ DOMAIN state.stations = DOMAIN InitialStations
      /\ \A i \in DOMAIN InitialStations : state.stations[i].id = i
      /\ state.elapsed = 0 /\ state.sequence = 0 /\ next.sequence = 0
      /\ pc = "spawn" /\ loop.kind = "count" /\ loop.target = 0 /\ loop.heard = FALSE
      /\ totals.receptions = 0 /\ totals.receivedTransmissions = 0
      /\ batch = StageReceptions(state.stations)
      /\ stats = [id \in DOMAIN InitialStations |-> NewStats]
      /\ log = [id \in StationIDs |-> <<>>]
      /\ pending = [i \in DOMAIN state.stations |-> <<>>]
  BY DEF RateInit, Init, NewStation, NoLoop
<1>2. StationIDs = DOMAIN InitialStations
  BY <1>1 DEF StationIDs
<1>3. /\ \A id \in StationIDs : stats[id] = NewStats
      /\ \A i \in DOMAIN state.stations : batch.stats[i] = NewStats
      /\ batch.receptions = 0 /\ batch.receivedTransmissions = 0
  BY <1>1, <1>2 DEF StageReceptions
<1>4. Working /\ Now = 0 /\ 0 \div TickInterval \in Nat
  <2>1. 0 \in Nat /\ 0 <= 0
    OBVIOUS
  <2> QED BY <1>1, <2>1, SecondsOrdered DEF Working, Now
<1>5. ASSUME NEW i \in DOMAIN state.stations PROVE StagedLog(i) = <<>>
  <2>1. log[state.stations[i].id] = <<>> /\ pending[i] = <<>>
    BY <1>1, <1>2
  <2> QED BY <2>1 DEF StagedLog
<1>6. Accounts(NewStats, <<>>) /\ Filed(NewStats, <<>>, 0 \div TickInterval)
  BY <1>4, NothingFiled
<1>7. LogInv
  <2>1. DOMAIN log = StationIDs
    BY <1>1
  <2>2. ASSUME NEW id \in StationIDs
        PROVE  /\ log[id] \in Seq(Entry) /\ Accounts(stats[id], log[id])
               /\ Filed(stats[id], log[id], state.elapsed \div TickInterval)
    <3>1. log[id] = <<>> /\ stats[id] = NewStats /\ state.elapsed = 0
      BY <1>1, <1>3
    <3>2. <<>> \in Seq(Entry)
      OBVIOUS
    <3> QED BY <1>6, <3>1, <3>2
  <2>3. pending \in [DOMAIN state.stations -> Seq(Entry)]
    BY <1>1
  <2>4. ASSUME NEW i \in DOMAIN state.stations
        PROVE  /\ Accounts(batch.stats[i], StagedLog(i))
               /\ Filed(batch.stats[i], StagedLog(i), Now \div TickInterval)
               /\ Filed(batch.stats[i], StagedLog(i), loop.target \div TickInterval)
    <3>1. /\ batch.stats[i] = NewStats /\ StagedLog(i) = <<>> /\ Now = 0 /\ loop.target = 0
      BY <1>1, <1>3, <1>4, <1>5
    <3> QED BY <1>6, <3>1
  <2> QED BY <1>4, <2>1, <2>2, <2>3, <2>4 DEF LogInv
<1>8. Total = 0 /\ StagedTotal = 0
  <2> DEFINE f == [id \in StationIDs |-> stats[id].lastReception]
             g == [id \in StationIDs |-> batch.stats[StationIndex(id)].lastReception]
  <2>1. IsFiniteSet(StationIDs) /\ f \in [StationIDs -> Nat] /\ g \in [StationIDs -> Nat]
    BY <1>4, HeardFacts
  <2>2. NewStats.lastReception = 0
    BY DEF NewStats
  <2>3. ASSUME NEW id \in StationIDs PROVE f[id] = 0 /\ g[id] = 0
    BY <1>3, <2>2, StationIndexType
  <2> HIDE DEF f, g
  <2>4. SumOver(f) = 0 /\ SumOver(g) = 0
    BY <2>1, <2>3, SumFacts
  <2> QED BY <2>4 DEF f, g, Total, StagedTotal
<1>9. TotalsInv
  BY <1>1, <1>3, <1>8 DEF TotalsInv, Bump
<1> QED BY <1>7, <1>9

\* A call that moves time begins before its first tick and before its end.
LEMMA RateAdvance ==
  ASSUME TypeInv, LogInv, TotalsInv, RateFollow,
         NEW n \in StateRecord, NEW delta \in Nat, NEW credit,
         n.elapsed = state.elapsed, n.stations = state.stations, n.sequence = state.sequence,
         StartAdvance(n, delta, credit)
  PROVE  LogInv' /\ TotalsInv'
<1> DEFINE q == state.elapsed \div TickInterval
<1>1. /\ pc = "idle" /\ pc' = "tick" /\ UNCHANGED <<state, stats, totals>>
      /\ batch' = StageReceptions(state.stations)
      /\ loop'.kind = "advance" /\ loop'.tick = q + 1
      /\ loop'.target = state.elapsed + delta
  BY DEF StartAdvance, NoLoop, Idle
<1>2. next'.sequence = state.sequence
  BY DEF StartAdvance, StateRecord
<1>3. Now' \in Nat /\ state.elapsed <= Now'
  <2>1. state.elapsed \in Nat /\ TickInterval \in Nat \ {0}
    BY StateFields, LimitsAssumption
  <2>2. /\ state.elapsed = TickInterval * q + (state.elapsed % TickInterval)
        /\ state.elapsed % TickInterval < TickInterval
        /\ state.elapsed % TickInterval \in Nat /\ q \in Nat
    BY <2>1, DivMod
  <2>3. Now' = (q + 1) * TickInterval
    BY <1>1 DEF Now
  <2> HIDE DEF q
  <2>4. (q + 1) * TickInterval = TickInterval * q + TickInterval /\ TickInterval * q \in Nat
    BY <2>1, <2>2
  <2> QED BY <2>1, <2>2, <2>3, <2>4
<1>4. loop'.target \in Nat /\ state.elapsed <= loop'.target
  <2>1. state.elapsed \in Nat
    BY StateFields
  <2> QED BY <1>1, <2>1
<1>5. LogInv'
  BY <1>1, <1>3, <1>4, LogBegin
<1>6. TotalsInv'
  BY <1>1, <1>2, TotalsBegin
<1> QED BY <1>5, <1>6

\* The steps of the loops that ask no station.
LEMMA RateWorking ==
  ASSUME TypeInv, TypeInv', CoherentInv, LogInv, TotalsInv, RateFollow,
         Spawn \/ TickVessel \/ TickEnd \/ ReceiveEnd
  PROVE  LogInv' /\ TotalsInv'
<1>1. /\ Working /\ Working' /\ UNCHANGED <<state, stats>> /\ pc' # "idle" /\ pc' # "apply"
      /\ ~(pc = "receive" /\ pc' = "receive") /\ batch'.stats = batch.stats
  BY TotalsTypes DEF Working, Spawn, TickVessel, Send, TickEnd, ReceiveEnd, BatchRecord
<1>2. UNCHANGED <<log, pending>>
  BY <1>1, RateFollowed
<1>3. /\ loop.tick \in Nat /\ loop'.target = loop.target /\ loop'.kind = loop.kind
      /\ loop'.tick = loop.tick \/ loop'.tick = loop.tick + 1
  <2>1. loop \in LoopRecord
    BY TotalsTypes
  <2>2. loop.tick \in Nat
    BY <2>1 DEF LoopRecord
  <2>3. CASE Spawn
    BY <2>1, <2>2, <2>3 DEF Spawn, LoopRecord
  <2>4. CASE TickVessel
    BY <2>1, <2>2, <2>4 DEF TickVessel, LoopRecord
  <2>5. CASE TickEnd
    BY <2>1, <2>2, <2>5 DEF TickEnd, LoopRecord
  <2>6. CASE ReceiveEnd
    BY <2>1, <2>2, <2>6 DEF ReceiveEnd, LoopRecord
  <2> QED BY <2>3, <2>4, <2>5, <2>6
<1>4. Now \in Nat /\ Now' \in Nat /\ Now <= Now'
  <2> DEFINE k == loop.tick
             n == TickInterval
  <2>1. k \in Nat /\ n \in Nat /\ state.elapsed \in Nat
    BY <1>3, LimitsAssumption, StateFields
  <2>2. Now = IF loop.kind = "count" THEN state.elapsed ELSE k * n
    BY DEF Now
  <2>3. \/ Now' = Now
        \/ Now' = IF loop.kind = "count" THEN state.elapsed ELSE (k + 1) * n
    BY <1>1, <1>3 DEF Now
  <2> HIDE DEF k, n
  <2>4. (k + 1) * n = k * n + n /\ k * n \in Nat
    BY <2>1
  <2> QED BY <2>1, <2>2, <2>3, <2>4
<1>5. LogInv'
  BY <1>1, <1>2, <1>3, <1>4, LogWorking
<1>6. TotalsInv'
  BY TotalsWorking
<1> QED BY <1>5, <1>6

\* An edit between calls keeps what was counted and logged at the stations that stay.
LEMMA RateEdit ==
  ASSUME TypeInv, TypeInv', LogInv, TotalsInv, RateFollow, Idle, pc' = pc,
         state'.elapsed = state.elapsed, state'.sequence = state.sequence, totals' = totals,
         \A id \in StationIDs' : \/ id \in StationIDs /\ stats'[id] = stats[id]
                                 \/ id \notin StationIDs /\ stats'[id] = NewStats
  PROVE  LogInv' /\ TotalsInv'
<1>1. pc # "apply" /\ pc' = "idle"
  BY DEF Idle
<1> QED BY <1>1, LogIdle, TotalsIdle

\* Every step keeps the counters and the log in agreement.
LEMMA RateStep ==
  ASSUME TypeInv, TypeInv', HistoryInv, ClockInv, CoherentInv, RingInv, LogInv, TotalsInv,
         [Next /\ RateFollow]_<<vars, log, pending>>
  PROVE  LogInv' /\ TotalsInv'
<1>0. /\ state \in StateRecord /\ DOMAIN stats = StationIDs /\ DOMAIN stats' = StationIDs'
  BY DEF TypeInv, TypeOK, StateTypeOK, StatsTypeOK
<1>1. ASSUME RateFollow, NEW count \in 0..MaxVessels, BeginSetCount(count)
      PROVE  LogInv' /\ TotalsInv'
  <2>1. /\ pc = "idle" /\ pc' = "spawn" /\ UNCHANGED <<state, stats, totals>>
        /\ batch' = StageReceptions(state.stations)
        /\ loop'.kind = "count" /\ loop'.target = state.elapsed
    BY <1>1 DEF BeginSetCount, NoLoop, Idle
  <2>2. next'.sequence = state.sequence
    BY <1>0, <1>1 DEF BeginSetCount, StateRecord
  <2>3. /\ Now' = state.elapsed /\ state.elapsed \in Nat /\ state.elapsed <= state.elapsed
    BY <2>1, StateFields DEF Now
  <2>4. LogInv'
    BY <1>1, <2>1, <2>3, LogBegin
  <2>5. TotalsInv'
    BY <2>1, <2>2, TotalsBegin
  <2> QED BY <2>4, <2>5
<1>2. ASSUME RateFollow, NEW delta \in VirtualDeltas, BeginAdvance(delta)
      PROVE  LogInv' /\ TotalsInv'
  <2>1. delta \in Nat
    BY InputsAssumption
  <2> QED BY <1>0, <1>2, <2>1, RateAdvance DEF BeginAdvance
<1>3. ASSUME RateFollow, NEW delta \in RealDeltas, BeginElapse(delta)
      PROVE  LogInv' /\ TotalsInv'
  <2> DEFINE scaled == delta * state.speed + state.remainder
             n == [state EXCEPT !.remainder = scaled % SpeedScale]
  <2>1. scaled % SpeedScale \in Nat /\ scaled \div SpeedScale \in Nat
    <3>1. delta * state.speed \in Nat /\ state.remainder \in Nat /\ SpeedScale \in Nat \ {0}
      <4>1. delta \in Nat /\ state.speed \in Nat /\ state.remainder \in Nat
        BY StateFields, InputsAssumption
      <4> QED BY <4>1, LimitsAssumption
    <3>2. scaled \in Nat
      BY <3>1
    <3> HIDE DEF scaled
    <3> QED BY <3>1, <3>2, DivMod
  <2>2. StartAdvance(n, scaled \div SpeedScale, delta * state.speed)
    BY <1>3 DEF BeginElapse
  <2> HIDE DEF scaled
  <2>3. /\ n \in StateRecord /\ n.elapsed = state.elapsed /\ n.stations = state.stations
        /\ n.sequence = state.sequence
    BY <1>0, <2>1 DEF StateRecord
  <2> HIDE DEF n
  <2> QED BY <1>3, <2>1, <2>2, <2>3, RateAdvance
<1>4. ASSUME RateFollow, NEW speed \in Speeds, SetSpeed(speed)
      PROVE  LogInv' /\ TotalsInv'
  <2>1. /\ state'.sequence = state.sequence /\ state'.elapsed = state.elapsed
        /\ state'.stations = state.stations /\ UNCHANGED <<totals, stats, pc>> /\ Idle
    BY <1>0, <1>4 DEF SetSpeed, StateRecord
  <2>2. StationIDs' = StationIDs
    BY <2>1 DEF StationIDs
  <2> QED BY <1>4, <2>1, <2>2, RateEdit
<1>5. ASSUME RateFollow, NEW expected \in FirstRevision..MaxRevision, NEW d \in Definitions,
             AddStation(expected, d)
      PROVE  LogInv' /\ TotalsInv'
  <2> DEFINE id == state.lastStationID + 1
  <2>1. /\ state'.sequence = state.sequence /\ state'.elapsed = state.elapsed
        /\ Idle /\ pc' = pc /\ totals' = totals
        /\ stats' = [k \in DOMAIN stats \cup {id} |-> IF k = id THEN NewStats ELSE stats[k]]
    BY <1>0, <1>5 DEF AddStation, NextStationID, StateRecord
  <2>2. id \notin StationIDs
    <3>1. ASSUME NEW i \in DOMAIN state.stations, state.stations[i].id = id PROVE FALSE
      <4>1. state.stations[i].id <= state.lastStationID /\ state.lastStationID \in Nat
        BY StateFields DEF TypeInv, StationIDsOrdered
      <4> QED BY <3>1, <4>1
    <3> HIDE DEF id
    <3> QED BY <3>1 DEF StationIDs
  <2> HIDE DEF id
  <2>3. ASSUME NEW x \in StationIDs'
        PROVE  \/ x \in StationIDs /\ stats'[x] = stats[x]
               \/ x \notin StationIDs /\ stats'[x] = NewStats
    <3>1. x \in StationIDs \cup {id}
      BY <1>0, <2>1, <2>3
    <3>2. CASE x = id
      BY <1>0, <2>1, <2>2, <3>2
    <3>3. CASE x # id
      BY <1>0, <2>1, <3>1, <3>3
    <3> QED BY <3>2, <3>3
  <2> QED BY <1>5, <2>1, <2>3, RateEdit
<1>6. ASSUME RateFollow, NEW expected \in FirstRevision..MaxRevision, NEW id \in StationIDs,
             NEW d \in Definitions, UpdateStation(expected, id, d)
      PROVE  LogInv' /\ TotalsInv'
  <2>1. /\ state'.sequence = state.sequence /\ state'.elapsed = state.elapsed
        /\ Idle /\ pc' = pc /\ UNCHANGED <<totals, stats>>
    BY <1>0, <1>6 DEF UpdateStation, StateRecord
  <2>2. StationIDs' = StationIDs
    BY <1>0, <2>1
  <2> QED BY <1>6, <2>1, <2>2, RateEdit
<1>7. ASSUME RateFollow, NEW expected \in FirstRevision..MaxRevision, NEW id \in StationIDs,
             RemoveStation(expected, id)
      PROVE  LogInv' /\ TotalsInv'
  <2>1. /\ state'.sequence = state.sequence /\ state'.elapsed = state.elapsed
        /\ Idle /\ pc' = pc /\ totals' = totals
        /\ stats' = [k \in DOMAIN stats \ {id} |-> stats[k]]
    BY <1>0, <1>7 DEF RemoveStation, Without, StateRecord
  <2>2. \A x \in StationIDs' : x \in StationIDs /\ stats'[x] = stats[x]
    BY <1>0, <2>1
  <2> QED BY <1>7, <2>1, <2>2, RateEdit
<1>8. ASSUME RateFollow, Spawn \/ TickVessel \/ TickEnd \/ ReceiveEnd
      PROVE  LogInv' /\ TotalsInv'
  BY <1>8, RateWorking
<1>9. ASSUME RateFollow, SpawnFails \/ Cancel \/ ReceiveFails PROVE LogInv' /\ TotalsInv'
  <2>1. state' = state /\ UNCHANGED <<stats, totals>> /\ pc' = "idle" /\ pc # "apply"
    BY <1>9 DEF SpawnFails, Cancel, ReceiveFails, Drop
  <2>2. StationIDs' = StationIDs
    BY <2>1 DEF StationIDs
  <2> QED BY <1>9, <2>1, <2>2, LogIdle, TotalsIdle
<1>10. ASSUME RateFollow, NEW outcome \in Outcomes, Receive(outcome)
       PROVE  LogInv' /\ TotalsInv'
  BY <1>10, LogReceive, TotalsReceive
<1>11. ASSUME RateFollow, Commit PROVE LogInv' /\ TotalsInv'
  BY <1>11, LogCommit, TotalsCommit
<1>12. ASSUME RateFollow, ApplyRecord PROVE LogInv' /\ TotalsInv'
  <2>1. /\ pc = "apply" /\ pc' = "apply" /\ UNCHANGED <<state, stats>>
    BY <1>12 DEF ApplyRecord
  <2>2. UNCHANGED <<log, pending>> /\ StationIDs' = StationIDs /\ ~Working /\ ~Working'
    BY <1>12, <2>1, RateFollowed DEF StationIDs, Working
  <2>3. LogInv'
    BY <2>1, <2>2 DEF LogInv
  <2> QED BY <1>12, <2>3, TotalsApply
<1>13. ASSUME RateFollow, Finish PROVE LogInv' /\ TotalsInv'
  <2>1. UNCHANGED <<state, stats>> /\ pc' = "idle"
    BY <1>13 DEF Finish, Drop
  <2>2. StationIDs' = StationIDs
    BY <2>1 DEF StationIDs
  <2>3. LogInv'
    BY <1>13, <2>1, <2>2, LogIdle
  <2> QED BY <1>13, <2>3, TotalsApply
<1>14. CASE UNCHANGED <<vars, log, pending>>
  <2>1. UNCHANGED <<state, stats, totals, pc, next, reports, batch, loop, log, pending>>
    BY <1>14 DEF vars
  <2>2. /\ StationIDs' = StationIDs /\ Working' = Working /\ Now' = Now /\ Total' = Total
        /\ StagedTotal' = StagedTotal /\ \A i : StagedLog(i)' = StagedLog(i)
    BY <2>1 DEF StationIDs, Working, Now, Total, StagedTotal, StagedLog, StationIndex
  <2>3. LogInv'
    BY <2>1, <2>2 DEF LogInv
  <2>4. TotalsInv'
    BY <2>1, <2>2 DEF TotalsInv
  <2> QED BY <2>3, <2>4
<1> QED BY <1>1, <1>2, <1>3, <1>4, <1>5, <1>6, <1>7, <1>8, <1>9, <1>10, <1>11, <1>12,
           <1>13, <1>14 DEF Next

\* What a reader sees between calls is what was logged.
LEMMA RatesShown == TypeInv /\ LogInv /\ TotalsInv => RatesExact
<1> SUFFICES ASSUME TypeInv, LogInv, TotalsInv, Idle PROVE RatesExact
  BY DEF RatesExact, WindowExact, CountersExact
<1> DEFINE now == state.elapsed \div TickInterval
<1>1. now \in Nat
  <2>1. state.elapsed \in Nat /\ state.elapsed <= state.elapsed
    BY StateFields
  <2> QED BY <2>1, SecondsOrdered
<1>2. ASSUME NEW id \in StationIDs
      PROVE  /\ RecentOpportunities(id)
                  = Cardinality({k \in DOMAIN log[id] : InWindow(log[id][k])})
             /\ RecentReceived(id)
                  = Cardinality({k \in DOMAIN log[id] : InWindow(log[id][k]) /\ log[id][k].got})
  <2> DEFINE l == log[id]
             st == stats[id]
             W == {b \in 0..(RateBuckets - 1) :
                     st.buckets[b].second > now - RateBuckets /\ st.buckets[b].second <= now}
             recent == {k \in DOMAIN l : SecondOf(l[k]) > now - RateBuckets}
  <2>1. st \in Stats /\ l \in Seq(Entry) /\ Filed(st, l, now)
    BY DEF LogInv, TypeInv, TypeOK, StatsTypeOK
  <2>2. Window(id) = W
    <3>1. DOMAIN st.buckets = 0..(RateBuckets - 1)
      BY <2>1 DEF Stats
    <3> QED BY <3>1 DEF Window
  <2>3. /\ {k \in DOMAIN l : InWindow(l[k])} = recent
        /\ {k \in DOMAIN l : InWindow(l[k]) /\ l[k].got} = recent \cap Got(l)
    BY DEF InWindow, SecondOf, Got
  <2>4. /\ SumOver([b \in W |-> st.buckets[b].opportunities]) = Cardinality(recent)
        /\ SumOver([b \in W |-> st.buckets[b].received]) = Cardinality(recent \cap Got(l))
    <3> HIDE DEF now, l, st
    <3> QED BY <1>1, <2>1, WindowCounted DEF W, recent
  <2>5. /\ RecentOpportunities(id) = SumOver([b \in W |-> st.buckets[b].opportunities])
        /\ RecentReceived(id) = SumOver([b \in W |-> st.buckets[b].received])
    BY <2>2 DEF RecentOpportunities, RecentReceived
  <2> HIDE DEF W, recent
  <2> QED BY <2>3, <2>4, <2>5, Zenon
<1>3. WindowExact
  BY <1>2 DEF WindowExact
<1>4. ASSUME NEW id \in StationIDs
      PROVE  LET st == stats[id]
             IN /\ st.opportunities = Len(log[id])
                /\ st.opportunities = SumOver(st.outcome)
                /\ st.opportunities = SumOver([c \in Channels |-> st.channel[c].opportunities])
                /\ st.outcome["received"] = SumOver([c \in Channels |-> st.channel[c].received])
                /\ st.outcome["received"] = Cardinality({k \in DOMAIN log[id] : log[id][k].got})
  BY DEF LogInv, Accounts, Partitioned, Got
<1>5. /\ Total <= totals.receptions
      /\ totals.receivedTransmissions <= totals.receptions
      /\ totals.receivedTransmissions <= state.sequence
  BY DEF TotalsInv, Idle
<1>6. CountersExact
  BY <1>4, <1>5, Zenon DEF CountersExact, Total
<1> QED BY <1>3, <1>6 DEF RatesExact

\* For every configuration, every link budget and every history of calls, failures
\* and station edits: the recent and the lifetime counters are what happened.
THEOREM RatesCorrect == RateSpec => []RatesExact
<1>1. RateInit => Init
  BY DEF RateInit
<1>2. [Next /\ RateFollow]_<<vars, log, pending>> => [Next]_vars
  OBVIOUS
<1>3. RateInit => LogInv /\ TotalsInv
  BY <1>1, TypeInit, RateStarts
<1>4. EngineInv /\ EngineInv' /\ LogInv /\ TotalsInv
        /\ [Next /\ RateFollow]_<<vars, log, pending>> => LogInv' /\ TotalsInv'
  BY RateStep DEF EngineInv, StoreInv
<1>5. EngineInv /\ LogInv /\ TotalsInv => RatesExact
  BY RatesShown DEF EngineInv
<1> QED BY <1>1, <1>2, <1>3, <1>4, <1>5, StoreAlways, PTL DEF Spec, RateSpec

-----------------------------------------------------------------------------
(***************************************************************************)
(* Sorting                                                                 *)
(***************************************************************************)
\* s lists S by an order: each element once, after all those that come before it.
Lists(s, S, B) ==
  /\ s \in Seq(S) /\ Len(s) \in Nat /\ Len(s) = Cardinality(S) /\ DOMAIN s = 1..Len(s)
  /\ \A k \in DOMAIN s : s[k] \in S
  /\ \A x \in S : \E k \in DOMAIN s : s[k] = x
  /\ \A j, k \in DOMAIN s : j < k => s[j] \in B[s[k]]

\* B gives the elements of S before each of them in a strict total order.
Orders(B, S) ==
  /\ \A x \in S : B[x] \subseteq S /\ x \notin B[x]
  /\ \A x, y \in S : x = y \/ x \in B[y] \/ y \in B[x]
  /\ \A x, y, z \in S : x \in B[y] /\ y \in B[z] => x \in B[z]

\* The number of the elements before one is its rank: no two elements share it, and
\* every number below the size of the set is one.
LEMMA Ranks ==
  ASSUME NEW S, IsFiniteSet(S), NEW B, Orders(B, S)
  PROVE  /\ Cardinality(S) \in Nat
         /\ \A x \in S : Cardinality(B[x]) \in 0..(Cardinality(S) - 1)
         /\ \A x, y \in S : Cardinality(B[x]) < Cardinality(B[y]) => x \in B[y]
         /\ \A x, y \in S : Cardinality(B[x]) = Cardinality(B[y]) => x = y
         /\ \A k \in 1..Cardinality(S) : \E x \in S : Cardinality(B[x]) = k - 1
<1> DEFINE n == Cardinality(S)
           rank == [x \in S |-> Cardinality(B[x])]
<1>1. n \in Nat
  BY FS_CardinalityType
<1>2. ASSUME NEW x \in S PROVE IsFiniteSet(B[x]) /\ rank[x] \in 0..(n - 1)
  <2>1. B[x] \in SUBSET S /\ x \notin B[x]
    BY DEF Orders
  <2>2. IsFiniteSet(B[x]) /\ Cardinality(B[x]) <= n /\ Cardinality(B[x]) # n
    BY <2>1, FS_Subset
  <2>3. Cardinality(B[x]) \in Nat
    BY <2>2, FS_CardinalityType
  <2> QED BY <1>1, <2>2, <2>3
<1>3. ASSUME NEW x \in S, NEW y \in S, x \in B[y] PROVE rank[x] < rank[y]
  <2> DEFINE a == B[x]
             b == B[y]
  <2>1. a \subseteq b /\ x \in b /\ x \notin a
    BY <1>3 DEF Orders
  <2>2. IsFiniteSet(b)
    BY <1>2
  <2>3. rank[x] = Cardinality(a) /\ rank[y] = Cardinality(b)
    OBVIOUS
  <2> HIDE DEF a, b
  <2>4. Cardinality(a) <= Cardinality(b) /\ (Cardinality(b) = Cardinality(a) => b = a)
    BY <2>1, <2>2, FS_Subset
  <2>5. b # a
    BY <2>1
  <2>6. rank[x] \in Nat /\ rank[y] \in Nat
    BY <1>2
  <2> HIDE DEF rank
  <2> QED BY <2>3, <2>4, <2>5, <2>6
<1>4. \A x \in S : rank[x] = Cardinality(B[x])
  OBVIOUS
<1> HIDE DEF rank
<1>5. \A x, y \in S : rank[x] < rank[y] => x \in B[y]
  <2> SUFFICES ASSUME NEW x \in S, NEW y \in S, rank[x] < rank[y] PROVE x \in B[y]
    OBVIOUS
  <2>1. rank[x] \in Nat /\ rank[y] \in Nat
    BY <1>2
  <2>2. x = y \/ x \in B[y] \/ y \in B[x]
    BY DEF Orders
  <2> QED BY <1>3, <2>1, <2>2
<1>6. \A x, y \in S : rank[x] = rank[y] => x = y
  <2> SUFFICES ASSUME NEW x \in S, NEW y \in S, rank[x] = rank[y] PROVE x = y
    OBVIOUS
  <2>1. rank[x] \in Nat /\ rank[y] \in Nat
    BY <1>2
  <2>2. x = y \/ x \in B[y] \/ y \in B[x]
    BY DEF Orders
  <2> QED BY <1>3, <2>1, <2>2
<1>7. \A k \in 1..n : \E x \in S : rank[x] = k - 1
  <2> DEFINE place == [x \in S |-> rank[x] + 1]
  <2>1. place \in [S -> 1..n]
    <3> SUFFICES ASSUME NEW x \in S PROVE rank[x] + 1 \in 1..n
      OBVIOUS
    <3> QED BY <1>1, <1>2
  <2>2. \A x, y \in S : place[x] = place[y] => x = y
    <3> SUFFICES ASSUME NEW x \in S, NEW y \in S, rank[x] + 1 = rank[y] + 1 PROVE x = y
      OBVIOUS
    <3>1. rank[x] \in Nat /\ rank[y] \in Nat
      BY <1>2
    <3> QED BY <1>6, <3>1
  <2>3. place \in Injection(S, 1..n)
    <3> HIDE DEF place
    <3> QED BY <2>1, <2>2 DEF Injection, IsInjective
  <2>4. IsFiniteSet(1..n) /\ Cardinality(1..n) = n
    BY <1>1, FS_Interval
  <2> HIDE DEF place
  <2>5. place \in Surjection(S, 1..n)
    BY <2>3, <2>4, FS_Injection
  <2>6. \A k \in 1..n : \E x \in S : place[x] = k
    BY <2>5 DEF Surjection
  <2> SUFFICES ASSUME NEW k \in 1..n PROVE \E x \in S : rank[x] = k - 1
    OBVIOUS
  <2>7. PICK x \in S : place[x] = k
    BY <2>6
  <2>8. rank[x] + 1 = k /\ rank[x] \in Nat /\ k \in Nat
    BY <1>1, <1>2, <2>7 DEF place
  <2> QED BY <2>8
<1> QED BY <1>1, <1>2, <1>4, <1>5, <1>6, <1>7

\* A function on 1..n is a sequence.
LEMMA Numbered ==
  ASSUME NEW S, NEW n \in Nat, NEW s \in [1..n -> S]
  PROVE  s \in Seq(S) /\ Len(s) = n
OBVIOUS

\* What puts each element at its rank lists the set.
LEMMA Listed ==
  ASSUME NEW S, IsFiniteSet(S), NEW B, Orders(B, S), NEW s,
         s = [k \in 1..Cardinality(S) |-> CHOOSE x \in S : Cardinality(B[x]) = k - 1]
  PROVE  Lists(s, S, B)
<1> DEFINE n == Cardinality(S)
<1>1. n \in Nat
  BY Ranks
<1>2. DOMAIN s = 1..n
  OBVIOUS
<1>3. \A k \in 1..n : s[k] \in S /\ Cardinality(B[s[k]]) = k - 1
  <2> SUFFICES ASSUME NEW k \in 1..n PROVE s[k] \in S /\ Cardinality(B[s[k]]) = k - 1
    OBVIOUS
  <2>1. \E x \in S : Cardinality(B[x]) = k - 1
    BY Ranks
  <2>2. s[k] = CHOOSE x \in S : Cardinality(B[x]) = k - 1
    OBVIOUS
  <2> QED BY <2>1, <2>2, Zenon
<1>4. s \in [1..n -> S]
  <2>1. ASSUME NEW k \in 1..n PROVE (CHOOSE x \in S : Cardinality(B[x]) = k - 1) \in S
    <3>1. \E x \in S : Cardinality(B[x]) = k - 1
      BY Ranks
    <3> QED BY <3>1, Zenon
  <2>2. [k \in 1..n |-> CHOOSE x \in S : Cardinality(B[x]) = k - 1] \in [1..n -> S]
    BY <2>1
  <2> QED BY <2>2
<1> HIDE DEF n
<1>5. s \in Seq(S) /\ Len(s) = n
  BY <1>1, <1>4, Numbered
<1>6. ASSUME NEW x \in S PROVE \E k \in 1..n : s[k] = x
  <2> DEFINE c == Cardinality(B[x])
  <2>1. c \in 0..(n - 1)
    BY Ranks DEF n
  <2>2. c + 1 \in 1..n /\ (c + 1) - 1 = c
    BY <1>1, <2>1
  <2>3. s[c + 1] \in S /\ Cardinality(B[s[c + 1]]) = c
    BY <1>3, <2>2
  <2>4. s[c + 1] = x
    BY <2>3, Ranks
  <2> QED BY <2>2, <2>4
<1>7. ASSUME NEW j \in 1..n, NEW k \in 1..n, j < k PROVE s[j] \in B[s[k]]
  <2> DEFINE c == Cardinality(B[s[j]])
             d == Cardinality(B[s[k]])
  <2>1. /\ s[j] \in S /\ s[k] \in S
        /\ c = j - 1 /\ d = k - 1
    BY <1>3
  <2>2. c < d
    <3> HIDE DEF c, d
    <3> QED BY <1>1, <1>7, <2>1
  <2> QED BY <2>1, <2>2, Ranks
<1> QED BY <1>1, <1>2, <1>3, <1>5, <1>6, <1>7 DEF Lists, n

\* The elements before each of a set, by each order of an answer.
ByText(S) == [x \in S |-> {y \in S : TextBefore(y, x)}]
ByNumber(S) == [x \in S |-> {y \in S : Below(y, x)}]
ByStation(S) == [x \in S |-> {y \in S : StationBefore(y, x)}]
ByStorage(S) == [x \in S |-> {y \in S : StoredBefore(y, x)}]
BySending(S) == [x \in S |-> {y \in S : SentBefore(y, x)}]

\* IDs go by their text.
LEMMA TextSorted ==
  ASSUME NEW S \in SUBSET (1..MaxRevision)
  PROVE  Lists(Sorted(S, TextBefore), S, ByText(S))
<1> DEFINE B == ByText(S)
<1>1. IsFiniteSet(S)
  <2>1. IsFiniteSet(1..MaxRevision)
    BY LimitsAssumption, FS_Interval
  <2> QED BY <2>1, FS_Subset
<1>2. Orders(B, S)
  BY TextAssumption DEF Orders, ByText, TextBefore
<1>3. \A x \in S : B[x] = {y \in S : TextBefore(y, x)}
  BY DEF ByText
<1>4. Sorted(S, TextBefore) =
        [k \in 1..Cardinality(S) |->
           CHOOSE x \in S : Cardinality({y \in S : TextBefore(y, x)}) = k - 1]
  BY DEF Sorted
<1> HIDE DEF B
<1>5. Sorted(S, TextBefore) =
        [k \in 1..Cardinality(S) |-> CHOOSE x \in S : Cardinality(B[x]) = k - 1]
  BY <1>3, <1>4, Zenon
<1>6. Lists(Sorted(S, TextBefore), S, B)
  BY <1>1, <1>2, <1>5, Listed
<1> QED BY <1>6 DEF B

\* MMSIs go by number.
LEMMA NumberSorted ==
  ASSUME NEW S \in SUBSET Nat, IsFiniteSet(S)
  PROVE  Lists(Sorted(S, Below), S, ByNumber(S))
<1> DEFINE B == ByNumber(S)
<1>2. Orders(B, S)
  BY DEF Orders, ByNumber, Below
<1>3. \A x \in S : B[x] = {y \in S : Below(y, x)}
  BY DEF ByNumber
<1>4. Sorted(S, Below) =
        [k \in 1..Cardinality(S) |-> CHOOSE x \in S : Cardinality({y \in S : Below(y, x)}) = k - 1]
  BY DEF Sorted
<1> HIDE DEF B
<1>5. Sorted(S, Below) =
        [k \in 1..Cardinality(S) |-> CHOOSE x \in S : Cardinality(B[x]) = k - 1]
  BY <1>3, <1>4, Zenon
<1>6. Lists(Sorted(S, Below), S, B)
  BY <1>2, <1>5, Listed
<1> QED BY <1>6 DEF B

\* What the stations know of a target is put at its rank by station.
LEMMA StationRanks ==
  ASSUME NEW S
  PROVE  Sorted(S, StationBefore) =
           [k \in 1..Cardinality(S) |->
              CHOOSE x \in S : Cardinality(ByStation(S)[x]) = k - 1]
<1> DEFINE B == ByStation(S)
<1>1. \A x \in S : B[x] = {y \in S : StationBefore(y, x)}
  BY DEF ByStation
<1>2. Sorted(S, StationBefore) =
        [k \in 1..Cardinality(S) |->
           CHOOSE x \in S : Cardinality({y \in S : StationBefore(y, x)}) = k - 1]
  BY DEF Sorted
<1> HIDE DEF B
<1>3. Sorted(S, StationBefore) =
        [k \in 1..Cardinality(S) |-> CHOOSE x \in S : Cardinality(B[x]) = k - 1]
  BY <1>1, <1>2, Zenon
<1> QED BY <1>3 DEF B

\* What the stations know of a target goes by the text of their IDs.
LEMMA StationSorted ==
  ASSUME NEW S, IsFiniteSet(S), \A x \in S : x.station \in 1..MaxRevision,
         \A x, y \in S : x.station = y.station => x = y
  PROVE  Lists(Sorted(S, StationBefore), S, ByStation(S))
<1> DEFINE B == ByStation(S)
           text == [x \in S |-> TextRank[x.station]]
<1>1. /\ \A x \in S : text[x] \in Int /\ text[x] = TextRank[x.station]
      /\ \A x, y \in S : text[x] = text[y] => x = y
  BY TextAssumption
<1>2. \A x, y \in S : y \in B[x] <=> text[y] < text[x]
  BY <1>1 DEF ByStation, StationBefore, TextBefore
<1>3. \A x \in S : B[x] \subseteq S
  BY DEF ByStation
<1>4. Sorted(S, StationBefore) =
        [k \in 1..Cardinality(S) |-> CHOOSE x \in S : Cardinality(B[x]) = k - 1]
  BY StationRanks
<1> HIDE DEF B, text
<1>6. Orders(B, S)
  <2>1. ASSUME NEW x \in S PROVE B[x] \subseteq S /\ x \notin B[x]
    BY <1>1, <1>2, <1>3
  <2>2. ASSUME NEW x \in S, NEW y \in S PROVE x = y \/ x \in B[y] \/ y \in B[x]
    BY <1>1, <1>2
  <2>3. ASSUME NEW x \in S, NEW y \in S, NEW z \in S, x \in B[y], y \in B[z] PROVE x \in B[z]
    BY <1>1, <1>2, <2>3
  <2> QED BY <2>1, <2>2, <2>3 DEF Orders
<1>8. Lists(Sorted(S, StationBefore), S, B)
  BY <1>4, <1>6, Listed
<1> QED BY <1>8 DEF B

\* Two orders of receptions by instant and transmission, and then by a number that no
\* two receptions of one transmission share.
LEMMA ThirdOrder ==
  ASSUME NEW S \in SUBSET ReceptionRecord, NEW n, \A x \in S : n[x] \in Int,
         \A x, y \in S : Together(x, y) /\ n[x] = n[y] => x = y,
         NEW B, \A x \in S : B[x] \subseteq S,
         \A x, y \in S : y \in B[x] <=> Earlier(y, x) \/ (Together(y, x) /\ n[y] < n[x])
  PROVE  Orders(B, S)
<1>1. \A x \in S : x.timestamp \in Nat /\ x.transmission \in Nat
  BY DEF ReceptionRecord
<1> USE DEF Earlier, Together
<1>2. ASSUME NEW x \in S PROVE B[x] \subseteq S /\ x \notin B[x]
  BY <1>1
<1>3. ASSUME NEW x \in S, NEW y \in S PROVE x = y \/ x \in B[y] \/ y \in B[x]
  BY <1>1
<1>4. ASSUME NEW x \in S, NEW y \in S, NEW z \in S, x \in B[y], y \in B[z] PROVE x \in B[z]
  BY <1>1, <1>4
<1> QED BY <1>2, <1>3, <1>4 DEF Orders

\* Receptions go by instant, transmission and the place of their station.
LEMMA StorageSorted ==
  ASSUME NEW S \in SUBSET ReceptionRecord, IsFiniteSet(S),
         \A x \in S : StationIndex(x.station) \in Int,
         \A x, y \in S : Together(x, y) /\ StationIndex(x.station) = StationIndex(y.station)
                           => x = y
  PROVE  Lists(Sorted(S, StoredBefore), S, ByStorage(S))
<1> DEFINE B == ByStorage(S)
           n == [x \in S |-> StationIndex(x.station)]
<1>1. /\ \A x \in S : n[x] \in Int
      /\ \A x, y \in S : Together(x, y) /\ n[x] = n[y] => x = y
  OBVIOUS
<1>2. \A x, y \in S : y \in B[x] <=> Earlier(y, x) \/ (Together(y, x) /\ n[y] < n[x])
  BY DEF ByStorage, StoredBefore
<1>3. \A x \in S : B[x] \subseteq S
  BY DEF ByStorage
<1>4. \A x \in S : B[x] = {y \in S : StoredBefore(y, x)}
  BY DEF ByStorage
<1>5. Sorted(S, StoredBefore) =
        [k \in 1..Cardinality(S) |->
           CHOOSE x \in S : Cardinality({y \in S : StoredBefore(y, x)}) = k - 1]
  BY DEF Sorted
<1> HIDE DEF B, n
<1>6. Orders(B, S)
  BY <1>1, <1>2, <1>3, ThirdOrder
<1>7. Sorted(S, StoredBefore) =
        [k \in 1..Cardinality(S) |-> CHOOSE x \in S : Cardinality(B[x]) = k - 1]
  BY <1>4, <1>5, Zenon
<1>8. Lists(Sorted(S, StoredBefore), S, B)
  BY <1>6, <1>7, Listed
<1> QED BY <1>8 DEF B

\* Receptions go by instant, transmission and the text of their station.
LEMMA SendingSorted ==
  ASSUME NEW S \in SUBSET ReceptionRecord, IsFiniteSet(S),
         \A x \in S : x.station \in 1..MaxRevision,
         \A x, y \in S : Together(x, y) /\ x.station = y.station => x = y
  PROVE  Lists(Sorted(S, SentBefore), S, BySending(S))
<1> DEFINE B == BySending(S)
           n == [x \in S |-> TextRank[x.station]]
<1>1. /\ \A x \in S : n[x] \in Int
      /\ \A x, y \in S : Together(x, y) /\ n[x] = n[y] => x = y
  BY TextAssumption
<1>2. \A x, y \in S : y \in B[x] <=> Earlier(y, x) \/ (Together(y, x) /\ n[y] < n[x])
  BY DEF BySending, SentBefore, StationBefore, TextBefore
<1>3. \A x \in S : B[x] \subseteq S
  BY DEF BySending
<1>4. \A x \in S : B[x] = {y \in S : SentBefore(y, x)}
  BY DEF BySending
<1>5. Sorted(S, SentBefore) =
        [k \in 1..Cardinality(S) |->
           CHOOSE x \in S : Cardinality({y \in S : SentBefore(y, x)}) = k - 1]
  BY DEF Sorted
<1> HIDE DEF B, n
<1>6. Orders(B, S)
  BY <1>1, <1>2, <1>3, ThirdOrder
<1>7. Sorted(S, SentBefore) =
        [k \in 1..Cardinality(S) |-> CHOOSE x \in S : Cardinality(B[x]) = k - 1]
  BY <1>4, <1>5, Zenon
<1>8. Lists(Sorted(S, SentBefore), S, B)
  BY <1>6, <1>7, Listed
<1> QED BY <1>8 DEF B

-----------------------------------------------------------------------------
(***************************************************************************)
(* Counters                                                                *)
(***************************************************************************)
\* A sum of less is not more.
LEMMA SumBelow ==
  ASSUME NEW S, IsFiniteSet(S), NEW f \in [S -> Nat], NEW g \in [S -> Nat],
         \A x \in S : f[x] <= g[x]
  PROVE  SumOver(f) <= SumOver(g)
<1>1. \A x \in S : 1..f[x] \subseteq 1..g[x]
  <2> SUFFICES ASSUME NEW x \in S, NEW k \in 1..f[x] PROVE k \in 1..g[x]
    OBVIOUS
  <2>1. f[x] \in Nat /\ g[x] \in Nat /\ f[x] <= g[x]
    OBVIOUS
  <2> QED BY <2>1
<1>2. DOMAIN f = S /\ DOMAIN g = S
  OBVIOUS
<1>3. Cells(f) \subseteq Cells(g)
  <2> SUFFICES ASSUME NEW x \in S, NEW c \in {x} \X (1..f[x]) PROVE c \in Cells(g)
    BY <1>2 DEF Cells
  <2>1. c \in {x} \X (1..g[x])
    BY <1>1
  <2> QED BY <1>2, <2>1 DEF Cells
<1>4. /\ SumOver(f) = Cardinality(Cells(f)) /\ SumOver(g) = Cardinality(Cells(g))
      /\ IsFiniteSet(Cells(g))
  BY SumIsCells, CellsFinite
<1> QED BY <1>3, <1>4, FS_Subset

\* What has at most one more in one place sums to at most one more.
LEMMA SumOneMore ==
  ASSUME NEW S, IsFiniteSet(S), NEW f \in [S -> Nat], NEW h \in [S -> Nat], NEW x \in S,
         h[x] <= f[x] + 1, \A y \in S : y # x => h[y] <= f[y]
  PROVE  SumOver(h) <= SumOver(f) + 1
<1> DEFINE g == [f EXCEPT ![x] = @ + 1]
<1>1. g \in [S -> Nat]
  OBVIOUS
<1>2. SumOver(g) = SumOver(f) + 1
  BY SumFacts
<1>3. \A y \in S : h[y] <= g[y]
  OBVIOUS
<1> HIDE DEF g
<1>4. SumOver(h) <= SumOver(g)
  BY <1>1, <1>3, SumBelow
<1> QED BY <1>2, <1>4

\* The columns of the buckets.
Asked(st) == [b \in 0..(RateBuckets - 1) |-> st.buckets[b].opportunities]
Heard(st) == [b \in 0..(RateBuckets - 1) |-> st.buckets[b].received]

\* Nothing is received that was no opportunity, and the buckets count nothing that the
\* lifetime counters do not.
Tallied(st) ==
  /\ Partitioned(st)
  /\ \A c \in Channels : st.channel[c].received <= st.channel[c].opportunities
  /\ \A b \in 0..(RateBuckets - 1) : Heard(st)[b] <= Asked(st)[b]
  /\ SumOver(Asked(st)) <= st.opportunities
  /\ SumOver(Heard(st)) <= st.outcome["received"]

TallyInv ==
  /\ \A id \in StationIDs : Tallied(stats[id])
  /\ Working => \A i \in DOMAIN state.stations : Tallied(batch.stats[i])

\* The columns have finitely many numbers.
LEMMA ColumnTypes ==
  ASSUME NEW st \in Stats
  PROVE  /\ IsFiniteSet(0..(RateBuckets - 1))
         /\ Asked(st) \in [0..(RateBuckets - 1) -> Nat]
         /\ Heard(st) \in [0..(RateBuckets - 1) -> Nat]
         /\ SumOver(Asked(st)) \in Nat /\ SumOver(Heard(st)) \in Nat
<1>1. IsFiniteSet(0..(RateBuckets - 1))
  BY LimitsAssumption, FS_Interval
<1>2. \A b \in 0..(RateBuckets - 1) :
        st.buckets[b].opportunities \in Nat /\ st.buckets[b].received \in Nat
  BY DEF Stats
<1>3. /\ Asked(st) \in [0..(RateBuckets - 1) -> Nat]
      /\ Heard(st) \in [0..(RateBuckets - 1) -> Nat]
  BY <1>2 DEF Asked, Heard
<1> QED BY <1>1, <1>3, SumIsCells

\* A new station has counted nothing.
LEMMA NothingTallied == Tallied(NewStats)
<1> DEFINE Slots == 0..(RateBuckets - 1)
<1>1. 0 \in Nat
  OBVIOUS
<1>2. Partitioned(NewStats)
  BY <1>1, NothingFiled DEF Accounts
<1>3. NewStats \in Stats
  BY NewStatsType
<1>4. /\ NewStats.opportunities = 0 /\ NewStats.outcome["received"] = 0
      /\ \A c \in Channels : NewStats.channel[c].opportunities = 0
                             /\ NewStats.channel[c].received = 0
  BY DEF NewStats, Outcomes
<1>5. \A b \in Slots : Asked(NewStats)[b] = 0 /\ Heard(NewStats)[b] = 0
  BY DEF NewStats, Asked, Heard
<1>6. /\ IsFiniteSet(Slots) /\ Asked(NewStats) \in [Slots -> Nat]
      /\ Heard(NewStats) \in [Slots -> Nat]
  BY <1>3, ColumnTypes
<1>7. SumOver(Asked(NewStats)) = 0 /\ SumOver(Heard(NewStats)) = 0
  BY <1>5, <1>6, SumFacts
<1> QED BY <1>2, <1>4, <1>5, <1>7 DEF Tallied

\* One more opportunity: its bucket counts one more, or starts again from it.
LEMMA CountTallied ==
  ASSUME NEW st \in Stats, NEW outcome \in Outcomes, NEW channel \in Channels,
         NEW second \in Nat, Tallied(st)
  PROVE  Tallied(Count(st, outcome, channel, second))
<1> DEFINE got == outcome = "received"
           new == Count(st, outcome, channel, second)
           slot == second % RateBuckets
           Slots == 0..(RateBuckets - 1)
<1>1. /\ new \in Stats /\ Partitioned(new)
      /\ new.outcome["received"] = st.outcome["received"] + Bump(got)
      /\ new.opportunities = st.opportunities + 1
  <2>1. new.opportunities = st.opportunities + 1
    BY DEF Count, Stats
  <2> QED BY <2>1, CountType, CountPartitioned, CountReceived DEF Tallied
<1>2. \A c \in Channels : new.channel[c].received <= new.channel[c].opportunities
  <2>1. /\ st.channel \in [Channels -> [opportunities : Nat, received : Nat]]
        /\ new.channel = [st.channel EXCEPT
                            ![channel] = [opportunities |-> @.opportunities + 1,
                                          received |-> @.received + Bump(got)]]
    BY DEF Count, Stats
  <2>2. Bump(got) \in 0..1
    BY DEF Bump
  <2> HIDE DEF new, got
  <2> SUFFICES ASSUME NEW c \in Channels
               PROVE  new.channel[c].received <= new.channel[c].opportunities
    OBVIOUS
  <2>3. /\ st.channel[c].received \in Nat /\ st.channel[c].opportunities \in Nat
        /\ st.channel[c].received <= st.channel[c].opportunities
    BY <2>1 DEF Tallied
  <2>4. CASE c = channel
    <3>1. /\ new.channel[c].opportunities = st.channel[c].opportunities + 1
          /\ new.channel[c].received = st.channel[c].received + Bump(got)
      BY <2>1, <2>4
    <3> QED BY <2>2, <2>3, <3>1
  <2>5. CASE c # channel
    <3>1. new.channel[c] = st.channel[c]
      BY <2>1, <2>5
    <3> QED BY <2>3, <3>1
  <2> QED BY <2>4, <2>5
<1>3. /\ slot \in Slots
      /\ \A b \in Slots :
           /\ b # slot => Asked(new)[b] = Asked(st)[b] /\ Heard(new)[b] = Heard(st)[b]
           /\ b = slot =>
                \/ /\ Asked(new)[b] = Asked(st)[b] + 1
                   /\ Heard(new)[b] = Heard(st)[b] + Bump(got)
                \/ Asked(new)[b] = 1 /\ Heard(new)[b] = Bump(got)
  <2>1. /\ slot \in Slots
        /\ \A b \in Slots : b # slot => new.buckets[b] = st.buckets[b]
        /\ \/ /\ new.buckets[slot].opportunities = st.buckets[slot].opportunities + 1
              /\ new.buckets[slot].received = st.buckets[slot].received + Bump(got)
           \/ new.buckets[slot].opportunities = 1 /\ new.buckets[slot].received = Bump(got)
    <3>1. /\ slot \in Slots
          /\ \A b \in Slots : b # slot => new.buckets[b] = st.buckets[b]
          /\ st.buckets[slot].second = second =>
               /\ new.buckets[slot].opportunities = st.buckets[slot].opportunities + 1
               /\ new.buckets[slot].received = st.buckets[slot].received + Bump(got)
          /\ st.buckets[slot].second # second =>
               new.buckets[slot].opportunities = 1 /\ new.buckets[slot].received = Bump(got)
      BY BucketCounted
    <3> HIDE DEF new, slot, got
    <3> QED BY <3>1
  <2> HIDE DEF new, slot, got
  <2> QED BY <2>1 DEF Asked, Heard
<1> HIDE DEF new, slot
<1>4. /\ IsFiniteSet(Slots)
      /\ Asked(st) \in [Slots -> Nat] /\ Heard(st) \in [Slots -> Nat]
      /\ Asked(new) \in [Slots -> Nat] /\ Heard(new) \in [Slots -> Nat]
      /\ SumOver(Asked(st)) \in Nat /\ SumOver(Heard(st)) \in Nat
      /\ SumOver(Asked(new)) \in Nat /\ SumOver(Heard(new)) \in Nat
  BY <1>1, ColumnTypes
<1>5. Bump(got) \in 0..1 /\ (got => Bump(got) = 1) /\ (~got => Bump(got) = 0)
  BY DEF Bump
<1> HIDE DEF got
<1>6. \A b \in Slots : Heard(new)[b] <= Asked(new)[b]
  <2> SUFFICES ASSUME NEW b \in Slots PROVE Heard(new)[b] <= Asked(new)[b]
    OBVIOUS
  <2>1. Heard(st)[b] <= Asked(st)[b] /\ Heard(st)[b] \in Nat /\ Asked(st)[b] \in Nat
    BY <1>4 DEF Tallied
  <2> QED BY <1>3, <1>5, <2>1
<1>7. SumOver(Asked(new)) <= SumOver(Asked(st)) + 1
  <2> DEFINE f == Asked(st)
             h == Asked(new)
  <2>1. f \in [Slots -> Nat] /\ h \in [Slots -> Nat]
    BY <1>4
  <2> HIDE DEF f, h
  <2>2. \A b \in Slots : f[b] \in Nat
    BY <2>1
  <2>3. \A b \in Slots : (b = slot => h[b] = f[b] + 1 \/ h[b] = 1) /\ (b # slot => h[b] = f[b])
    BY <1>3 DEF f, h
  <2>4. h[slot] <= f[slot] + 1 /\ \A b \in Slots : b # slot => h[b] <= f[b]
    BY <1>3, <2>2, <2>3
  <2>5. SumOver(h) <= SumOver(f) + 1
    BY <1>3, <1>4, <2>1, <2>4, SumOneMore
  <2> QED BY <2>5 DEF f, h
<1>8. SumOver(Heard(new)) <= SumOver(Heard(st)) + Bump(got)
  <2> DEFINE f == Heard(st)
             h == Heard(new)
  <2>1. f \in [Slots -> Nat] /\ h \in [Slots -> Nat]
    BY <1>4
  <2> HIDE DEF f, h
  <2>2. \A b \in Slots : f[b] \in Nat
    BY <2>1
  <2>3. \A b \in Slots : /\ b = slot => h[b] = f[b] + Bump(got) \/ h[b] = Bump(got)
                         /\ b # slot => h[b] = f[b]
    BY <1>3 DEF f, h
  <2>4. CASE got
    <3>1. h[slot] <= f[slot] + 1 /\ \A b \in Slots : b # slot => h[b] <= f[b]
      <4>1. Bump(got) = 1
        BY <1>5, <2>4
      <4>2. h[slot] = f[slot] + 1 \/ h[slot] = 1
        BY <1>3, <2>3, <4>1
      <4>3. \A b \in Slots : b # slot => h[b] = f[b]
        BY <2>3
      <4> QED BY <1>3, <2>2, <4>2, <4>3
    <3>2. SumOver(h) <= SumOver(f) + 1
      BY <1>3, <1>4, <2>1, <3>1, SumOneMore
    <3> QED BY <1>5, <2>4, <3>2 DEF f, h
  <2>5. CASE ~got
    <3>1. \A b \in Slots : h[b] <= f[b]
      BY <1>3, <1>5, <2>2, <2>3, <2>5
    <3>2. SumOver(h) <= SumOver(f)
      BY <1>4, <2>1, <3>1, SumBelow
    <3>3. SumOver(f) \in Nat
      BY <1>4 DEF f
    <3> QED BY <1>5, <2>5, <3>2, <3>3 DEF f, h
  <2> QED BY <2>4, <2>5
<1>9. SumOver(Asked(new)) <= new.opportunities
  <2>1. SumOver(Asked(st)) <= st.opportunities /\ st.opportunities \in Nat
    BY DEF Tallied, Stats
  <2> QED BY <1>1, <1>4, <1>7, <2>1
<1>10. SumOver(Heard(new)) <= new.outcome["received"]
  <2>1. SumOver(Heard(st)) <= st.outcome["received"]
    BY DEF Tallied
  <2>2. st.outcome["received"] \in Nat
    BY DEF Stats, Outcomes
  <2> QED BY <1>1, <1>4, <1>5, <1>8, <2>1, <2>2
<1> QED BY <1>1, <1>2, <1>6, <1>9, <1>10 DEF Tallied, new

\* A step that counts nothing.
LEMMA TallySame ==
  ASSUME TallyInv, UNCHANGED <<state, stats>>, Working' => Working /\ batch'.stats = batch.stats
  PROVE  TallyInv'
<1>1. StationIDs' = StationIDs
  BY DEF StationIDs
<1> QED BY <1>1 DEF TallyInv

\* A call begins with what is committed.
LEMMA TallyBegin ==
  ASSUME TypeInv, TallyInv, UNCHANGED <<state, stats>>,
         batch' = StageReceptions(state.stations)
  PROVE  TallyInv'
<1>1. StationIDs' = StationIDs
  BY DEF StationIDs
<1>2. ASSUME NEW i \in DOMAIN state.stations PROVE Tallied(batch'.stats[i])
  <2>1. batch'.stats[i] = stats[state.stations[i].id] /\ state.stations[i].id \in StationIDs
    BY StationFacts DEF StageReceptions
  <2> QED BY <2>1 DEF TallyInv
<1> QED BY <1>1, <1>2 DEF TallyInv

\* Edits between calls count nothing at the stations that stay.
LEMMA TallyEdit ==
  ASSUME TallyInv, ~Working',
         \A id \in StationIDs' : \/ id \in StationIDs /\ stats'[id] = stats[id]
                                 \/ stats'[id] = NewStats
  PROVE  TallyInv'
<1>1. ASSUME NEW id \in StationIDs' PROVE Tallied(stats'[id])
  BY NothingTallied DEF TallyInv
<1> QED BY <1>1 DEF TallyInv

\* Only the station that is asked counts.
LEMMA TallyReceive ==
  ASSUME TypeInv, HistoryInv, ClockInv, CoherentInv, RingInv, TallyInv,
         NEW outcome \in Outcomes, Receive(outcome)
  PROVE  TallyInv'
<1>1. /\ UNCHANGED <<state, stats, next>> /\ pc = "receive" /\ Working
      /\ loop.station <= Len(next.stations)
  BY DEF Receive, Working
<1>2. \E i \in DOMAIN state.stations : i = loop.station
  <2>1. loop \in LoopRecord /\ next.stations = state.stations /\ loop.station >= 1
    BY <1>1 DEF TypeInv, TypeOK, ControlTypeOK, StagedShape, SameStations
  <2>2. loop.station \in Nat
    BY <2>1 DEF LoopRecord
  <2> QED BY <1>1, <2>1, <2>2, StationFacts
<1>3. PICK i \in DOMAIN state.stations : i = loop.station
  BY <1>2
<1> DEFINE t == Last(reports)
           second == t.timestamp \div TickInterval
           old == batch.stats[i]
           counted == Count(old, outcome, t.channel, second)
<1>4. t \in Message /\ t.timestamp = Now /\ Now \in Nat /\ t.channel \in Channels
  BY <1>1, ReportFacts DEF Message
<1>5. batch \in BatchRecord /\ batch.stats \in Seq(Stats) /\ DOMAIN batch.stats = DOMAIN state.stations
  <2>1. /\ batch \in BatchRecord /\ batch.stats \in Seq(Stats)
        /\ Len(batch.stats) = Len(state.stations)
    BY <1>1 DEF TypeInv, TypeOK, BatchTypeOK, StagedShape, BatchRecord
  <2> QED BY <2>1, StationFacts, LenProperties
<1>6. batch'.stats = [batch.stats EXCEPT ![i] = counted]
  BY <1>3, <1>5 DEF Receive, BatchRecord
<1>7. Tallied(counted)
  <2>1. second \in Nat
    <3>1. Now \in Nat /\ Now <= Now
      BY <1>4
    <3> QED BY <1>4, <3>1, SecondsOrdered
  <2>2. old \in Stats /\ Tallied(old)
    BY <1>1, RingFacts DEF TallyInv
  <2> HIDE DEF old, second, t
  <2> QED BY <1>4, <2>1, <2>2, CountTallied DEF t
<1> HIDE DEF counted
<1>8. ASSUME NEW j \in DOMAIN state.stations PROVE Tallied(batch'.stats[j])
  <2>1. CASE j = i
    BY <1>5, <1>6, <1>7, <2>1
  <2>2. CASE j # i
    <3>1. batch'.stats[j] = batch.stats[j]
      BY <1>5, <1>6, <2>2
    <3> QED BY <1>1, <3>1 DEF TallyInv
  <2> QED BY <2>1, <2>2
<1>9. StationIDs' = StationIDs
  BY <1>1 DEF StationIDs
<1> QED BY <1>1, <1>8, <1>9 DEF TallyInv

\* commit publishes what was counted.
LEMMA TallyCommit ==
  ASSUME TypeInv, TallyInv, Commit
  PROVE  TallyInv'
<1>1. /\ Working /\ ~Working'
      /\ stats' = [id \in StationIDs |-> batch.stats[StationIndex(id)]]
  BY DEF Commit, Working
<1>2. state'.stations = state.stations
  BY <1>1 DEF Commit, StateRecord, TypeInv, TypeOK, StateTypeOK, StagedShape, SameStations
<1>3. StationIDs' = StationIDs
  BY <1>2 DEF StationIDs
<1>4. ASSUME NEW id \in StationIDs PROVE Tallied(stats'[id])
  <2>1. StationIndex(id) \in DOMAIN state.stations
    BY StationIndexType
  <2> QED BY <1>1, <2>1 DEF TallyInv
<1> QED BY <1>1, <1>3, <1>4 DEF TallyInv

\* No station has counted anything in a new run.
LEMMA TallyInit == Init => TallyInv
<1> SUFFICES ASSUME Init PROVE TallyInv
  OBVIOUS
<1>1. /\ DOMAIN state.stations = DOMAIN InitialStations
      /\ \A i \in DOMAIN InitialStations : state.stations[i].id = i
      /\ stats = [id \in DOMAIN InitialStations |-> NewStats]
      /\ batch = StageReceptions(state.stations)
  BY DEF Init, NewStation
<1>2. StationIDs = DOMAIN InitialStations
  BY <1>1 DEF StationIDs
<1>3. /\ \A id \in StationIDs : stats[id] = NewStats
      /\ \A i \in DOMAIN state.stations : batch.stats[i] = NewStats
  BY <1>1, <1>2 DEF StageReceptions
<1> QED BY <1>3, NothingTallied DEF TallyInv

\* No step miscounts.
LEMMA TallyStep ==
  ASSUME TypeInv, TypeInv', HistoryInv, ClockInv, CoherentInv, RingInv, TallyInv, TotalsInv,
         [Next]_vars
  PROVE  TallyInv' /\ TotalsInv'
<1>1. ASSUME \/ \E count \in 0..MaxVessels : BeginSetCount(count)
             \/ \E delta \in VirtualDeltas : BeginAdvance(delta)
             \/ \E delta \in RealDeltas : BeginElapse(delta)
      PROVE  TallyInv' /\ TotalsInv'
  BY <1>1, BeginFacts, TallyBegin, TotalsBegin
<1>2. ASSUME \/ \E speed \in Speeds : SetSpeed(speed)
             \/ \E expected \in FirstRevision..MaxRevision, d \in Definitions : AddStation(expected, d)
             \/ \E expected \in FirstRevision..MaxRevision, id \in StationIDs, d \in Definitions : UpdateStation(expected, id, d)
             \/ \E expected \in FirstRevision..MaxRevision, id \in StationIDs : RemoveStation(expected, id)
      PROVE  TallyInv' /\ TotalsInv'
  <2>1. /\ pc = "idle" /\ pc' = "idle" /\ totals' = totals
        /\ state'.sequence = state.sequence
        /\ \A id \in StationIDs' : \/ id \in StationIDs /\ stats'[id] = stats[id]
                                   \/ id \notin StationIDs /\ stats'[id] = NewStats
    BY <1>2, EditFacts
  <2>2. ~Working'
    BY <2>1 DEF Working
  <2> QED BY <2>1, <2>2, TallyEdit, TotalsIdle
<1>3. ASSUME Spawn \/ TickVessel \/ TickEnd \/ ReceiveEnd PROVE TallyInv' /\ TotalsInv'
  <2>1. Working /\ UNCHANGED <<state, stats>>
    BY <1>3 DEF Spawn, TickVessel, TickEnd, ReceiveEnd, Send, Working
  <2>2. batch'.stats = batch.stats
    <3>1. batch \in BatchRecord
      BY DEF TypeInv, TypeOK, BatchTypeOK, BatchRecord
    <3> QED BY <1>3, <3>1 DEF Spawn, TickVessel, TickEnd, ReceiveEnd, Send, BatchRecord
  <2> QED BY <1>3, <2>1, <2>2, TallySame, TotalsWorking
<1>4. ASSUME SpawnFails \/ Cancel \/ ReceiveFails PROVE TallyInv' /\ TotalsInv'
  <2>1. /\ state' = state /\ UNCHANGED <<stats, totals>> /\ pc' = "idle" /\ pc # "apply"
        /\ ~Working'
    BY <1>4 DEF SpawnFails, Cancel, ReceiveFails, Drop, Working
  <2>2. StationIDs' = StationIDs
    BY <2>1 DEF StationIDs
  <2> QED BY <2>1, <2>2, TallySame, TotalsIdle
<1>5. ASSUME NEW outcome \in Outcomes, Receive(outcome) PROVE TallyInv' /\ TotalsInv'
  BY <1>5, TallyReceive, TotalsReceive
<1>6. ASSUME Commit PROVE TallyInv' /\ TotalsInv'
  BY <1>6, TallyCommit, TotalsCommit
<1>7. ASSUME ApplyRecord \/ Finish PROVE TallyInv' /\ TotalsInv'
  <2>1. UNCHANGED <<state, stats>> /\ ~Working'
    BY <1>7 DEF ApplyRecord, Finish, Drop, Working
  <2> QED BY <1>7, <2>1, TallySame, TotalsApply
<1>8. CASE UNCHANGED vars
  <2>1. UNCHANGED <<state, stats, totals, pc, next, batch, loop>>
    BY <1>8 DEF vars
  <2>2. /\ StationIDs' = StationIDs /\ Working' = Working /\ Total' = Total
        /\ StagedTotal' = StagedTotal
    BY <2>1 DEF StationIDs, Working, Total, StagedTotal, StationIndex
  <2>3. TallyInv'
    BY <2>1, <2>2, TallySame
  <2>4. TotalsInv'
    BY <2>1, <2>2 DEF TotalsInv
  <2> QED BY <2>3, <2>4
<1> QED BY <1>1, <1>2, <1>3, <1>4, <1>5, <1>6, <1>7, <1>8 DEF Next

\* A new run has received nothing.
LEMMA TotalsInit == Init => TotalsInv
<1> SUFFICES ASSUME Init PROVE TotalsInv
  OBVIOUS
<1>0. TypeInv
  BY TypeInit
<1>1. /\ DOMAIN state.stations = DOMAIN InitialStations
      /\ \A i \in DOMAIN InitialStations : state.stations[i].id = i
      /\ state.sequence = 0 /\ next.sequence = 0
      /\ pc = "spawn" /\ loop.heard = FALSE
      /\ totals.receptions = 0 /\ totals.receivedTransmissions = 0
      /\ batch = StageReceptions(state.stations)
      /\ stats = [id \in DOMAIN InitialStations |-> NewStats]
  BY DEF Init, NewStation, NoLoop
<1>2. StationIDs = DOMAIN InitialStations
  BY <1>1 DEF StationIDs
<1>3. /\ \A id \in StationIDs : stats[id] = NewStats
      /\ \A i \in DOMAIN state.stations : batch.stats[i] = NewStats
      /\ batch.receptions = 0 /\ batch.receivedTransmissions = 0
  BY <1>1, <1>2 DEF StageReceptions
<1>4. Working
  BY <1>1 DEF Working
<1>5. Total = 0 /\ StagedTotal = 0
  <2> DEFINE f == [id \in StationIDs |-> stats[id].lastReception]
             g == [id \in StationIDs |-> batch.stats[StationIndex(id)].lastReception]
  <2>1. IsFiniteSet(StationIDs) /\ f \in [StationIDs -> Nat] /\ g \in [StationIDs -> Nat]
    BY <1>0, <1>4, HeardFacts
  <2>2. NewStats.lastReception = 0
    BY DEF NewStats
  <2>3. ASSUME NEW id \in StationIDs PROVE f[id] = 0 /\ g[id] = 0
    BY <1>3, <2>2, StationIndexType
  <2> HIDE DEF f, g
  <2>4. SumOver(f) = 0 /\ SumOver(g) = 0
    BY <2>1, <2>3, SumFacts
  <2> QED BY <2>4 DEF f, g, Total, StagedTotal
<1> QED BY <1>1, <1>3, <1>5 DEF TotalsInv, Bump

-----------------------------------------------------------------------------
(***************************************************************************)
(* What snapshots rest on                                                  *)
(***************************************************************************)
\* What the display takes for granted, beyond what the store needs for itself.
SnapshotInv == StagedRevision /\ LimitsInv /\ TallyInv /\ TotalsInv /\ SourceInv

\* What a snapshot rests on holds in every reachable state.
LEMMA SnapshotAlways == Spec => [](EngineInv /\ SnapshotInv)
<1>1. Init => SnapshotInv
  BY RevisionInit, LimitsInit, TallyInit, TotalsInit, SourceInit DEF SnapshotInv
<1>2. EngineInv /\ EngineInv' /\ SnapshotInv /\ [Next]_vars => SnapshotInv'
  BY RevisionStep, LimitsStep, TallyStep, SourceStep DEF EngineInv, StoreInv, SnapshotInv
<1> QED BY <1>1, <1>2, StoreAlways, PTL DEF Spec

-----------------------------------------------------------------------------
(***************************************************************************)
(* Snapshots: stations                                                     *)
(***************************************************************************)
\* What is known of a state that is read.
Readable == TypeInv /\ CoherentInv /\ StoreInv /\ SnapshotInv /\ Idle

\* The IDs are numbers that the API can order, and there are as many as stations.
LEMMA KnownStations ==
  ASSUME Readable
  PROVE  /\ StationIDs \in SUBSET (1..MaxRevision) /\ IsFiniteSet(StationIDs)
         /\ Cardinality(StationIDs) \in Nat /\ Cardinality(StationIDs) <= MaxStations
         /\ \A id \in StationIDs :
              /\ StationIndex(id) \in DOMAIN state.stations /\ StationIndex(id) \in Nat
              /\ StationOf(id) = state.stations[StationIndex(id)]
              /\ StationOf(id).id = id /\ StationOf(id) \in Station
         /\ \A i \in DOMAIN state.stations :
              state.stations[i] = StationOf(state.stations[i].id)
<1>0. /\ TypeInv /\ LimitsInv /\ state.lastStationID \in Nat
      /\ state.stations \in Seq(Station) /\ Len(state.stations) \in Nat
      /\ DOMAIN state.stations = 1..Len(state.stations)
      /\ MaxRevision \in Nat /\ MaxStations \in Nat
  BY StateFields, LimitsAssumption, LenProperties DEF Readable, SnapshotInv
<1>1. ASSUME NEW id \in StationIDs PROVE id \in 1..MaxRevision
  <2>1. PICK i \in DOMAIN state.stations : state.stations[i].id = id
    BY DEF StationIDs
  <2>2. id \in Nat /\ id <= state.lastStationID /\ id >= 1 /\ state.lastStationID <= MaxRevision
    BY <1>0, <2>1, StationFacts DEF TypeInv, StationIDsOrdered, LimitsInv
  <2> QED BY <1>0, <2>2
<1>2. IsFiniteSet(StationIDs)
  BY <1>0, IDsFinite DEF StationIDs
<1>3. Cardinality(StationIDs) \in Nat /\ Cardinality(StationIDs) <= MaxStations
  <2> DEFINE n == Len(state.stations)
             f == [i \in 1..n |-> state.stations[i].id]
  <2>1. f \in Surjection(1..n, StationIDs)
    <3>1. \A i \in 1..n : f[i] \in StationIDs
      BY <1>0, StationFacts
    <3>2. \A id \in StationIDs : \E i \in 1..n : f[i] = id
      BY <1>0 DEF StationIDs
    <3> HIDE DEF n
    <3> QED BY <3>1, <3>2 DEF Surjection
  <2>2. IsFiniteSet(1..n) /\ Cardinality(1..n) = n
    BY <1>0, FS_Interval
  <2> HIDE DEF f
  <2>3. Cardinality(StationIDs) <= n
    BY <2>1, <2>2, FS_Surjection
  <2>4. Cardinality(StationIDs) \in Nat
    BY <1>2, FS_CardinalityType
  <2> QED BY <1>0, <2>3, <2>4 DEF LimitsInv
<1>4. ASSUME NEW id \in StationIDs
      PROVE  /\ StationIndex(id) \in DOMAIN state.stations /\ StationIndex(id) \in Nat
             /\ StationOf(id) = state.stations[StationIndex(id)]
             /\ StationOf(id).id = id /\ StationOf(id) \in Station
  <2>1. StationIndex(id) \in DOMAIN state.stations /\ state.stations[StationIndex(id)].id = id
    BY StationIndexType
  <2>2. StationIndex(id) \in Nat
    BY <1>0, <2>1
  <2>3. state.stations[StationIndex(id)] \in Station
    BY <1>0, <2>1, StationFacts
  <2> QED BY <2>1, <2>2, <2>3 DEF StationOf
<1>5. ASSUME NEW i \in DOMAIN state.stations
      PROVE  state.stations[i] = StationOf(state.stations[i].id)
  <2>1. state.stations[i].id \in StationIDs
    BY <1>0, StationFacts
  <2>2. /\ StationIndex(state.stations[i].id) \in DOMAIN state.stations
        /\ state.stations[StationIndex(state.stations[i].id)].id = state.stations[i].id
    BY <2>1, StationIndexType
  <2>3. StationIndex(state.stations[i].id) = i
    BY <1>0, <2>2, StationFacts
  <2> QED BY <2>3 DEF StationOf
<1>6. StationIDs \in SUBSET (1..MaxRevision)
  BY <1>1
<1> QED BY <1>2, <1>3, <1>4, <1>5, <1>6

\* A stored reception names a station, a sequence and a transmission that a snapshot
\* knows, at revisions and an instant that they had.
LEMMA StoredKnown ==
  ASSUME Readable, NEW r \in Stored
  PROVE  /\ r \in ReceptionRecord /\ r.station \in StationIDs
         /\ r.sequence \in Nat /\ 1 <= r.sequence
         /\ stats[r.station].lastReception \in Nat
         /\ r.sequence <= stats[r.station].lastReception
         /\ history[r.station] # <<>>
         /\ r.transmission \in Nat /\ 1 <= r.transmission /\ r.transmission <= state.sequence
         /\ r.timestamp \in Nat /\ r.timestamp <= state.elapsed
         /\ r.channel \in Channels
         /\ r.rfRevision \in Nat /\ 1 <= r.rfRevision
         /\ r.rfRevision <= StationOf(r.station).rfRevision
         /\ r.configRevision \in Nat /\ 1 <= r.configRevision
         /\ r.configRevision <= StationOf(r.station).configRevision
         /\ r.receiver.enabled
<1>0. TypeInv /\ CoherentInv /\ RingInv /\ ObservationsInv /\ ObservedFits /\ pc = "idle"
  BY DEF Readable, StoreInv, SnapshotInv, SourceInv, Idle
<1>1. /\ r \in ReceptionRecord
      /\ \E i \in DOMAIN state.stations : Fits(r, state.stations[i])
      /\ 1 <= r.sequence /\ r.sequence <= Top(r.station)
      /\ r.transmission <= state.sequence
      /\ r.station \in StationIDs /\ r.timestamp <= state.elapsed
  BY <1>0, StoredFacts
<1>2. /\ stats[r.station].lastReception = Top(r.station) /\ Top(r.station) \in Nat
  BY <1>0, <1>1, RingFacts DEF RingInv, StatsExact
<1>3. history[r.station] # <<>>
  <2>1. r.sequence \in Nat
    BY <1>1, ReceptionFields
  <2>2. Top(r.station) # 0
    BY <1>1, <1>2, <2>1
  <2> QED BY <2>2 DEF Top
<1>4. PICK i \in DOMAIN state.stations : Fits(r, state.stations[i])
  BY <1>1
<1>5. state.stations[i] = StationOf(r.station)
  BY <1>4, KnownStations DEF Fits
<1>6. /\ 1 <= r.rfRevision /\ r.rfRevision <= StationOf(r.station).rfRevision
      /\ 1 <= r.configRevision /\ r.configRevision <= StationOf(r.station).configRevision
      /\ 1 <= r.transmission /\ r.receiver.enabled
  BY <1>4, <1>5 DEF Fits, MadeUnder
<1>7. /\ r.channel \in Channels /\ r.rfRevision \in Nat /\ r.configRevision \in Nat
  BY <1>1 DEF ReceptionRecord
<1>8. r.receiver.enabled
  BY <1>6, Zenon
<1> QED BY <1>1, <1>2, <1>3, <1>6, <1>7, <1>8, ReceptionFields

\* The fields of a snapshot.
LEMMA SnapshotFields ==
  ASSUME NEW requested, NEW o, o = Observations(requested)
  PROVE  /\ o.revision = state.revision /\ o.stationRevision = state.stationRevision
         /\ o.now = state.elapsed /\ o.snapshotAt = state.elapsed
         /\ o.paused = (o.speed = 0)
         /\ o.selection = Sorted(Selected(requested), TextBefore)
         /\ o.stations = [k \in DOMAIN Sorted(StationIDs, TextBefore) |->
                            StationObservation(Sorted(StationIDs, TextBefore)[k])]
         /\ o.targets = ObservedTargets(Selected(requested))
         /\ o.recent = RecentReceptions(Selected(requested))
         /\ o.transmissions = state.sequence
         /\ o.receivedTransmissions = totals.receivedTransmissions
         /\ o.receptions = totals.receptions
         /\ o.currentTargets = Len(o.targets) - o.lostTargets
<1> DEFINE selected == Selected(requested)
           observed == ObservedTargets(selected)
           lost == {k \in DOMAIN observed : observed[k].status = "lost"}
           order == Sorted(StationIDs, TextBefore)
           listed == [k \in DOMAIN order |-> StationObservation(order[k])]
           recent == RecentReceptions(selected)
           selection == Sorted(selected, TextBefore)
<1>1. o = [revision |-> state.revision, stationRevision |-> state.stationRevision,
           snapshotAt |-> state.elapsed, now |-> state.elapsed, speed |-> state.speed,
           paused |-> state.speed = 0, selection |-> selection,
           stations |-> listed,
           targets |-> observed, recent |-> recent,
           transmissions |-> state.sequence,
           receivedTransmissions |-> totals.receivedTransmissions,
           receptions |-> totals.receptions,
           currentTargets |-> Len(observed) - Cardinality(lost),
           lostTargets |-> Cardinality(lost)]
  BY DEF Observations
<1>2. /\ o.targets = observed /\ o.lostTargets = Cardinality(lost)
      /\ o.currentTargets = Len(observed) - Cardinality(lost)
  <2> HIDE DEF listed, recent, selection, observed, lost
  <2> QED BY <1>1
<1>3. /\ o.revision = state.revision /\ o.stationRevision = state.stationRevision
      /\ o.now = state.elapsed /\ o.snapshotAt = state.elapsed
      /\ o.selection = selection /\ o.stations = listed
      /\ o.recent = recent /\ o.transmissions = state.sequence
      /\ o.receivedTransmissions = totals.receivedTransmissions
      /\ o.receptions = totals.receptions
  <2> HIDE DEF listed, recent, selection, observed, lost
  <2> QED BY <1>1
<1>4. o.currentTargets = Len(o.targets) - o.lostTargets
  <2> HIDE DEF observed, lost
  <2> QED BY <1>2
<1>5. o.paused = (o.speed = 0)
  <2> DEFINE speed == state.speed
             paused == speed = 0
  <2>1. o.speed = speed /\ o.paused = paused
    BY DEF Observations
  <2> QED BY <2>1, Zenon
<1> QED BY <1>2, <1>3, <1>4, <1>5, Zenon DEF listed, recent, selection, observed, order, selected

\* The lost targets that a snapshot counts.
LEMMA LostFields ==
  ASSUME NEW requested, NEW o, o = Observations(requested),
         NEW lost, lost = {k \in DOMAIN o.targets : o.targets[k].status = "lost"}
  PROVE  o.lostTargets = Cardinality(lost)
<1> DEFINE observed == ObservedTargets(Selected(requested))
           gone == {k \in DOMAIN observed : observed[k].status = "lost"}
           count == Cardinality(gone)
<1>1. o.lostTargets = count
  BY DEF Observations
<1>2. o.targets = observed
  BY SnapshotFields
<1>3. gone = lost
  <2> HIDE DEF observed
  <2> QED BY <1>2 DEF gone
<1> HIDE DEF gone
<1> QED BY <1>1, <1>3

\* The fields of a station's entry.
LEMMA StationFields ==
  ASSUME NEW id
  PROVE  LET s == StationObservation(id)
         IN /\ s.station = StationOf(id) /\ s.counters = stats[id]
            /\ s.recentOpportunities = RecentOpportunities(id)
            /\ s.recentReceived = RecentReceived(id)
            /\ s.recentDuration = Milliseconds(RecentDuration(id))
            /\ s.receiveRatio = Ratio(stats[id].outcome["received"], stats[id].opportunities)
            /\ s.recentReceiveRatio = Ratio(RecentReceived(id), RecentOpportunities(id))
            /\ s.opportunityRate = Ratio(RecentOpportunities(id), RecentDuration(id))
            /\ s.receptionRate = Ratio(RecentReceived(id), RecentDuration(id))
            /\ s.oldest = Oldest(id) /\ s.latest = Latest(id)
            /\ s.current = CountObservations(id, FALSE) /\ s.lost = CountObservations(id, TRUE)
BY DEF StationObservation

\* A snapshot lists every station once, by the text of its ID.
LEMMA StationsListed ==
  ASSUME Readable, NEW requested, NEW o, o = Observations(requested)
  PROVE  /\ Len(o.stations) = Cardinality(StationIDs)
         /\ Elements(o.stations) = {StationObservation(id) : id \in StationIDs}
         /\ \A k \in 2..Len(o.stations) :
              TextBefore(o.stations[k - 1].station.id, o.stations[k].station.id)
         /\ \A id \in StationIDs : /\ StationIn(o, id) = StationObservation(id)
                                   /\ StationObservation(id).station.id = id
<1> DEFINE order == Sorted(StationIDs, TextBefore)
           n == Cardinality(StationIDs)
           T == {StationObservation(id) : id \in StationIDs}
<1>1. StationIDs \in SUBSET (1..MaxRevision) /\ n \in Nat
  BY KnownStations
<1>2. Lists(order, StationIDs, ByText(StationIDs))
  BY <1>1, TextSorted
<1>3. o.stations = [k \in DOMAIN order |-> StationObservation(order[k])]
  BY SnapshotFields
<1> HIDE DEF order
<1>4. /\ DOMAIN order = 1..n
      /\ \A k \in 1..n : order[k] \in StationIDs
      /\ \A x \in StationIDs : \E k \in 1..n : order[k] = x
      /\ \A j, k \in 1..n : j < k => order[j] \in ByText(StationIDs)[order[k]]
  BY <1>2 DEF Lists
<1>5. \A j, k \in 1..n : j < k => TextBefore(order[j], order[k])
  BY <1>4 DEF ByText
<1>6. \A id \in StationIDs : StationObservation(id).station.id = id
  BY KnownStations, StationFields
<1> HIDE DEF n
<1>7. /\ o.stations \in [1..n -> T] /\ DOMAIN o.stations = 1..n
      /\ \A k \in 1..n : o.stations[k] = StationObservation(order[k])
  BY <1>3, <1>4
<1>8. Len(o.stations) = n
  <2> HIDE DEF T
  <2> QED BY <1>1, <1>7, Numbered
<1>9. Elements(o.stations) = T
  BY <1>4, <1>7 DEF Elements
<1>10. ASSUME NEW id \in StationIDs PROVE StationIn(o, id) = StationObservation(id)
  <2>1. \E s \in Elements(o.stations) : s.station.id = id
    BY <1>6, <1>9
  <2>2. StationIn(o, id) \in T /\ StationIn(o, id).station.id = id
    BY <1>9, <2>1, Zenon DEF StationIn
  <2> QED BY <1>6, <2>2
<1>11. ASSUME NEW k \in 2..n
       PROVE  TextBefore(o.stations[k - 1].station.id, o.stations[k].station.id)
  <2>1. k \in 1..n /\ k - 1 \in 1..n /\ k - 1 < k
    BY <1>1
  <2>2. o.stations[k - 1].station.id = order[k - 1] /\ o.stations[k].station.id = order[k]
    BY <1>4, <1>6, <1>7, <2>1
  <2> QED BY <1>5, <2>1, <2>2
<1> QED BY <1>6, <1>8, <1>9, <1>10, <1>11 DEF n

\* A target is observed once by each station, and its observations are current.
LEMMA ObservedOnce ==
  ASSUME Readable
  PROVE  /\ DOMAIN targets \in SUBSET Nat /\ IsFiniteSet(DOMAIN targets)
         /\ Cardinality(DOMAIN targets) \in Nat /\ Cardinality(DOMAIN targets) <= TargetLimit
         /\ \A m \in DOMAIN targets :
              /\ IsFiniteSet(targets[m].observations)
              /\ \A r \in targets[m].observations :
                   r.mmsi = m /\ r \in AllObservations(targets)
              /\ \A r, q \in targets[m].observations : r.station = q.station => r = q
         /\ \A r \in AllObservations(targets) :
              /\ r \in Stored /\ r.mmsi \in DOMAIN targets
              /\ r \in targets[r.mmsi].observations
              /\ state.elapsed - r.timestamp < ExpiryAge
<1>1. TypeInv /\ ObservationsInv /\ pc = "idle"
  BY DEF Readable, StoreInv, Idle
<1>2. TargetsType(targets) /\ TargetsFit(targets, state.elapsed)
  BY <1>1, ObservationFacts DEF ObservationsInv
<1>3. DOMAIN targets \in SUBSET Nat /\ \A m \in DOMAIN targets : IsFiniteSet(targets[m].observations)
  BY <1>2 DEF TargetsType
<1>4. /\ IsFiniteSet(DOMAIN targets) /\ Cardinality(DOMAIN targets) <= TargetLimit
      /\ Cardinality(DOMAIN targets) \in Nat
  BY <1>2, FS_CardinalityType DEF TargetsFit
<1>5. ASSUME NEW m \in DOMAIN targets
      PROVE  /\ \A r \in targets[m].observations :
                   r.mmsi = m /\ r \in AllObservations(targets)
             /\ \A r, q \in targets[m].observations : r.station = q.station => r = q
  BY <1>2 DEF TargetsFit, TargetSound, AllObservations
<1>6. ASSUME NEW r \in AllObservations(targets)
      PROVE  /\ r \in Stored /\ r.mmsi \in DOMAIN targets
             /\ r \in targets[r.mmsi].observations
             /\ state.elapsed - r.timestamp < ExpiryAge
  <2>1. PICK m \in DOMAIN targets : r \in targets[m].observations
    BY DEF AllObservations
  <2>2. r.mmsi = m
    BY <1>5, <2>1
  <2> QED BY <1>1, <2>1, <2>2 DEF Stored, ObservationsInv
<1> QED BY <1>3, <1>4, <1>5, <1>6

\* A station observes no more than the targets that there are.
LEMMA CountsBounded ==
  ASSUME Readable, NEW id
  PROVE  /\ IsFiniteSet({r \in AllObservations(targets) : r.station = id})
         /\ CountObservations(id, FALSE) \in Nat /\ CountObservations(id, TRUE) \in Nat
         /\ CountObservations(id, FALSE) + CountObservations(id, TRUE) <= TargetLimit
<1> DEFINE A == {r \in AllObservations(targets) : r.station = id}
           D == DOMAIN targets
           f == [r \in A |-> r.mmsi]
           lost == {r \in AllObservations(targets) : r.station = id /\ IsLost(r) = TRUE}
           current == {r \in AllObservations(targets) : r.station = id /\ IsLost(r) = FALSE}
<1>1. IsFiniteSet(D) /\ Cardinality(D) \in Nat /\ Cardinality(D) <= TargetLimit
  BY ObservedOnce
<1>2. f \in Injection(A, D)
  <2>1. \A r \in A : r.mmsi \in D /\ r \in targets[r.mmsi].observations /\ r.station = id
    BY ObservedOnce
  <2>2. \A r, q \in A : r.mmsi = q.mmsi => r = q
    <3> SUFFICES ASSUME NEW r \in A, NEW q \in A, r.mmsi = q.mmsi PROVE r = q
      OBVIOUS
    <3> HIDE DEF A, D
    <3>1. r.mmsi \in D /\ {r, q} \subseteq targets[r.mmsi].observations /\ r.station = q.station
      BY <2>1
    <3> QED BY <3>1, ObservedOnce DEF D
  <2> HIDE DEF A, D
  <2>3. f \in [A -> D] /\ \A r, q \in A : f[r] = f[q] => r = q
    BY <2>1, <2>2
  <2> QED BY <2>3 DEF Injection, IsInjective
<1> HIDE DEF f
<1>3. IsFiniteSet(A) /\ Cardinality(A) <= Cardinality(D)
  <2> HIDE DEF A, D
  <2> QED BY <1>1, <1>2, FS_Injection
<1>4. lost \in SUBSET A /\ current \in SUBSET A /\ lost \cap current = {}
  OBVIOUS
<1>5. /\ CountObservations(id, TRUE) = Cardinality(lost)
      /\ CountObservations(id, FALSE) = Cardinality(current)
  BY DEF CountObservations
<1> HIDE DEF lost, current
<1>6. IsFiniteSet(lost) /\ IsFiniteSet(current) /\ lost \cup current \in SUBSET A
  <2> HIDE DEF A
  <2> QED BY <1>3, <1>4, FS_Subset
<1>7. Cardinality(lost \cup current) = Cardinality(lost) + Cardinality(current)
  BY <1>4, <1>6, DisjointUnion
<1>8. Cardinality(lost \cup current) <= Cardinality(A)
  <2> HIDE DEF A
  <2> QED BY <1>3, <1>6, FS_Subset
<1>9. Cardinality(lost) \in Nat /\ Cardinality(current) \in Nat /\ Cardinality(A) \in Nat
  <2> HIDE DEF A
  <2> QED BY <1>3, <1>6, FS_CardinalityType
<1>10. TargetLimit \in Nat
  BY LimitsAssumption
<1>11. Cardinality(current) + Cardinality(lost) <= TargetLimit
  <2> HIDE DEF A, D
  <2> QED BY <1>1, <1>3, <1>7, <1>8, <1>9, <1>10
<1> QED BY <1>3, <1>5, <1>9, <1>11

\* What was received lately was an opportunity lately, and both were counted.
LEMMA RecentBounded ==
  ASSUME Readable, NEW id \in StationIDs
  PROVE  /\ RecentReceived(id) \in Nat /\ RecentOpportunities(id) \in Nat
         /\ RecentReceived(id) <= RecentOpportunities(id)
         /\ RecentOpportunities(id) <= stats[id].opportunities
         /\ RecentReceived(id) <= stats[id].outcome["received"]
<1> DEFINE st == stats[id]
           Slots == 0..(RateBuckets - 1)
           W == Window(id)
           asked == [b \in W |-> Asked(st)[b]]
           heard == [b \in W |-> Heard(st)[b]]
<1>1. st \in Stats /\ Tallied(st)
  BY DEF Readable, SnapshotInv, TallyInv, TypeInv, TypeOK, StatsTypeOK
<1>2. W \in SUBSET Slots
  BY <1>1 DEF Window, Stats
<1>3. RecentOpportunities(id) = SumOver(asked) /\ RecentReceived(id) = SumOver(heard)
  <2>1. asked = [b \in Window(id) |-> stats[id].buckets[b].opportunities]
    BY <1>2 DEF Asked
  <2>2. heard = [b \in Window(id) |-> stats[id].buckets[b].received]
    BY <1>2 DEF Heard
  <2> HIDE DEF asked, heard
  <2> QED BY <2>1, <2>2 DEF RecentOpportunities, RecentReceived
<1>4. /\ IsFiniteSet(Slots)
      /\ Asked(st) \in [Slots -> Nat] /\ Heard(st) \in [Slots -> Nat]
      /\ SumOver(Asked(st)) \in Nat /\ SumOver(Heard(st)) \in Nat
  BY <1>1, ColumnTypes
<1>5. \A b \in Slots : Heard(st)[b] <= Asked(st)[b]
  BY <1>1 DEF Tallied
<1>6. SumOver(Asked(st)) <= st.opportunities /\ SumOver(Heard(st)) <= st.outcome["received"]
  BY <1>1 DEF Tallied
<1>7. st.opportunities \in Nat /\ st.outcome["received"] \in Nat
  BY <1>1 DEF Stats, Outcomes
<1> HIDE DEF W, Slots, st
<1>8. SumOver(asked) <= SumOver(Asked(st)) /\ SumOver(heard) <= SumOver(Heard(st))
  <2> DEFINE f == Asked(st)
             g == Heard(st)
  <2>1. f \in [Slots -> Nat] /\ g \in [Slots -> Nat] /\ IsFiniteSet(Slots)
    BY <1>4
  <2>2. asked = [b \in W |-> f[b]] /\ heard = [b \in W |-> g[b]]
    OBVIOUS
  <2> HIDE DEF f, g, asked, heard
  <2>3. SumOver(asked) <= SumOver(f)
    BY <1>2, <2>1, <2>2, SumFacts
  <2>4. SumOver(heard) <= SumOver(g)
    BY <1>2, <2>1, <2>2, SumFacts
  <2> QED BY <2>3, <2>4 DEF f, g
<1>9. IsFiniteSet(W)
  BY <1>2, <1>4, FS_Subset
<1>10. asked \in [W -> Nat] /\ heard \in [W -> Nat] /\ \A b \in W : heard[b] <= asked[b]
  <2> DEFINE f == Asked(st)
             g == Heard(st)
  <2>1. f \in [Slots -> Nat] /\ g \in [Slots -> Nat] /\ \A b \in Slots : g[b] <= f[b]
    BY <1>4, <1>5
  <2> HIDE DEF f, g
  <2>2. \A b \in W : f[b] \in Nat /\ g[b] \in Nat /\ g[b] <= f[b]
    BY <1>2, <2>1
  <2> QED BY <2>2 DEF f, g
<1> HIDE DEF asked, heard
<1>11. /\ SumOver(heard) <= SumOver(asked) /\ SumOver(heard) \in Nat /\ SumOver(asked) \in Nat
  BY <1>9, <1>10, SumBelow, SumIsCells
<1>12. SumOver(asked) <= st.opportunities /\ SumOver(heard) <= st.outcome["received"]
  BY <1>4, <1>6, <1>7, <1>8, <1>11
<1> QED BY <1>3, <1>11, <1>12 DEF st

\* A quotient is null exactly over nothing, and at most 1 of a part.
LEMMA RatioNull ==
  ASSUME NEW part, NEW whole
  PROVE  (Ratio(part, whole) = Null) = (whole = 0)
<1>1. CASE whole = 0
  BY <1>1 DEF Ratio
<1>2. CASE whole # 0
  <2>1. Ratio(part, whole) = <<part, whole>>
    BY <1>2 DEF Ratio
  <2>2. <<part, whole>> # <<>>
    OBVIOUS
  <2> QED BY <1>2, <2>1, <2>2 DEF Null
<1> QED BY <1>1, <1>2

LEMMA RatioAccepted ==
  ASSUME NEW part \in Nat, NEW whole \in Nat, part <= whole
  PROVE  RatioValid(Ratio(part, whole), whole)
<1>1. ASSUME Ratio(part, whole) # Null
      PROVE  Ratio(part, whole)[1] \in 0..Ratio(part, whole)[2]
  <2>1. Ratio(part, whole) = <<part, whole>>
    BY <1>1 DEF Ratio
  <2> QED BY <2>1
<1> QED BY <1>1, RatioNull, Zenon DEF RatioValid

\* What was received was an opportunity.
LEMMA ReceivedBounded ==
  ASSUME NEW st \in Stats, Tallied(st)
  PROVE  /\ st.outcome["received"] \in Nat /\ st.opportunities \in Nat
         /\ st.outcome["received"] <= st.opportunities
<1> DEFINE f == [c \in Channels |-> st.channel[c].received]
           g == [c \in Channels |-> st.channel[c].opportunities]
<1>1. st.outcome["received"] = SumOver(f) /\ st.opportunities = SumOver(g)
  BY DEF Tallied, Partitioned
<1>2. f \in [Channels -> Nat] /\ g \in [Channels -> Nat] /\ \A c \in Channels : f[c] <= g[c]
  BY DEF Stats, Tallied
<1>3. IsFiniteSet(Channels)
  BY LabelsFinite
<1> HIDE DEF f, g
<1>4. SumOver(f) \in Nat /\ SumOver(g) \in Nat /\ SumOver(f) <= SumOver(g)
  BY <1>2, <1>3, SumBelow, SumIsCells
<1> QED BY <1>1, <1>4

\* The display's checks of a station's counters hold.
LEMMA CountersAccepted ==
  ASSUME Readable, NEW id \in StationIDs
  PROVE  CountersValid(StationObservation(id))
<1> DEFINE s == StationObservation(id)
           st == stats[id]
           latest == Latest(id)
           oldest == Oldest(id)
<1>1. /\ s.counters = st /\ s.recentOpportunities = RecentOpportunities(id)
      /\ s.recentReceived = RecentReceived(id)
      /\ s.recentDuration = Milliseconds(RecentDuration(id))
      /\ s.oldest = oldest /\ s.latest = latest
      /\ s.current = CountObservations(id, FALSE) /\ s.lost = CountObservations(id, TRUE)
  BY StationFields
<1>2. Tallied(st)
  BY DEF Readable, SnapshotInv, TallyInv
<1>3. RecentDuration(id) \in 0..(RateBuckets * TickInterval)
  <2>1. /\ StationOf(id).createdAt \in Nat /\ state.elapsed \in Nat
        /\ StationOf(id).createdAt <= state.elapsed
    <3>1. PICK i \in DOMAIN state.stations : state.stations[i] = StationOf(id)
      BY KnownStations
    <3>2. state.stations[i].createdAt \in Nat /\ state.stations[i].rfUpdatedAt \in Nat
      BY <3>1, KnownStations DEF Station
    <3>3. /\ state.stations[i].createdAt <= state.stations[i].rfUpdatedAt
          /\ state.stations[i].rfUpdatedAt <= state.elapsed
      BY DEF Readable, CoherentInv, StationsSound
    <3>4. state.elapsed \in Nat
      BY StateFields DEF Readable
    <3> QED BY <3>1, <3>2, <3>3, <3>4
  <2>2. RateBuckets * TickInterval \in Nat
    BY LimitsAssumption
  <2> DEFINE a == RateBuckets * TickInterval
             b == state.elapsed - StationOf(id).createdAt
  <2>3. a \in Nat /\ b \in Nat
    BY <2>1, <2>2
  <2>4. RecentDuration(id) = Min({a, b})
    BY DEF RecentDuration
  <2> HIDE DEF a, b
  <2>5. RecentDuration(id) = IF a <= b THEN a ELSE b
    BY <2>3, <2>4, MinOfTwo
  <2>6. RecentDuration(id) \in 0..a
    BY <2>3, <2>5
  <2> QED BY <2>6 DEF a
<1>4. /\ TypeInv /\ StoreInv /\ Idle /\ pc # "apply"
  BY DEF Readable, Idle
<1>5. st.outcome["received"] = st.lastReception
  BY <1>4 DEF StoreInv, RingInv, StatsExact
<1>6. /\ latest = IF Retained(id) = 0 THEN None ELSE st.lastReception
      /\ oldest = IF Retained(id) = 0 THEN None ELSE Dropped(id) + 1
      /\ Retained(id) \in Nat /\ Dropped(id) \in Nat /\ st.lastReception \in Nat
      /\ st.lastReception = Dropped(id) + Retained(id)
      /\ Retained(id) <= ReceptionHistoryLimit
      /\ Retained(id) = 0 => Dropped(id) = 0
  <2>1. /\ history[id] = <<>> <=> Retained(id) = 0
        /\ Retained(id) \in Nat /\ Dropped(id) \in Nat /\ st.lastReception \in Nat
        /\ st.lastReception = Dropped(id) + Retained(id)
        /\ Retained(id) <= ReceptionHistoryLimit
        /\ Retained(id) = 0 => Dropped(id) = 0
        /\ \A k \in 1..Retained(id) : history[id][k].sequence = Dropped(id) + k
    BY <1>4, RetainedFacts
  <2>2. Retained(id) # 0 => 1 \in 1..Retained(id)
    BY <2>1
  <2>3. Retained(id) # 0 => history[id][1].sequence = Dropped(id) + 1
    BY <2>1, <2>2
  <2> QED BY <2>1, <2>3 DEF Latest, Oldest
<1>a. Milliseconds(RecentDuration(id)) \in 0..Milliseconds(RateBuckets * TickInterval)
  <2>1. /\ RecentDuration(id) \in Nat /\ RateBuckets * TickInterval \in Nat
        /\ RecentDuration(id) <= RateBuckets * TickInterval /\ Millisecond \in Nat \ {0}
    BY <1>3, LimitsAssumption, ReadsAssumption
  <2> DEFINE a == RecentDuration(id)
             b == RateBuckets * TickInterval
  <2> HIDE DEF a, b
  <2>2. a \div Millisecond <= b \div Millisecond
    BY <2>1, DivMonotone DEF a, b
  <2>3. a \div Millisecond \in Nat /\ b \div Millisecond \in Nat
    BY <2>1, DivMod DEF a, b
  <2>4. a \div Millisecond \in 0..(b \div Millisecond)
    BY <2>2, <2>3
  <2> QED BY <2>4 DEF a, b, Milliseconds
<1>b. /\ (s.opportunityRate = Null) = (s.receptionRate = Null)
      /\ s.recentDuration > 0 => s.opportunityRate # Null
  <2> DEFINE d == RecentDuration(id)
             p == RecentOpportunities(id)
             q == RecentReceived(id)
  <2>1. s.opportunityRate = Ratio(p, d) /\ s.receptionRate = Ratio(q, d)
    BY StationFields
  <2>2. s.recentDuration = Milliseconds(d)
    BY <1>1
  <2> HIDE DEF s, d, p, q
  <2>3. (s.opportunityRate = Null) = (d = 0) /\ (s.receptionRate = Null) = (d = 0)
    BY <2>1, RatioNull
  <2>4. d = 0 => Milliseconds(d) = 0
    BY ReadsAssumption DEF Milliseconds
  <2>5. s.recentDuration > 0 => d # 0
    BY <2>2, <2>4
  <2> QED BY <2>3, <2>5, Zenon
<1>c. /\ RatioValid(s.receiveRatio, s.counters.opportunities)
      /\ RatioValid(s.recentReceiveRatio, s.recentOpportunities)
  <2>1. /\ s.receiveRatio = Ratio(st.outcome["received"], st.opportunities)
        /\ s.recentReceiveRatio = Ratio(RecentReceived(id), RecentOpportunities(id))
    BY StationFields
  <2>2. st \in Stats
    BY DEF Readable, TypeInv, TypeOK, StatsTypeOK
  <2>3. /\ st.outcome["received"] \in Nat /\ st.opportunities \in Nat
        /\ st.outcome["received"] <= st.opportunities
    BY <1>2, <2>2, ReceivedBounded
  <2> HIDE DEF s, st
  <2>4. RatioValid(s.receiveRatio, s.counters.opportunities)
    BY <1>1, <2>1, <2>3, RatioAccepted
  <2>5. RatioValid(s.recentReceiveRatio, s.recentOpportunities)
    BY <1>1, <2>1, RecentBounded, RatioAccepted
  <2> QED BY <2>4, <2>5
<1> HIDE DEF latest, oldest, s, st
<1>7. /\ (oldest = None) <=> (latest = None)
      /\ (latest = None) <=> (st.outcome["received"] = 0)
      /\ latest # None => /\ oldest \in 1..latest
                          /\ latest = st.outcome["received"]
                          /\ latest - oldest < ReceptionHistoryLimit
  <2>1. ReceptionHistoryLimit \in Nat
    BY LimitsAssumption
  <2>2. CASE Retained(id) = 0
    BY <1>5, <1>6, <2>2
  <2>3. CASE Retained(id) # 0
    BY <1>5, <1>6, <2>1, <2>3 DEF None
  <2> QED BY <2>2, <2>3
<1>8. /\ (s.oldest = None) = (s.latest = None)
      /\ (s.latest = None) = (s.counters.outcome["received"] = 0)
  <2>1. (oldest = None) = (latest = None)
    BY <1>7, FlagEquals
  <2>2. (latest = None) = (st.outcome["received"] = 0)
    BY <1>7, FlagEquals
  <2> QED BY <1>1, <2>1, <2>2
<1>9. /\ SumOver(st.outcome) = st.opportunities
      /\ SumOver([k \in Channels |-> st.channel[k].opportunities]) = st.opportunities
      /\ SumOver([k \in Channels |-> st.channel[k].received]) = st.outcome["received"]
      /\ \A k \in Channels : st.channel[k].received <= st.channel[k].opportunities
  BY <1>2 DEF Tallied, Partitioned
<1>10. /\ s.recentReceived <= s.recentOpportunities
       /\ s.recentOpportunities <= s.counters.opportunities
       /\ s.recentReceived <= s.counters.outcome["received"]
       /\ s.recentDuration \in 0..Milliseconds(RateBuckets * TickInterval)
       /\ s.current + s.lost <= TargetLimit
  BY <1>1, <1>a, RecentBounded, CountsBounded DEF st
<1>11. s.latest # None =>
         /\ s.oldest \in 1..s.latest /\ s.latest = s.counters.outcome["received"]
         /\ s.latest - s.oldest < ReceptionHistoryLimit
  BY <1>1, <1>7
<1>12. CountersValid(s)
  <2>1. /\ SumOver(s.counters.outcome) = s.counters.opportunities
        /\ SumOver([k \in Channels |-> s.counters.channel[k].opportunities])
             = s.counters.opportunities
        /\ SumOver([k \in Channels |-> s.counters.channel[k].received])
             = s.counters.outcome["received"]
        /\ \A k \in Channels : s.counters.channel[k].received <= s.counters.channel[k].opportunities
    BY <1>1, <1>9
  <2> QED BY <1>8, <1>10, <1>11, <1>b, <1>c, <2>1, Zenon DEF CountersValid
<1> QED BY <1>12 DEF s

\* The display's checks of a station hold.
LEMMA StationAccepted ==
  ASSUME Readable, NEW id \in StationIDs
  PROVE  StationValid(StationObservation(id), state.elapsed)
<1> DEFINE s == StationObservation(id)
<1>1. s.station = StationOf(id)
  BY StationFields
<1>2. PICK i \in DOMAIN state.stations : state.stations[i] = StationOf(id)
  BY KnownStations
<1>3. /\ state.stations[i].createdAt \in Nat /\ state.stations[i].rfUpdatedAt \in Nat
      /\ state.stations[i].rfRevision \in Nat /\ state.stations[i].configRevision \in Nat
  BY <1>2, KnownStations DEF Station
<1>4. /\ state.stations[i].createdAt <= state.stations[i].rfUpdatedAt
      /\ state.stations[i].rfUpdatedAt <= state.elapsed
      /\ 1 <= state.stations[i].rfRevision
      /\ state.stations[i].rfRevision <= state.stations[i].configRevision
  BY DEF Readable, CoherentInv, StationsSound
<1>5. state.elapsed \in Nat
  BY StateFields DEF Readable
<1> HIDE DEF s
<1>6. /\ s.station.configRevision # 0 /\ s.station.rfRevision # 0
      /\ s.station.createdAt \in 0..state.elapsed
      /\ s.station.rfUpdatedAt \in s.station.createdAt..state.elapsed
  BY <1>1, <1>2, <1>3, <1>4, <1>5
<1>7. CountersValid(s)
  BY CountersAccepted DEF s
<1>8. StationValid(s, state.elapsed)
  BY <1>6, <1>7 DEF StationValid
<1> QED BY <1>8 DEF s

\* A selection names stations, each once, by the text of its ID.
LEMMA SelectionListed ==
  ASSUME Readable, NEW requested \in SUBSET StationIDs, NEW o, o = Observations(requested)
  PROVE  /\ Selected(requested) \in SUBSET StationIDs
         /\ o.selection = Sorted(Selected(requested), TextBefore)
         /\ Elements(o.selection) = Selected(requested)
         /\ (IF requested = {} THEN {s.station.id : s \in Elements(o.stations)} ELSE requested)
              = Selected(requested)
<1>1. Selected(requested) \in SUBSET StationIDs
  BY DEF Selected
<1>2. o.selection = Sorted(Selected(requested), TextBefore)
  BY SnapshotFields
<1>3. Lists(o.selection, Selected(requested), ByText(Selected(requested)))
  BY <1>1, <1>2, KnownStations, TextSorted
<1>4. Elements(o.selection) = Selected(requested)
  BY <1>3 DEF Lists, Elements
<1>5. {s.station.id : s \in Elements(o.stations)} = StationIDs
  <2>1. Elements(o.stations) = {StationObservation(id) : id \in StationIDs}
    BY StationsListed
  <2>2. \A id \in StationIDs : StationObservation(id).station.id = id
    BY StationsListed
  <2> QED BY <2>1, <2>2
<1>6. (IF requested = {} THEN {s.station.id : s \in Elements(o.stations)} ELSE requested)
        = Selected(requested)
  BY <1>5 DEF Selected
<1> QED BY <1>1, <1>2, <1>4, <1>6

\* What is stored of a selected station names a reception that the snapshot allows.
LEMMA IdentityAccepted ==
  ASSUME Readable, NEW requested \in SUBSET StationIDs, NEW o, o = Observations(requested),
         NEW r \in Stored, r.station \in Selected(requested),
         NEW x, x.station = r.station, x.sequence = r.sequence, x.transmission = r.transmission
  PROVE  IdentityValid(o, x)
<1> DEFINE id == r.station
<1>1. /\ id \in StationIDs /\ r.sequence \in Nat /\ 1 <= r.sequence
      /\ r.sequence <= stats[id].lastReception /\ history[id] # <<>>
      /\ r.transmission \in Nat /\ 1 <= r.transmission /\ r.transmission <= state.sequence
      /\ stats[id].lastReception \in Nat
  BY StoredKnown
<1> DEFINE s == StationObservation(id)
<1>2. s.station.id = id /\ s \in Elements(o.stations) /\ s.latest = Latest(id)
  BY ZenonT(30), <1>1, StationsListed, StationFields
<1>3. Latest(id) = stats[id].lastReception
  BY <1>1 DEF Latest
<1>4. o.transmissions = state.sequence
  BY SnapshotFields
<1>5. r.station \in Elements(o.selection)
  BY SelectionListed
<1> HIDE DEF s
<1>6. s.latest # None /\ x.sequence <= s.latest
  BY <1>1, <1>2, <1>3 DEF None
<1>7. x.sequence # 0 /\ x.transmission # 0 /\ x.transmission <= o.transmissions
  BY <1>1, <1>4
<1> QED BY <1>2, <1>5, <1>6, <1>7 DEF IdentityValid

\* A stored reception of a selected station is accepted.
LEMMA ReceptionAccepted ==
  ASSUME Readable, NEW requested \in SUBSET StationIDs, NEW o, o = Observations(requested),
         NEW r \in Stored, r.station \in Selected(requested)
  PROVE  ReceptionValid(o, r)
<1>1. IdentityValid(o, r)
  BY IdentityAccepted
<1>2. /\ r.station \in StationIDs /\ r.channel \in Channels
      /\ r.timestamp \in Nat /\ r.timestamp <= state.elapsed
      /\ r.rfRevision \in Nat /\ 1 <= r.rfRevision
      /\ r.rfRevision <= StationOf(r.station).rfRevision
      /\ r.configRevision \in Nat /\ 1 <= r.configRevision
      /\ r.configRevision <= StationOf(r.station).configRevision
      /\ r.sequence \in Nat /\ 1 <= r.sequence
      /\ r.transmission \in Nat /\ 1 <= r.transmission
  BY StoredKnown
<1>3. StationIn(o, r.station).station = StationOf(r.station)
  <2>1. StationIn(o, r.station) = StationObservation(r.station)
    BY <1>2, StationsListed
  <2>2. StationObservation(r.station).station = StationOf(r.station)
    BY StationFields
  <2> QED BY <2>1, <2>2
<1>4. InSnapshot(o, r.timestamp)
  <2>1. o.now = state.elapsed /\ state.elapsed \in Nat
    BY SnapshotFields, StateFields DEF Readable
  <2> QED BY <1>2, <2>1 DEF InSnapshot
<1>5. RecordValid(r)
  <2>1. r.sequence # 0 /\ r.transmission # 0 /\ r.configRevision # 0 /\ r.rfRevision # 0
    BY <1>2
  <2>2. r.receiver.enabled
    BY StoredKnown
  <2> QED BY <1>2, <2>1, <2>2, Zenon DEF RecordValid
<1> QED BY <1>1, <1>2, <1>3, <1>4, <1>5, Zenon DEF ReceptionValid

-----------------------------------------------------------------------------
(***************************************************************************)
(* Snapshots: targets                                                      *)
(***************************************************************************)
\* A finite set has an element that comes before all others.
LEMMA FirstExists ==
  ASSUME NEW S, IsFiniteSet(S), S # {}, NEW B, Orders(B, S)
  PROVE  \E x \in S : \A y \in S \ {x} : x \in B[y]
<1>1. 1 \in 1..Cardinality(S) /\ 1 - 1 = 0
  <2>1. Cardinality(S) \in Nat /\ Cardinality(S) # 0
    BY FS_CardinalityType, FS_EmptySet
  <2> QED BY <2>1
<1>2. PICK x \in S : Cardinality(B[x]) = 0
  BY <1>1, Ranks
<1>3. IsFiniteSet(B[x])
  BY FS_Subset DEF Orders
<1>4. B[x] = {}
  BY <1>2, <1>3, FS_EmptySet
<1>5. \A y \in S \ {x} : x \in B[y]
  BY <1>4 DEF Orders
<1> QED BY <1>5

\* Observations have a newest transmission, and a first station that has it.
LEMMA ChosenExists ==
  ASSUME NEW S, IsFiniteSet(S), S # {},
         \A r \in S : r.transmission \in Nat /\ StationIndex(r.station) \in Nat,
         \A r, q \in S : StationIndex(r.station) = StationIndex(q.station) => r = q
  PROVE  /\ Chosen(S) \in S
         /\ \A q \in S : q.transmission <= Chosen(S).transmission
<1> DEFINE n == [r \in S |-> StationIndex(r.station)]
           t == [r \in S |-> r.transmission]
           B == [x \in S |-> {y \in S : \/ t[y] > t[x]
                                        \/ t[y] = t[x] /\ n[y] < n[x]}]
           First(r) == \A q \in S \ {r} :
                         \/ r.transmission > q.transmission
                         \/ /\ r.transmission = q.transmission
                            /\ StationIndex(r.station) < StationIndex(q.station)
<1>1. /\ \A x \in S : n[x] \in Nat /\ t[x] \in Nat
      /\ \A x, y \in S : n[x] = n[y] => x = y
      /\ \A x \in S : t[x] = x.transmission /\ n[x] = StationIndex(x.station)
  OBVIOUS
<1> HIDE DEF n, t
<1>2. Orders(B, S)
  <2>1. /\ \A x \in S : B[x] \subseteq S
        /\ \A x, y \in S : y \in B[x] <=> t[y] > t[x] \/ (t[y] = t[x] /\ n[y] < n[x])
    OBVIOUS
  <2> HIDE DEF B
  <2>2. ASSUME NEW x \in S PROVE B[x] \subseteq S /\ x \notin B[x]
    BY <1>1, <2>1
  <2>3. ASSUME NEW x \in S, NEW y \in S PROVE x = y \/ x \in B[y] \/ y \in B[x]
    BY <1>1, <2>1
  <2>4. ASSUME NEW x \in S, NEW y \in S, NEW z \in S, x \in B[y], y \in B[z] PROVE x \in B[z]
    BY <1>1, <2>1, <2>4
  <2> QED BY <2>2, <2>3, <2>4 DEF Orders
<1>3. \E x \in S : \A y \in S \ {x} : x \in B[y]
  <2> HIDE DEF B
  <2> QED BY <1>2, FirstExists
<1>4. \E r \in S : First(r)
  BY <1>1, <1>3
<1>5. Chosen(S) = CHOOSE r \in S : First(r)
  BY DEF Chosen
<1> HIDE DEF First
<1>6. Chosen(S) \in S /\ First(Chosen(S))
  BY <1>4, <1>5, Zenon
<1>7. \A q \in S : q.transmission <= Chosen(S).transmission
  <2> SUFFICES ASSUME NEW q \in S PROVE q.transmission <= Chosen(S).transmission
    OBVIOUS
  <2>1. CASE q = Chosen(S)
    BY <1>6, <2>1
  <2>2. CASE q # Chosen(S)
    BY <1>6, <2>2 DEF First
  <2> QED BY <2>1, <2>2
<1> QED BY <1>6, <1>7

\* What lists a set lists each element once.
LEMMA ListedOnce ==
  ASSUME NEW S, NEW B, NEW s, Lists(s, S, B), \A x \in S : x \notin B[x]
  PROVE  /\ \A j, k \in DOMAIN s : s[j] = s[k] => j = k
         /\ Elements(s) = S
<1>1. /\ DOMAIN s = 1..Len(s) /\ Len(s) \in Nat
      /\ \A k \in DOMAIN s : s[k] \in S
      /\ \A x \in S : \E k \in DOMAIN s : s[k] = x
      /\ \A j, k \in DOMAIN s : j < k => s[j] \in B[s[k]]
  BY DEF Lists
<1>2. Elements(s) = S
  BY <1>1 DEF Elements
<1>3. \A j, k \in DOMAIN s : j < k => s[j] # s[k]
  BY <1>1
<1>4. \A j, k \in DOMAIN s : s[j] = s[k] => j = k
  <2> SUFFICES ASSUME NEW j \in DOMAIN s, NEW k \in DOMAIN s, s[j] = s[k] PROVE j = k
    OBVIOUS
  <2>1. j \in Nat /\ k \in Nat /\ ~(j < k) /\ ~(k < j)
    BY <1>1, <1>3
  <2> QED BY <2>1
<1> QED BY <1>2, <1>4

\* What the selected stations observe of a target.
LEMMA ObservedFacts ==
  ASSUME Readable, NEW requested \in SUBSET StationIDs, NEW m \in DOMAIN targets,
         NEW S, S = ObservedBy(m, Selected(requested)), S # {}
  PROVE  /\ IsFiniteSet(S) /\ S \subseteq Stored /\ S \subseteq AllObservations(targets)
         /\ \A r \in S : /\ r.mmsi = m /\ r.station \in Selected(requested)
                         /\ state.elapsed - r.timestamp < ExpiryAge
         /\ \A r, q \in S : r.station = q.station => r = q
         /\ Chosen(S) \in S
         /\ \A q \in S : q.transmission <= Chosen(S).transmission
<1>1. S \subseteq targets[m].observations /\ \A r \in S : r.station \in Selected(requested)
  BY DEF ObservedBy
<1>2. IsFiniteSet(S)
  <2>1. IsFiniteSet(targets[m].observations)
    BY ObservedOnce
  <2> QED BY <1>1, <2>1, FS_Subset
<1>3. /\ \A r \in S : /\ r.mmsi = m /\ r \in AllObservations(targets) /\ r \in Stored
                      /\ state.elapsed - r.timestamp < ExpiryAge
      /\ \A r, q \in S : r.station = q.station => r = q
  BY <1>1, ObservedOnce
<1>4. \A r \in S : /\ r.transmission \in Nat /\ r.station \in StationIDs
  BY <1>3, StoredKnown
<1>5. \A r \in S : StationIndex(r.station) \in Nat /\ StationOf(r.station).id = r.station
                   /\ StationOf(r.station) = state.stations[StationIndex(r.station)]
  BY <1>4, KnownStations
<1>6. \A r, q \in S : StationIndex(r.station) = StationIndex(q.station) => r = q
  BY <1>3, <1>5
<1>7. Chosen(S) \in S /\ \A q \in S : q.transmission <= Chosen(S).transmission
  BY <1>2, <1>4, <1>5, <1>6, ChosenExists
<1> QED BY <1>1, <1>2, <1>3, <1>7

\* The fields of what a station knows of a target.
LEMMA TargetStationFields ==
  ASSUME NEW r, NEW chosen, NEW s, s = TargetStation(r, chosen)
  PROVE  /\ s.station = r.station /\ s.sequence = r.sequence
         /\ s.enabled = StationOf(r.station).definition.enabled
         /\ s.transmission = r.transmission /\ s.timestamp = r.timestamp
         /\ s.channel = r.channel /\ s.rfRevision = r.rfRevision
         /\ s.age = Milliseconds(AgeOf(r)) /\ s.status = TargetStatus(AgeOf(r))
         /\ s.chosen = (r.transmission = chosen.transmission)
BY DEF TargetStation

\* The provenance of a target names each of its stations once.
LEMMA ProvenanceListed ==
  ASSUME Readable, NEW requested \in SUBSET StationIDs, NEW m \in DOMAIN targets,
         NEW S, S = ObservedBy(m, Selected(requested)), S # {}
  PROVE  /\ Provenance(S) # <<>>
         /\ Elements(Provenance(S)) = {TargetStation(r, Chosen(S)) : r \in S}
         /\ \A j, k \in DOMAIN Provenance(S) :
              Provenance(S)[j].station = Provenance(S)[k].station => j = k
<1> DEFINE T == {TargetStation(r, Chosen(S)) : r \in S}
           f == [r \in S |-> TargetStation(r, Chosen(S))]
<1>1. /\ IsFiniteSet(S) /\ S \subseteq Stored
      /\ \A r, q \in S : r.station = q.station => r = q
  BY ObservedFacts
<1>2. \A r \in S : r.station \in 1..MaxRevision
  BY <1>1, StoredKnown, KnownStations
<1>3. \A r \in S : TargetStation(r, Chosen(S)).station = r.station
  BY TargetStationFields
<1>4. /\ \A x \in T : x.station \in 1..MaxRevision
      /\ \A x, y \in T : x.station = y.station => x = y
  <2>1. ASSUME NEW x \in T PROVE x.station \in 1..MaxRevision
    <3>1. PICK r \in S : x = TargetStation(r, Chosen(S))
      OBVIOUS
    <3> QED BY <1>2, <1>3, <3>1
  <2>2. ASSUME NEW x \in T, NEW y \in T, x.station = y.station PROVE x = y
    <3>1. PICK r \in S : x = TargetStation(r, Chosen(S))
      OBVIOUS
    <3>2. PICK q \in S : y = TargetStation(q, Chosen(S))
      OBVIOUS
    <3> QED BY <1>1, <1>3, <2>2, <3>1, <3>2
  <2> QED BY <2>1, <2>2
<1>5. IsFiniteSet(T) /\ T # {}
  <2>1. f \in Surjection(S, T)
    BY DEF Surjection
  <2> HIDE DEF f
  <2>2. IsFiniteSet(T)
    <3> HIDE DEF T
    <3> QED BY <1>1, <2>1, FS_Surjection
  <2> QED BY <2>2
<1>6. Provenance(S) = Sorted(T, StationBefore)
  BY DEF Provenance
<1> HIDE DEF T
<1> DEFINE p == Provenance(S)
<1>7. Lists(p, T, ByStation(T))
  BY <1>4, <1>5, <1>6, StationSorted
<1> HIDE DEF p
<1>8. \A x \in T : x \notin ByStation(T)[x]
  BY <1>4, TextAssumption DEF ByStation, StationBefore, TextBefore
<1>9. Elements(p) = T /\ \A j, k \in DOMAIN p : p[j] = p[k] => j = k
  BY <1>7, <1>8, ListedOnce
<1>10. \A k \in DOMAIN p : p[k] \in T
  BY <1>7 DEF Lists
<1>11. p # <<>>
  BY <1>5, <1>9 DEF Elements
<1> QED BY <1>4, <1>9, <1>10, <1>11 DEF p, T

\* The age of an observation is its virtual age, and it has not expired.
LEMMA AgeAccepted ==
  ASSUME Readable, NEW requested, NEW o, o = Observations(requested),
         NEW r \in AllObservations(targets)
  PROVE  AgeValid(o, Milliseconds(AgeOf(r)), TargetStatus(AgeOf(r)), r.timestamp)
<1>1. o.now = state.elapsed
  BY SnapshotFields
<1>2. state.elapsed - r.timestamp < ExpiryAge
  BY ObservedOnce
<1> QED BY <1>1, <1>2 DEF AgeValid, AgeOf, TargetStatus

\* What a station knows of a target is accepted.
LEMMA ProvenanceAccepted ==
  ASSUME Readable, NEW requested \in SUBSET StationIDs, NEW o, o = Observations(requested),
         NEW m \in DOMAIN targets, NEW S, S = ObservedBy(m, Selected(requested)),
         NEW r \in S, NEW t, t.report = Chosen(S), NEW s, s = TargetStation(r, Chosen(S))
  PROVE  ProvenanceValid(o, t, s)
<1>0. S # {}
  OBVIOUS
<1>1. /\ r \in Stored /\ r \in AllObservations(targets) /\ r.station \in Selected(requested)
      /\ r.transmission <= t.report.transmission
  BY <1>0, ObservedFacts
<1>2. /\ s.station = r.station /\ s.sequence = r.sequence
      /\ s.enabled = StationOf(r.station).definition.enabled
      /\ s.transmission = r.transmission /\ s.timestamp = r.timestamp
      /\ s.channel = r.channel /\ s.rfRevision = r.rfRevision
      /\ s.age = Milliseconds(AgeOf(r)) /\ s.status = TargetStatus(AgeOf(r))
      /\ s.chosen = (r.transmission = t.report.transmission)
  BY TargetStationFields
<1>3. /\ r.station \in StationIDs /\ r.channel \in Channels
      /\ r.timestamp \in Nat /\ r.timestamp <= state.elapsed
      /\ r.rfRevision \in Nat /\ 1 <= r.rfRevision
      /\ r.rfRevision <= StationOf(r.station).rfRevision
  BY <1>1, StoredKnown
<1>4. StationIn(o, s.station).station = StationOf(r.station)
  <2>1. StationIn(o, r.station) = StationObservation(r.station)
    BY <1>3, StationsListed
  <2>2. StationObservation(r.station).station = StationOf(r.station)
    BY StationFields
  <2> QED BY <1>2, <2>1, <2>2
<1>5. IdentityValid(o, s)
  BY <1>1, <1>2, IdentityAccepted
<1>6. InSnapshot(o, s.timestamp)
  <2>1. o.now = state.elapsed /\ state.elapsed \in Nat
    BY SnapshotFields, StateFields DEF Readable
  <2> QED BY <1>2, <1>3, <2>1 DEF InSnapshot
<1>7. AgeValid(o, s.age, s.status, s.timestamp)
  BY <1>1, <1>2, AgeAccepted
<1>8. s.rfRevision \in 1..StationIn(o, s.station).station.rfRevision
  <2>1. StationOf(r.station).rfRevision \in Nat
    BY <1>3, KnownStations DEF Station
  <2> QED BY <1>2, <1>3, <1>4, <2>1
<1>9. s.channel \in Channels /\ s.transmission <= t.report.transmission
  BY <1>1, <1>2, <1>3
<1>10. s.chosen = (s.transmission = t.report.transmission)
  BY <1>2
<1>11. s.enabled = StationIn(o, s.station).station.definition.enabled
  BY <1>2, <1>4
<1> QED BY <1>5, <1>6, <1>7, <1>8, <1>9, <1>10, <1>11 DEF ProvenanceValid

\* The fields of a target.
LEMMA ObservedTargetFields ==
  ASSUME NEW m, NEW S, NEW t, t = ObservedTarget(m, S)
  PROVE  /\ t.mmsi = m /\ t.report = Chosen(S) /\ t.age = Milliseconds(AgeOf(Chosen(S)))
         /\ t.status = TargetStatus(AgeOf(Chosen(S))) /\ t.stations = Provenance(S)
BY DEF ObservedTarget

\* A target of a snapshot is accepted.
LEMMA TargetAccepted ==
  ASSUME Readable, NEW requested \in SUBSET StationIDs, NEW o, o = Observations(requested),
         NEW m \in DOMAIN targets, NEW S, S = ObservedBy(m, Selected(requested)), S # {},
         NEW t, t = ObservedTarget(m, S)
  PROVE  TargetValid(o, t)
<1>1. /\ t.mmsi = m /\ t.report = Chosen(S) /\ t.age = Milliseconds(AgeOf(Chosen(S)))
      /\ t.status = TargetStatus(AgeOf(Chosen(S))) /\ t.stations = Provenance(S)
  BY ObservedTargetFields
<1> DEFINE r == Chosen(S)
<1>2. /\ r \in S /\ r \in Stored /\ r \in AllObservations(targets)
      /\ r.station \in Selected(requested) /\ r.mmsi = m
      /\ \A p, q \in S : p.station = q.station => p = q
  BY ObservedFacts
<1>3. /\ t.stations # <<>>
      /\ Elements(t.stations) = {TargetStation(q, r) : q \in S}
      /\ \A j, k \in DOMAIN t.stations : t.stations[j].station = t.stations[k].station => j = k
  BY <1>1, ProvenanceListed
<1> HIDE DEF r
<1>4. ReceptionValid(o, t.report)
  BY <1>1, <1>2, ReceptionAccepted DEF r
<1>5. t.mmsi = t.report.mmsi
  BY <1>1, <1>2 DEF r
<1>6. AgeValid(o, t.age, t.status, t.report.timestamp)
  BY <1>1, <1>2, AgeAccepted DEF r
<1>7. ASSUME NEW s \in Elements(t.stations)
      PROVE  /\ ProvenanceValid(o, t, s)
             /\ s.station = t.report.station => s.sequence = t.report.sequence
  <2>1. PICK q \in S : s = TargetStation(q, r)
    BY <1>3
  <2>2. ProvenanceValid(o, t, s)
    BY <1>1, <2>1, ProvenanceAccepted DEF r
  <2>3. s.station = q.station /\ s.sequence = q.sequence
    BY <2>1, TargetStationFields
  <2>4. s.station = t.report.station => s.sequence = t.report.sequence
    BY <1>1, <1>2, <2>3 DEF r
  <2> QED BY <2>2, <2>4
<1>8. \E s \in Elements(t.stations) : s.station = t.report.station
  <2>1. TargetStation(r, r) \in Elements(t.stations)
    BY <1>2, <1>3
  <2>2. TargetStation(r, r).station = r.station
    BY TargetStationFields
  <2> QED BY <1>1, <2>1, <2>2 DEF r
<1> QED BY <1>3, <1>4, <1>5, <1>6, <1>7, <1>8 DEF TargetValid

\* A snapshot shows once each target that a selected station observes.
LEMMA TargetsListed ==
  ASSUME Readable, NEW requested \in SUBSET StationIDs, NEW o, o = Observations(requested),
         NEW selected, selected = Selected(requested)
  PROVE  /\ Len(o.targets) \in Nat /\ Len(o.targets) <= TargetLimit
         /\ DOMAIN o.targets = 1..Len(o.targets)
         /\ \A t \in Elements(o.targets) : \E m \in DOMAIN targets :
              /\ ObservedBy(m, selected) # {}
              /\ t = ObservedTarget(m, ObservedBy(m, selected))
         /\ \A m \in DOMAIN targets :
              ObservedBy(m, selected) # {} =>
                ObservedTarget(m, ObservedBy(m, selected)) \in Elements(o.targets)
         /\ \A j, k \in DOMAIN o.targets : o.targets[j].mmsi = o.targets[k].mmsi => j = k
<1> DEFINE shown == {m \in DOMAIN targets : ObservedBy(m, selected) # {}}
           order == Sorted(shown, Below)
           T == {ObservedTarget(m, ObservedBy(m, selected)) : m \in shown}
           n == Cardinality(shown)
<1>1. o.targets = [k \in DOMAIN order |-> ObservedTarget(order[k], ObservedBy(order[k], selected))]
  <2>1. o.targets = ObservedTargets(selected)
    BY SnapshotFields
  <2> QED BY <2>1 DEF ObservedTargets
<1>2. shown \in SUBSET DOMAIN targets /\ shown \in SUBSET Nat /\ IsFiniteSet(DOMAIN targets)
  BY ObservedOnce
<1> HIDE DEF shown
<1>3. IsFiniteSet(shown) /\ n \in Nat /\ n <= TargetLimit
  <2>1. IsFiniteSet(shown) /\ n <= Cardinality(DOMAIN targets)
    BY <1>2, FS_Subset
  <2>2. Cardinality(DOMAIN targets) \in Nat /\ Cardinality(DOMAIN targets) <= TargetLimit
    BY ObservedOnce
  <2>3. n \in Nat /\ TargetLimit \in Nat
    BY <2>1, FS_CardinalityType, LimitsAssumption
  <2> HIDE DEF n
  <2> QED BY <2>1, <2>2, <2>3
<1>4. Lists(order, shown, ByNumber(shown))
  BY <1>2, <1>3, NumberSorted
<1> HIDE DEF order
<1>5. \A x \in shown : x \notin ByNumber(shown)[x]
  BY <1>2 DEF ByNumber, Below
<1>6. /\ DOMAIN order = 1..n /\ \A k \in 1..n : order[k] \in shown
      /\ \A x \in shown : \E k \in 1..n : order[k] = x
  BY <1>4 DEF Lists
<1>7. \A j, k \in 1..n : order[j] = order[k] => j = k
  BY <1>4, <1>5, <1>6, ListedOnce
<1> HIDE DEF n
<1>8. /\ o.targets \in [1..n -> T] /\ DOMAIN o.targets = 1..n
      /\ \A k \in 1..n : o.targets[k] = ObservedTarget(order[k], ObservedBy(order[k], selected))
  BY <1>1, <1>6
<1>9. Len(o.targets) = n
  <2> HIDE DEF T
  <2> QED BY <1>3, <1>8, Numbered
<1>10. Elements(o.targets) = T
  BY <1>6, <1>8 DEF Elements
<1>11. ASSUME NEW j \in DOMAIN o.targets, NEW k \in DOMAIN o.targets,
              o.targets[j].mmsi = o.targets[k].mmsi
       PROVE  j = k
  <2>1. /\ j \in 1..n /\ k \in 1..n
        /\ o.targets[j] = ObservedTarget(order[j], ObservedBy(order[j], selected))
        /\ o.targets[k] = ObservedTarget(order[k], ObservedBy(order[k], selected))
    BY <1>8
  <2>2. o.targets[j].mmsi = order[j]
    BY <2>1, ObservedTargetFields
  <2>3. o.targets[k].mmsi = order[k]
    BY <2>1, ObservedTargetFields
  <2> QED BY <1>7, <1>11, <2>1, <2>2, <2>3
<1>12. ASSUME NEW t \in T
       PROVE  \E m \in DOMAIN targets : /\ ObservedBy(m, selected) # {}
                                        /\ t = ObservedTarget(m, ObservedBy(m, selected))
  BY DEF shown
<1>13. ASSUME NEW m \in DOMAIN targets, ObservedBy(m, selected) # {}
       PROVE  ObservedTarget(m, ObservedBy(m, selected)) \in T
  BY <1>13 DEF shown
<1> HIDE DEF T
<1> QED BY <1>3, <1>8, <1>9, <1>10, <1>11, <1>12, <1>13

\* The lost targets of a snapshot are as many as it says.
LEMMA LostCounted ==
  ASSUME Readable, NEW requested \in SUBSET StationIDs, NEW o, o = Observations(requested)
  PROVE  /\ Cardinality({t \in Elements(o.targets) : t.status = "lost"}) = o.lostTargets
         /\ Len(o.targets) - o.lostTargets = o.currentTargets
<1> DEFINE D == DOMAIN o.targets
           K == {k \in D : o.targets[k].status = "lost"}
           L == {t \in Elements(o.targets) : t.status = "lost"}
           f == [k \in K |-> o.targets[k]]
<1>1. /\ Len(o.targets) \in Nat /\ D = 1..Len(o.targets)
      /\ \A j, k \in D : o.targets[j].mmsi = o.targets[k].mmsi => j = k
  BY TargetsListed
<1>2. o.lostTargets = Cardinality(K) /\ o.currentTargets = Len(o.targets) - o.lostTargets
  <2>1. K = {k \in DOMAIN o.targets : o.targets[k].status = "lost"}
    OBVIOUS
  <2> HIDE DEF K
  <2>2. o.currentTargets = Len(o.targets) - o.lostTargets
    BY SnapshotFields
  <2>3. o.lostTargets = Cardinality(K)
    BY <2>1, LostFields
  <2> QED BY <2>2, <2>3
<1>3. IsFiniteSet(K)
  <2>1. IsFiniteSet(D)
    BY <1>1, FS_Interval
  <2>2. K \subseteq D
    OBVIOUS
  <2> HIDE DEF K, D
  <2> QED BY <2>1, <2>2, FS_Subset
<1>4. f \in Bijection(K, L)
  <2>1. f \in [K -> L] /\ \A t \in L : \E k \in K : f[k] = t
    BY DEF Elements
  <2>2. \A j, k \in K : f[j] = f[k] => j = k
    BY <1>1
  <2> HIDE DEF f, K, L
  <2> QED BY <2>1, <2>2 DEF Bijection, Injection, Surjection, IsInjective
<1> HIDE DEF f, K, L
<1>5. Cardinality(L) = Cardinality(K)
  BY <1>3, <1>4, FS_Bijection DEF ExistsBijection
<1> QED BY <1>2, <1>5 DEF L

\* A selected station's counts of lost and current observations are those of the
\* targets that the snapshot shows.
LEMMA ProvenanceCounted ==
  ASSUME Readable, NEW requested \in SUBSET StationIDs, NEW o, o = Observations(requested),
         NEW id \in Selected(requested), NEW lost \in BOOLEAN
  PROVE  CountObservations(id, lost) = ProvenanceCount(o, id, lost)
<1> DEFINE selected == Selected(requested)
           Shown(m) == ObservedTarget(m, ObservedBy(m, selected))
           A == {r \in AllObservations(targets) : r.station = id /\ IsLost(r) = lost}
           E == {t \in Elements(o.targets) :
                   \E s \in Elements(t.stations) : s.station = id /\ (s.status = "lost") = lost}
           f == [r \in A |-> Shown(r.mmsi)]
<1>1. IsFiniteSet(A)
  <2> DEFINE H == {r \in AllObservations(targets) : r.station = id}
  <2>1. IsFiniteSet(H)
    BY CountsBounded
  <2>2. A \subseteq H
    OBVIOUS
  <2> HIDE DEF A, H
  <2> QED BY <2>1, <2>2, FS_Subset
<1>2. \A m \in DOMAIN targets : ObservedBy(m, selected) # {} => Shown(m) \in Elements(o.targets)
  BY TargetsListed
<1>3. \A t \in Elements(o.targets) : \E m \in DOMAIN targets :
        ObservedBy(m, selected) # {} /\ t = Shown(m)
  BY TargetsListed
<1>4. \A m : Shown(m).mmsi = m /\ Shown(m).stations = Provenance(ObservedBy(m, selected))
  BY ObservedTargetFields
<1>5. ASSUME NEW m \in DOMAIN targets, ObservedBy(m, selected) # {}
      PROVE  Elements(Shown(m).stations) =
               {TargetStation(r, Chosen(ObservedBy(m, selected))) : r \in ObservedBy(m, selected)}
  <2>1. Elements(Provenance(ObservedBy(m, selected))) =
          {TargetStation(r, Chosen(ObservedBy(m, selected))) : r \in ObservedBy(m, selected)}
    BY <1>5, ProvenanceListed
  <2> QED BY <1>4, <2>1
<1>6. \A r, c : /\ TargetStation(r, c).station = r.station
                /\ TargetStation(r, c).status = "lost" <=> IsLost(r)
  BY TargetStationFields DEF IsLost
<1> HIDE DEF Shown
<1>7. ASSUME NEW r \in A
      PROVE  /\ r.mmsi \in DOMAIN targets /\ r \in ObservedBy(r.mmsi, selected)
             /\ Shown(r.mmsi) \in E
  <2>1. /\ r \in AllObservations(targets) /\ r.station = id /\ IsLost(r) = lost
    OBVIOUS
  <2>2. r.mmsi \in DOMAIN targets /\ r \in targets[r.mmsi].observations
    BY <2>1, ObservedOnce
  <2>3. r \in ObservedBy(r.mmsi, selected)
    BY <2>1, <2>2 DEF ObservedBy
  <2> DEFINE s == TargetStation(r, Chosen(ObservedBy(r.mmsi, selected)))
  <2>4. s \in Elements(Shown(r.mmsi).stations)
    BY <1>5, <2>2, <2>3
  <2>5. s.station = id /\ (s.status = "lost" <=> IsLost(r))
    BY <1>6, <2>1
  <2> HIDE DEF s
  <2>6. (s.status = "lost") = lost
    BY <2>1, <2>5
  <2>7. Shown(r.mmsi) \in Elements(o.targets)
    BY <1>2, <2>2, <2>3
  <2> QED BY <2>2, <2>3, <2>4, <2>5, <2>6, <2>7
<1>8. ASSUME NEW t \in E PROVE \E r \in A : Shown(r.mmsi) = t
  <2>1. PICK m \in DOMAIN targets : ObservedBy(m, selected) # {} /\ t = Shown(m)
    BY <1>3
  <2>2. PICK s \in Elements(t.stations) : s.station = id /\ (s.status = "lost") = lost
    OBVIOUS
  <2>3. PICK r \in ObservedBy(m, selected) :
          s = TargetStation(r, Chosen(ObservedBy(m, selected)))
    BY <1>5, <2>1, <2>2
  <2>4. r.station = id /\ (s.status = "lost" <=> IsLost(r))
    BY <1>6, <2>2, <2>3
  <2>5. r.mmsi = m /\ r \in AllObservations(targets)
    BY <2>1, <2>3, ObservedOnce DEF ObservedBy
  <2>6. IsLost(r) = lost
    BY <2>2, <2>4 DEF IsLost
  <2> QED BY <2>1, <2>4, <2>5, <2>6
<1>9. ASSUME NEW r \in A, NEW q \in A, Shown(r.mmsi) = Shown(q.mmsi) PROVE r = q
  <2>1. r.mmsi = q.mmsi
    BY <1>4, <1>9
  <2>2. r.mmsi \in DOMAIN targets /\ {r, q} \subseteq targets[r.mmsi].observations
    BY <1>7, <2>1 DEF ObservedBy
  <2>3. r.station = q.station
    OBVIOUS
  <2> QED BY <2>2, <2>3, ObservedOnce
<1>10. CountObservations(id, lost) = Cardinality(A) /\ ProvenanceCount(o, id, lost) = Cardinality(E)
  BY DEF CountObservations, ProvenanceCount
<1>11. f \in [A -> E] /\ \A r \in A : f[r] = Shown(r.mmsi)
  BY <1>7
<1> HIDE DEF A, E, f
<1>12. f \in Bijection(A, E)
  BY <1>8, <1>9, <1>11 DEF Bijection, Injection, Surjection, IsInjective
<1>13. Cardinality(A) = Cardinality(E)
  BY <1>1, <1>12, FS_Bijection DEF ExistsBijection
<1> QED BY <1>10, <1>13

-----------------------------------------------------------------------------
(***************************************************************************)
(* Snapshots: the sample of receptions                                     *)
(***************************************************************************)
\* The newest of a sequence are some of it.
LEMMA NewestShape ==
  ASSUME NEW S, NEW s \in Seq(S), NEW n \in Nat
  PROVE  /\ Newest(s, n) \in Seq(S) /\ Len(Newest(s, n)) \in Nat /\ Len(Newest(s, n)) <= n
         /\ DOMAIN Newest(s, n) = 1..Len(Newest(s, n))
         /\ \A k \in DOMAIN Newest(s, n) : \E j \in DOMAIN s : Newest(s, n)[k] = s[j]
<1>1. Len(s) \in Nat /\ DOMAIN s = 1..Len(s)
  BY LenProperties
<1>2. CASE Len(s) <= n
  <2>1. Newest(s, n) = s
    BY <1>1, <1>2 DEF Newest
  <2> QED BY <1>1, <1>2, <2>1
<1>3. CASE Len(s) > n
  <2> DEFINE a == Len(s) - n + 1
             t == SubSeq(s, a, Len(s))
  <2>1. Newest(s, n) = t
    BY <1>3 DEF Newest
  <2>2. /\ a \in 1..(Len(s) + 1) /\ Len(s) \in (a - 1)..Len(s) /\ Len(s) - a + 1 = n
        /\ a \in Int
    BY <1>1, <1>3
  <2>3. /\ t \in Seq(S) /\ Len(t) = n
        /\ \A k \in 1..n : t[k] = s[a + k - 1]
    BY <1>1, <1>3, SubSeqProperties
  <2>4. \A k \in 1..n : a + k - 1 \in DOMAIN s
    BY <1>1, <1>3
  <2> HIDE DEF t, a
  <2>5. DOMAIN t = 1..n
    BY <2>3, LenProperties
  <2> QED BY <2>1, <2>3, <2>4, <2>5
<1> QED BY <1>1, <1>2, <1>3

\* A sequence has no more elements than its length.
LEMMA ElementsFinite ==
  ASSUME NEW S, NEW s \in Seq(S)
  PROVE  /\ IsFiniteSet(ToSet(s)) /\ Cardinality(ToSet(s)) \in Nat
         /\ Cardinality(ToSet(s)) <= Len(s)
<1> DEFINE n == Len(s)
<1>1. n \in Nat /\ DOMAIN s = 1..n
  BY LenProperties
<1>2. s \in Surjection(1..n, ToSet(s))
  BY <1>1 DEF Surjection, ToSet
<1>3. IsFiniteSet(1..n) /\ Cardinality(1..n) = n
  BY <1>1, FS_Interval
<1> HIDE DEF n
<1>4. IsFiniteSet(ToSet(s)) /\ Cardinality(ToSet(s)) <= Cardinality(1..n)
  BY <1>2, <1>3, FS_Surjection
<1> QED BY <1>3, <1>4, FS_CardinalityType DEF n

\* What each selected station received last is stored, and its rings tell it apart.
LEMMA CandidatesFacts ==
  ASSUME Readable, NEW selected \in SUBSET StationIDs, NEW S,
         S = UNION {ToSet(Newest(history[id], RecentReceptionLimit)) : id \in selected}
  PROVE  /\ IsFiniteSet(S) /\ S \subseteq Stored
         /\ \A r \in S : /\ r \in ReceptionRecord /\ r.station \in selected
                         /\ r.station \in 1..MaxRevision /\ StationIndex(r.station) \in Nat
         /\ \A r, q \in S : r.station = q.station /\ r.transmission = q.transmission => r = q
         /\ \A r, q \in S : r.station = q.station /\ r.sequence = q.sequence => r = q
         /\ \A r, q \in S : StationIndex(r.station) = StationIndex(q.station)
                              => r.station = q.station
<1>0. TypeInv /\ CoherentInv /\ StoreInv /\ Idle /\ RecentReceptionLimit \in Nat
  BY ReadsAssumption DEF Readable
<1> DEFINE Part(id) == ToSet(Newest(history[id], RecentReceptionLimit))
<1>1. \A id \in StationIDs : history[id] \in Seq(ReceptionRecord)
  BY <1>0, RetainedFacts
<1>2. ASSUME NEW id \in StationIDs
      PROVE  /\ IsFiniteSet(Part(id))
             /\ \A r \in Part(id) : \E k \in DOMAIN history[id] : r = history[id][k]
  <2> DEFINE h == history[id]
             t == Newest(h, RecentReceptionLimit)
  <2>1. h \in Seq(ReceptionRecord)
    BY <1>1
  <2> HIDE DEF h
  <2>2. t \in Seq(ReceptionRecord) /\ \A k \in DOMAIN t : \E j \in DOMAIN h : t[k] = h[j]
    BY <1>0, <2>1, NewestShape
  <2> HIDE DEF t
  <2>3. IsFiniteSet(ToSet(t))
    BY <2>2, ElementsFinite
  <2>4. \A r \in ToSet(t) : \E k \in DOMAIN h : r = h[k]
    BY <2>2 DEF ToSet
  <2> QED BY <2>3, <2>4 DEF t, h
<1>3. \A r \in S : \E id \in selected : r \in Part(id)
  OBVIOUS
<1>4. IsFiniteSet(S)
  <2> DEFINE P == {Part(id) : id \in selected}
             f == [id \in selected |-> Part(id)]
  <2>1. f \in Surjection(selected, P)
    <3> HIDE DEF Part
    <3> QED BY DEF Surjection
  <2>2. IsFiniteSet(selected)
    BY KnownStations, FS_Subset
  <2>3. \A A \in P : IsFiniteSet(A)
    BY <1>2
  <2>4. S = UNION P
    OBVIOUS
  <2> HIDE DEF P, f
  <2>5. IsFiniteSet(P)
    BY <2>1, <2>2, FS_Surjection
  <2> QED BY <2>3, <2>4, <2>5, FS_UNION
<1> HIDE DEF Part
<1>5. ASSUME NEW r \in S
      PROVE  r.station \in selected /\ \E k \in DOMAIN history[r.station] : r = history[r.station][k]
  <2>1. PICK id \in selected : r \in Part(id)
    BY <1>3
  <2>2. PICK k \in DOMAIN history[id] : r = history[id][k]
    BY <1>2, <2>1
  <2>3. r.station = id
    BY <1>0, <2>2, HistoryFacts
  <2> QED BY <2>2, <2>3
<1>6. S \subseteq Stored
  BY <1>5 DEF Stored, Elements
<1>7. ASSUME NEW r \in S
      PROVE  /\ r \in ReceptionRecord /\ r.station \in selected
             /\ r.station \in 1..MaxRevision /\ StationIndex(r.station) \in Nat
  <2>1. r \in ReceptionRecord
    BY <1>6, StoredKnown
  <2>2. r.station \in selected
    BY <1>5
  <2> QED BY <2>1, <2>2, KnownStations
<1>8. ASSUME NEW r \in S, NEW q \in S, r.station = q.station
      PROVE  /\ r.transmission = q.transmission => r = q
             /\ r.sequence = q.sequence => r = q
  <2> DEFINE id == r.station
             n == Retained(id)
  <2>1. id \in StationIDs
    BY <1>5
  <2>2. PICK j \in DOMAIN history[id] : r = history[id][j]
    BY <1>5
  <2>3. PICK k \in DOMAIN history[id] : q = history[id][k]
    BY <1>5, <1>8
  <2>4. /\ n \in Nat /\ DOMAIN history[id] = 1..n /\ Dropped(id) \in Nat
        /\ \A i \in 1..n : history[id][i].sequence = Dropped(id) + i
        /\ \A a, b \in 1..n : a < b => history[id][a].transmission < history[id][b].transmission
    BY <1>0, <2>1, RetainedFacts
  <2>5. r.transmission \in Nat /\ q.transmission \in Nat
    BY <1>7, ReceptionFields
  <2>6. j \in Nat /\ k \in Nat /\ j \in 1..n /\ k \in 1..n
    BY <2>4
  <2> HIDE DEF n, id
  <2>7. r.sequence = q.sequence => j = k
    BY <2>2, <2>3, <2>4, <2>6
  <2>8. r.transmission = q.transmission => j = k
    <3>1. j < k => r.transmission < q.transmission
      BY <2>2, <2>3, <2>4, <2>6
    <3>2. k < j => q.transmission < r.transmission
      BY <2>2, <2>3, <2>4, <2>6
    <3> QED BY <2>5, <2>6, <3>1, <3>2
  <2> QED BY <2>2, <2>3, <2>7, <2>8
<1>9. ASSUME NEW r \in S, NEW q \in S, StationIndex(r.station) = StationIndex(q.station)
      PROVE  r.station = q.station
  <2>1. r.station \in StationIDs /\ q.station \in StationIDs
    BY <1>7
  <2>2. /\ StationOf(r.station).id = r.station
        /\ StationOf(r.station) = state.stations[StationIndex(r.station)]
    BY <2>1, KnownStations
  <2>3. /\ StationOf(q.station).id = q.station
        /\ StationOf(q.station) = state.stations[StationIndex(q.station)]
    BY <2>1, KnownStations
  <2> QED BY <1>9, <2>2, <2>3
<1> QED BY <1>4, <1>6, <1>7, <1>8, <1>9

\* The sample is small, in the order of the answer, and has no reception twice.
LEMMA RecentListed ==
  ASSUME Readable, NEW requested \in SUBSET StationIDs, NEW o, o = Observations(requested)
  PROVE  /\ Len(o.recent) <= RecentReceptionLimit
         /\ \A r \in Elements(o.recent) : r \in Stored /\ r.station \in Selected(requested)
         /\ IsInjective([k \in DOMAIN o.recent |->
                           <<o.recent[k].station, o.recent[k].sequence>>])
         /\ RecentOrdered(o.recent)
<1> DEFINE selected == Selected(requested)
           S == UNION {ToSet(Newest(history[id], RecentReceptionLimit)) : id \in selected}
           all == Sorted(S, StoredBefore)
           sample == Newest(all, RecentReceptionLimit)
           P == ToSet(sample)
           s == o.recent
<1>0. RecentReceptionLimit \in Nat
  BY ReadsAssumption
<1>1. s = Sorted(P, SentBefore)
  <2>1. s = RecentReceptions(selected)
    BY SnapshotFields
  <2> QED BY <2>1 DEF RecentReceptions
<1>2. selected \in SUBSET StationIDs
  BY DEF Selected
<1> HIDE DEF selected
<1>3. /\ IsFiniteSet(S) /\ S \subseteq Stored
      /\ \A r \in S : /\ r \in ReceptionRecord /\ r.station \in selected
                      /\ r.station \in 1..MaxRevision /\ StationIndex(r.station) \in Nat
      /\ \A r, q \in S : r.station = q.station /\ r.transmission = q.transmission => r = q
      /\ \A r, q \in S : r.station = q.station /\ r.sequence = q.sequence => r = q
      /\ \A r, q \in S : StationIndex(r.station) = StationIndex(q.station)
                           => r.station = q.station
  BY <1>2, CandidatesFacts
<1> HIDE DEF S
<1>4. Lists(all, S, ByStorage(S))
  <2>1. S \in SUBSET ReceptionRecord /\ \A x \in S : StationIndex(x.station) \in Int
    BY <1>3
  <2>2. \A x, y \in S : Together(x, y) /\ StationIndex(x.station) = StationIndex(y.station)
                          => x = y
    BY <1>3 DEF Together
  <2> QED BY <1>3, <2>1, <2>2, StorageSorted
<1> HIDE DEF all
<1>5. all \in Seq(S)
  BY <1>4 DEF Lists
<1>6. sample \in Seq(S) /\ Len(sample) \in Nat /\ Len(sample) <= RecentReceptionLimit
  BY <1>0, <1>5, NewestShape
<1> HIDE DEF sample
<1>7. /\ IsFiniteSet(P) /\ Cardinality(P) \in Nat /\ Cardinality(P) <= Len(sample)
  BY <1>6, ElementsFinite
<1>8. P \subseteq S
  BY <1>6 DEF ToSet
<1> HIDE DEF P
<1>9. Lists(s, P, BySending(P))
  <2>1. P \in SUBSET ReceptionRecord /\ \A x \in P : x.station \in 1..MaxRevision
    BY <1>3, <1>8
  <2>2. \A x, y \in P : Together(x, y) /\ x.station = y.station => x = y
    BY <1>3, <1>8 DEF Together
  <2> QED BY <1>1, <1>7, <2>1, <2>2, SendingSorted
<1> HIDE DEF s
<1>10. /\ Len(s) = Cardinality(P) /\ DOMAIN s = 1..Len(s) /\ Len(s) \in Nat
       /\ \A k \in DOMAIN s : s[k] \in P
       /\ \A j, k \in DOMAIN s : j < k => s[j] \in BySending(P)[s[k]]
  BY <1>9 DEF Lists
<1>11. Len(s) <= RecentReceptionLimit
  BY <1>0, <1>6, <1>7, <1>10
<1>12. \A r \in P : /\ r.timestamp \in Nat /\ r.transmission \in Nat /\ r.sequence \in Nat
                    /\ TextRank[r.station] \in Int
  BY <1>3, <1>8, ReceptionFields, TextAssumption
<1>13. \A r \in Elements(s) : r \in Stored /\ r.station \in selected
  <2>1. \A r \in Elements(s) : r \in P
    BY <1>10 DEF Elements
  <2> QED BY <1>3, <1>8, <2>1
<1>14. \A j, k \in DOMAIN s : j < k => SentBefore(s[j], s[k])
  BY <1>10 DEF BySending
<1>15. RecentOrdered(s)
  <2> SUFFICES ASSUME NEW k \in 2..Len(s)
               PROVE  \/ s[k - 1].timestamp < s[k].timestamp
                      \/ /\ s[k - 1].timestamp = s[k].timestamp
                         /\ s[k - 1].transmission < s[k].transmission
                      \/ /\ s[k - 1].timestamp = s[k].timestamp
                         /\ s[k - 1].transmission = s[k].transmission
                         /\ TextRank[s[k - 1].station] <= TextRank[s[k].station]
    BY DEF RecentOrdered
  <2>1. k \in DOMAIN s /\ k - 1 \in DOMAIN s /\ k - 1 < k
    BY <1>10
  <2>2. SentBefore(s[k - 1], s[k])
    BY <1>14, <2>1
  <2>3. TextRank[s[k - 1].station] \in Int /\ TextRank[s[k].station] \in Int
    BY <1>10, <1>12, <2>1
  <2> QED BY <2>2, <2>3 DEF SentBefore, Earlier, Together, StationBefore, TextBefore
<1>16. \A x \in P : x \notin BySending(P)[x]
  BY <1>12 DEF BySending, SentBefore, Earlier, Together, StationBefore, TextBefore
<1>17. \A j, k \in DOMAIN s : s[j] = s[k] => j = k
  BY <1>9, <1>16, ListedOnce
<1>18. IsInjective([k \in DOMAIN s |-> <<s[k].station, s[k].sequence>>])
  <2> DEFINE f == [k \in DOMAIN s |-> <<s[k].station, s[k].sequence>>]
  <2>1. ASSUME NEW j \in DOMAIN s, NEW k \in DOMAIN s, f[j] = f[k] PROVE j = k
    <3>1. <<s[j].station, s[j].sequence>> = <<s[k].station, s[k].sequence>>
      BY <2>1
    <3>2. s[j].station = s[k].station /\ s[j].sequence = s[k].sequence
      BY <3>1
    <3>3. s[j] \in S /\ s[k] \in S
      BY <1>8, <1>10
    <3>4. s[j] = s[k]
      BY <1>3, <3>2, <3>3
    <3> QED BY <1>17, <3>4
  <2>2. DOMAIN f = DOMAIN s
    OBVIOUS
  <2> HIDE DEF f
  <2>3. IsInjective(f)
    BY <2>1, <2>2 DEF IsInjective
  <2> QED BY <2>3 DEF f
<1> QED BY <1>11, <1>13, <1>15, <1>18 DEF s, selected

-----------------------------------------------------------------------------
(***************************************************************************)
(* Snapshots are accepted                                                  *)
(***************************************************************************)
\* The fields of a reference.
LEMMA ReferenceFields ==
  ASSUME NEW r, NEW m
  PROVE  LET a == Reference(r, m)
         IN /\ a.station = r.station /\ a.sequence = r.sequence
            /\ a.transmission = r.transmission /\ a.mmsi = m
            /\ a.channel = r.channel /\ a.timestamp = r.timestamp
BY DEF Reference

\* Every reference is to a stored reception.
LEMMA ReferencesStored ==
  ASSUME Readable, NEW requested \in SUBSET StationIDs, NEW o, o = Observations(requested),
         NEW a \in References(o)
  PROVE  \E r \in Stored :
           /\ a.station = r.station /\ a.sequence = r.sequence
           /\ a.transmission = r.transmission /\ SameTransmission(a, r)
<1>1. ASSUME NEW r \in Stored, NEW x, NEW m, a = Reference(x, m), m = r.mmsi,
             x.station = r.station, x.sequence = r.sequence, x.transmission = r.transmission,
             x.channel = r.channel, x.timestamp = r.timestamp
      PROVE  /\ a.station = r.station /\ a.sequence = r.sequence
             /\ a.transmission = r.transmission /\ SameTransmission(a, r)
  BY <1>1, ReferenceFields DEF SameTransmission
<1>2. \/ \E r \in Elements(o.recent) : a = Reference(r, r.mmsi)
      \/ \E t \in Elements(o.targets) :
           \/ a = Reference(t.report, t.report.mmsi)
           \/ \E s \in Elements(t.stations) : a = Reference(s, t.mmsi)
  BY DEF References
<1>3. CASE \E r \in Elements(o.recent) : a = Reference(r, r.mmsi)
  <2>1. PICK r \in Elements(o.recent) : a = Reference(r, r.mmsi)
    BY <1>3
  <2>2. r \in Stored
    BY RecentListed
  <2> QED BY <1>1, <2>1, <2>2
<1>4. ASSUME NEW t \in Elements(o.targets),
             \/ a = Reference(t.report, t.report.mmsi)
             \/ \E s \in Elements(t.stations) : a = Reference(s, t.mmsi)
      PROVE  \E r \in Stored :
               /\ a.station = r.station /\ a.sequence = r.sequence
               /\ a.transmission = r.transmission /\ SameTransmission(a, r)
  <2> DEFINE selected == Selected(requested)
  <2>1. PICK m \in DOMAIN targets : /\ ObservedBy(m, selected) # {}
                                    /\ t = ObservedTarget(m, ObservedBy(m, selected))
    BY TargetsListed
  <2>2. PICK S : S = ObservedBy(m, selected)
    OBVIOUS
  <2>3. S # {} /\ t = ObservedTarget(m, S)
    BY <2>1, <2>2
  <2>4. /\ S \subseteq Stored /\ \A r \in S : r.mmsi = m
        /\ Chosen(S) \in S
    BY <2>2, <2>3, ObservedFacts
  <2>5. t.report = Chosen(S) /\ t.mmsi = m /\ t.stations = Provenance(S)
    BY <2>3, ObservedTargetFields
  <2>6. CASE a = Reference(t.report, t.report.mmsi)
    <3> DEFINE r == t.report
    <3>1. r \in Stored
      BY <2>4, <2>5
    <3> HIDE DEF r
    <3>2. a = Reference(r, r.mmsi)
      BY <2>6 DEF r
    <3> QED BY <1>1, <3>1, <3>2
  <2>7. CASE \E s \in Elements(t.stations) : a = Reference(s, t.mmsi)
    <3>1. PICK s \in Elements(t.stations) : a = Reference(s, t.mmsi)
      BY <2>7
    <3>2. Elements(t.stations) = {TargetStation(r, Chosen(S)) : r \in S}
      BY <2>2, <2>3, <2>5, ProvenanceListed
    <3>3. PICK r \in S : s = TargetStation(r, Chosen(S))
      BY <3>1, <3>2
    <3>4. /\ s.station = r.station /\ s.sequence = r.sequence
          /\ s.transmission = r.transmission /\ s.timestamp = r.timestamp
          /\ s.channel = r.channel
      BY <3>3, TargetStationFields
    <3>5. r \in Stored /\ t.mmsi = r.mmsi
      BY <2>4, <2>5
    <3> QED BY <1>1, <3>1, <3>4, <3>5
  <2> QED BY <1>4, <2>6, <2>7
<1> QED BY <1>2, <1>3, <1>4

\* References to one reception, and to one transmission, agree.
LEMMA ReferencesAccepted ==
  ASSUME Readable, NEW requested \in SUBSET StationIDs, NEW o, o = Observations(requested)
  PROVE  ReferencesAgree(References(o))
<1>1. \A r, q \in Stored :
        /\ r.station = q.station /\ r.sequence = q.sequence => r.transmission = q.transmission
        /\ r.transmission = q.transmission => SameTransmission(r, q)
  BY DEF Readable, SnapshotInv, SourceInv, Agreement, Held
<1> SUFFICES ASSUME NEW a \in References(o), NEW b \in References(o)
             PROVE  /\ a.station = b.station /\ a.sequence = b.sequence
                         => a.transmission = b.transmission
                    /\ a.transmission = b.transmission => SameTransmission(a, b)
  BY DEF ReferencesAgree, SameTransmission
<1>2. PICK r \in Stored : /\ a.station = r.station /\ a.sequence = r.sequence
                          /\ a.transmission = r.transmission /\ SameTransmission(a, r)
  BY ReferencesStored
<1>3. PICK q \in Stored : /\ b.station = q.station /\ b.sequence = q.sequence
                          /\ b.transmission = q.transmission /\ SameTransmission(b, q)
  BY ReferencesStored
<1>4. a.station = b.station /\ a.sequence = b.sequence => a.transmission = b.transmission
  BY <1>1, <1>2, <1>3
<1>5. a.transmission = b.transmission => SameTransmission(a, b)
  BY <1>1, <1>2, <1>3 DEF SameTransmission
<1> QED BY <1>4, <1>5

\* The display accepts what the simulator answers for a selection.
LEMMA SnapshotAccepted ==
  ASSUME Readable, NEW requested \in SUBSET StationIDs, NEW o, o = Observations(requested)
  PROVE  ProjectObservations(requested, o)
<1> DEFINE ids == {s.station.id : s \in Elements(o.stations)}
           wanted == IF requested = {} THEN ids ELSE requested
           lost == Cardinality({t \in Elements(o.targets) : t.status = "lost"})
<1>0. TimeValid(o)
  <2>1. o.now = state.elapsed /\ o.snapshotAt = state.elapsed /\ o.paused = (o.speed = 0)
    BY SnapshotFields
  <2>2. state.elapsed \in Nat /\ Millisecond \in Nat \ {0}
    BY StateFields, ReadsAssumption DEF Readable
  <2>3. state.elapsed \div Millisecond \in Nat
    BY <2>2, DivMod
  <2>4. o.now >= 0 /\ Milliseconds(o.now) >= 0
    BY <2>1, <2>2, <2>3 DEF Milliseconds
  <2>5. o.snapshotAt = o.now
    BY <2>1
  <2> QED BY <2>1, <2>4, <2>5, Zenon DEF TimeValid
<1>1. o.revision # 0 /\ o.stationRevision # 0
  <2>1. state.revision >= 1 /\ state.stationRevision >= 1
    BY DEF Readable, SnapshotInv, LimitsInv
  <2>2. o.revision = state.revision /\ o.stationRevision = state.stationRevision
    BY SnapshotFields
  <2> QED BY <2>1, <2>2
<1>2. /\ o.receivedTransmissions <= o.transmissions
      /\ o.receivedTransmissions <= o.receptions
  <2>1. /\ totals.receivedTransmissions <= totals.receptions
        /\ totals.receivedTransmissions <= state.sequence
    BY DEF Readable, SnapshotInv, TotalsInv, Idle
  <2>2. /\ o.receivedTransmissions = totals.receivedTransmissions
        /\ o.receptions = totals.receptions /\ o.transmissions = state.sequence
    BY SnapshotFields
  <2> QED BY <2>1, <2>2
<1>3. Len(o.stations) <= MaxStations
  BY KnownStations, StationsListed
<1>4. Len(o.targets) <= TargetLimit
  BY TargetsListed
<1>5. Len(o.recent) <= RecentReceptionLimit
  BY RecentListed
<1>6. wanted = Selected(requested) /\ o.selection = Sorted(wanted, TextBefore)
  BY SelectionListed
<1>7. \A s \in Elements(o.stations) : \E id \in StationIDs : s = StationObservation(id)
  <2>1. Elements(o.stations) = {StationObservation(id) : id \in StationIDs}
    BY StationsListed
  <2> QED BY <2>1
<1>8. ASSUME NEW s \in Elements(o.stations) PROVE StationValid(s, o.now)
  <2>1. PICK id \in StationIDs : s = StationObservation(id)
    BY <1>7
  <2>2. o.now = state.elapsed
    BY SnapshotFields
  <2> QED BY <2>1, <2>2, StationAccepted
<1>9. \A k \in 2..Len(o.stations) :
        TextBefore(o.stations[k - 1].station.id, o.stations[k].station.id)
  BY StationsListed
<1>10. \A j, k \in DOMAIN o.targets : o.targets[j].mmsi = o.targets[k].mmsi => j = k
  BY TargetsListed
<1>11. ASSUME NEW t \in Elements(o.targets) PROVE TargetValid(o, t)
  <2>1. PICK m \in DOMAIN targets :
          /\ ObservedBy(m, Selected(requested)) # {}
          /\ t = ObservedTarget(m, ObservedBy(m, Selected(requested)))
    BY TargetsListed
  <2> QED BY <2>1, TargetAccepted
<1>12. lost = o.lostTargets /\ Len(o.targets) - lost = o.currentTargets
  <2>1. lost = o.lostTargets
    BY LostCounted
  <2>2. Len(o.targets) - o.lostTargets = o.currentTargets
    BY LostCounted
  <2> QED BY <2>1, <2>2
<1>13. ASSUME NEW s \in Elements(o.stations), s.station.id \in wanted
       PROVE  /\ s.current = ProvenanceCount(o, s.station.id, FALSE)
              /\ s.lost = ProvenanceCount(o, s.station.id, TRUE)
  <2>1. PICK id \in StationIDs : s = StationObservation(id)
    BY <1>7
  <2>2. s.station.id = id
    BY <2>1, StationsListed
  <2>3. s.current = CountObservations(id, FALSE) /\ s.lost = CountObservations(id, TRUE)
    BY <2>1, StationFields
  <2>4. id \in Selected(requested)
    BY <1>6, <1>13, <2>2
  <2>5. /\ CountObservations(id, FALSE) = ProvenanceCount(o, id, FALSE)
        /\ CountObservations(id, TRUE) = ProvenanceCount(o, id, TRUE)
    BY <2>4, ProvenanceCounted
  <2> QED BY <2>2, <2>3, <2>5
<1>14. /\ IsInjective([k \in DOMAIN o.recent |-> <<o.recent[k].station, o.recent[k].sequence>>])
       /\ RecentOrdered(o.recent)
  BY RecentListed
<1>15. ASSUME NEW r \in Elements(o.recent) PROVE ReceptionValid(o, r)
  <2>1. r \in Stored /\ r.station \in Selected(requested)
    BY RecentListed
  <2> QED BY <2>1, ReceptionAccepted
<1>16. ReferencesAgree(References(o))
  BY ReferencesAccepted
<1> QED
  BY <1>0, <1>1, <1>2, <1>3, <1>4, <1>5, <1>6, <1>8, <1>9, <1>10, <1>11, <1>12, <1>13,
     <1>14, <1>15, <1>16, Zenon DEF ProjectObservations

\* No snapshot of a readable state is refused.
LEMMA SnapshotsValid ==
  TypeInv /\ CoherentInv /\ StoreInv /\ SnapshotInv => SnapshotsAccepted
<1> SUFFICES ASSUME TypeInv, CoherentInv, StoreInv, SnapshotInv, Idle,
                    NEW requested \in SUBSET StationIDs
             PROVE  ProjectObservations(requested, Observations(requested))
  BY DEF SnapshotsAccepted
<1>1. Readable
  BY DEF Readable
<1> QED BY <1>1, SnapshotAccepted

\* The display refuses no snapshot that the simulator can send, for any selection and
\* any number of stations, targets and receptions (projectObservations).
THEOREM SnapshotsCorrect == Spec => []SnapshotsAccepted
<1>1. EngineInv /\ SnapshotInv => SnapshotsAccepted
  BY SnapshotsValid DEF EngineInv
<1> QED BY <1>1, SnapshotAlways, PTL

\* The display refuses no answer of the simulator.
THEOREM AnswersCorrect == Spec => []AnswersAccepted
<1>1. EngineInv /\ SnapshotInv => AnswersAccepted
  BY SnapshotsValid, PagesValid DEF EngineInv, AnswersAccepted
<1> QED BY <1>1, SnapshotAlways, PTL
=============================================================================
