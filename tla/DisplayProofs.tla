--------------------------- MODULE DisplayProofs ---------------------------
(***************************************************************************)
(* Safety of the display page and of what it draws, for any stations,      *)
(* limits and runs.                                                        *)
(***************************************************************************)
EXTENDS DisplayView, FiniteSetTheorems, SequenceTheorems, TLAPS

USE DEF view, loop, history

-----------------------------------------------------------------------------
(***************************************************************************)
(* Types                                                                   *)
(***************************************************************************)
\* The latest reception of each station that a simulator or a snapshot knows.
Latest == UNION {[D -> Nat] : D \in SUBSET Stations}
Snapshot ==
  {v \in [run : Nat, selection : SUBSET Stations, latest : Latest] :
     v.selection \subseteq DOMAIN v.latest}
HistoryRow == [run : Nat, station : Stations, sequence : Nat]
Page == [rows : Seq(HistoryRow), nextAfter : Int, gap : BOOLEAN]
MainRequest ==
  [phase : {"none", "sent", "ok", "not found"}, fresh : BOOLEAN,
   selection : SUBSET Stations, answer : Snapshot]
HistRequest ==
  [phase : {"none", "sent", "ok", "identity changed"}, fresh : BOOLEAN, run : Nat,
   station : {NoStation} \cup Stations, after : Int, answer : Page]

TypeInv ==
  /\ server \in [run : Nat \ {0}, latest : Latest]
  /\ snapshot \in Snapshot
  /\ selection \in SUBSET Stations
  /\ pending \in BOOLEAN /\ stale \in BOOLEAN /\ immediate \in BOOLEAN
  /\ blocked \in BOOLEAN /\ paused \in BOOLEAN /\ ended \in BOOLEAN
  /\ main \in MainRequest
  /\ timers \in Nat
  /\ station \in {NoStation} \cup Stations
  /\ rows \in Seq(HistoryRow)
  /\ cursor \in Int
  /\ hist \in HistRequest

\* Steps that only count a click of the user leave all of this alone.
pageVars == <<server, view, loop, history, paused, hist, ended>>

-----------------------------------------------------------------------------
(***************************************************************************)
(* What the operators that the page is built from return                   *)
(***************************************************************************)
\* The latest receptions form a function on some of the stations.
LEMMA LatestFacts ==
  /\ <<>> \in Latest
  /\ \A l \in Latest : DOMAIN l \subseteq Stations /\ \A s \in DOMAIN l : l[s] \in Nat
  /\ \A l \in Latest, s \in Stations : s \in DOMAIN l => [l EXCEPT ![s] = @ + 1] \in Latest
  /\ \A l \in Latest, D \in SUBSET Stations : D \subseteq DOMAIN l => Restrict(l, D) \in Latest
  /\ [s \in Stations |-> 0] \in Latest
<1>1. ASSUME NEW D \in SUBSET Stations, NEW f \in [D -> Nat] PROVE f \in Latest
  BY DEF Latest
<1>2. ASSUME NEW l \in Latest
      PROVE  /\ DOMAIN l \subseteq Stations /\ l \in [DOMAIN l -> Nat]
             /\ \A s \in DOMAIN l : l[s] \in Nat
  <2>1. PICK D \in SUBSET Stations : l \in [D -> Nat]
    BY DEF Latest
  <2> QED BY <2>1
<1>3. <<>> \in Latest
  <2>1. <<>> \in [{} -> Nat]
    OBVIOUS
  <2> QED BY <1>1, <2>1
<1>4. ASSUME NEW l \in Latest, NEW s \in Stations, s \in DOMAIN l
      PROVE  [l EXCEPT ![s] = @ + 1] \in Latest
  <2>1. [l EXCEPT ![s] = @ + 1] \in [DOMAIN l -> Nat]
    BY <1>2, <1>4
  <2> QED BY <1>1, <1>2, <2>1
<1>5. ASSUME NEW l \in Latest, NEW D \in SUBSET Stations, D \subseteq DOMAIN l
      PROVE  Restrict(l, D) \in Latest
  <2>1. Restrict(l, D) \in [D -> Nat]
    BY <1>2, <1>5 DEF Restrict
  <2> QED BY <1>1, <2>1
<1>6. [s \in Stations |-> 0] \in Latest
  BY <1>1
<1> QED BY <1>2, <1>3, <1>4, <1>5, <1>6

\* All elements of a sequence, in order, are the sequence.
LEMMA AllElements ==
  ASSUME NEW S, NEW s \in Seq(S)
  PROVE  ElementsAt(s, DOMAIN s) = s
<1>1. Len(s) \in Nat /\ DOMAIN s = 1..Len(s)
  BY LenProperties
<1>2. \A n \in Nat : Cardinality(1..n) = n
  BY FS_Interval
<1> DEFINE upTo(k) == {j \in DOMAIN s : j <= k}
           place(n) == CHOOSE k \in DOMAIN s : Cardinality(upTo(k)) = n
<1>3. ASSUME NEW k \in DOMAIN s PROVE Cardinality(upTo(k)) = k
  <2>1. upTo(k) = 1..k /\ k \in Nat
    BY <1>1
  <2> QED BY <1>2, <2>1
<1>4. Cardinality(DOMAIN s) = Len(s)
  BY <1>1, <1>2
<1>5. ElementsAt(s, DOMAIN s) = [n \in 1..Len(s) |-> s[place(n)]]
  BY <1>4 DEF ElementsAt
<1> HIDE DEF upTo
<1>6. \A n \in 1..Len(s) : place(n) = n
  BY <1>1, <1>3
<1> HIDE DEF place
<1>7. s = [n \in 1..Len(s) |-> s[n]]
  BY <1>1
<1> QED BY <1>5, <1>6, <1>7

\* The newest elements are a suffix.
LEMMA NewestSuffix ==
  ASSUME NEW S, NEW s \in Seq(S), NEW n \in Nat \ {0}
  PROVE  LET t == Newest(s, n)
         IN /\ t \in Seq(S) /\ Len(t) <= n /\ Len(t) <= Len(s)
            /\ s # <<>> => t # <<>>
            /\ \A k \in 1..Len(t) : t[k] = s[k + (Len(s) - Len(t))]
<1>1. Len(s) \in Nat /\ DOMAIN s = 1..Len(s)
  BY LenProperties
<1>2. CASE Len(s) > n
  <2>1. Newest(s, n) = SubSeq(s, Len(s) - n + 1, Len(s))
    BY <1>2 DEF Newest
  <2>2. /\ Newest(s, n) \in Seq(S) /\ Len(Newest(s, n)) = n
        /\ \A k \in 1..n : Newest(s, n)[k] = s[Len(s) - n + k]
    <3>1. Len(s) - n + 1 \in 1..(Len(s) + 1) /\ Len(s) \in 0..Len(s)
      BY <1>1, <1>2
    <3> DEFINE m == Len(s) - n + 1
    <3> HIDE DEF m
    <3>2. m \in 1..(Len(s) + 1) /\ Len(s) \in Int /\ m <= Len(s)
      BY <1>1, <1>2, <3>1 DEF m
    <3>3. /\ SubSeq(s, m, Len(s)) \in Seq(S)
          /\ Len(SubSeq(s, m, Len(s))) = Len(s) - m + 1
          /\ \A k \in 1..(Len(s) - m + 1) : SubSeq(s, m, Len(s))[k] = s[m + k - 1]
      BY <3>1, <3>2, SubSeqProperties DEF m
    <3>4. Len(s) - m + 1 = n /\ \A k \in 1..n : m + k - 1 = Len(s) - n + k
      BY <1>1 DEF m
    <3>5. SubSeq(s, m, Len(s)) = Newest(s, n)
      BY <2>1 DEF m
    <3> QED BY <3>3, <3>4, <3>5
  <2>3. Newest(s, n) # <<>>
    BY <2>2
  <2> QED BY <1>1, <1>2, <2>2, <2>3
<1>3. CASE ~(Len(s) > n)
  <2>1. Newest(s, n) = s
    BY <1>3 DEF Newest
  <2> QED BY <1>1, <1>3, <2>1
<1> QED BY <1>2, <1>3

\* A finite set has a sequence of its elements.
LEMMA SequenceOfSet ==
  ASSUME NEW S, IsFiniteSet(S)
  PROVE  SetToSeq(S) \in Seq(S) /\ DOMAIN SetToSeq(S) = 1..Cardinality(S)
<1>1. Cardinality(S) \in Nat /\ ExistsBijection(1..Cardinality(S), S)
  BY FS_CardinalityType
<1>2. PICK f \in [1..Cardinality(S) -> S] : IsInjective(f)
  BY <1>1 DEF ExistsBijection, Bijection, Injection
<1>3. SetToSeq(S) \in [1..Cardinality(S) -> S]
  BY <1>2 DEF SetToSeq
<1> QED BY <1>1, <1>3

\* The sample of a snapshot shows receptions of its run.
LEMMA SampleRows ==
  ASSUME NEW v \in Snapshot
  PROVE  /\ Sample(v) \in Seq(HistoryRow)
         /\ \A k \in DOMAIN Sample(v) : Sample(v)[k].run = v.run
<1> DEFINE heard == {s \in (IF v.selection = {} THEN DOMAIN v.latest ELSE v.selection) :
                       v.latest[s] > 0}
           shown == {Row(v.run, s, v.latest[s]) : s \in heard}
<1>1. /\ v.run \in Nat /\ v.selection \subseteq DOMAIN v.latest
      /\ DOMAIN v.latest \subseteq Stations /\ \A s \in DOMAIN v.latest : v.latest[s] \in Nat
  BY LatestFacts DEF Snapshot
<1>2. \A s \in heard : s \in Stations /\ v.latest[s] \in Nat
  BY <1>1
<1>3. IsFiniteSet(heard)
  <2>1. heard \in SUBSET Stations
    BY <1>2
  <2> QED BY <2>1, DisplayAssumption, FS_Subset
<1>4. IsFiniteSet(shown)
  <2> DEFINE f == [s \in heard |-> Row(v.run, s, v.latest[s])]
  <2>1. f \in [heard -> shown] /\ \A r \in shown : \E s \in heard : f[s] = r
    OBVIOUS
  <2> HIDE DEF heard, shown
  <2>2. f \in Surjection(heard, shown)
    BY <2>1 DEF Surjection
  <2> HIDE DEF f
  <2> QED BY <1>3, <2>2, FS_Surjection
<1>5. \A r \in shown : r \in HistoryRow /\ r.run = v.run
  BY <1>1, <1>2 DEF Row, HistoryRow
<1>6. Sample(v) = SetToSeq(shown)
  BY DEF Sample
<1> HIDE DEF shown
<1>7. Sample(v) \in Seq(shown)
  BY <1>4, <1>6, SequenceOfSet
<1>8. \A k \in DOMAIN Sample(v) : Sample(v)[k] \in shown
  BY <1>7
<1>9. Sample(v) \in Seq(HistoryRow)
  <2>1. shown \subseteq HistoryRow
    BY <1>5
  <2> QED BY <1>7, <2>1, SeqMonotonic
<1> QED BY <1>5, <1>8, <1>9

-----------------------------------------------------------------------------
(***************************************************************************)
(* Pages of the history                                                    *)
(***************************************************************************)
\* Rows of one station in one run, without a hole, up to a cursor.
RowsSound(r, run, s, at) == \A k \in DOMAIN r : r[k] = Row(run, s, at - Len(r) + k)

PageSound(page, run, s) == RowsSound(page.rows, run, s, page.nextAfter)

\* A page without a gap continues the cursor that it was asked for.
PageContinues(page, after) ==
  IF page.rows = <<>> THEN page.nextAfter = IF after = NoCursor THEN 0 ELSE after
  ELSE after # NoCursor /\ ~page.gap => page.rows[1].sequence = after + 1

\* The simulator answers with such a page.
LEMMA PageFacts ==
  ASSUME TypeInv, NEW s \in DOMAIN server.latest, NEW after \in Int
  PROVE  LET page == PageAfter(s, after)
         IN page \in Page /\ PageSound(page, server.run, s) /\ PageContinues(page, after)
<1> DEFINE latest == server.latest[s]
           oldest == IF latest > HistoryLimit THEN latest - HistoryLimit + 1 ELSE 1
           newestFirst == IF latest - PageLimit + 1 > oldest THEN latest - PageLimit + 1 ELSE oldest
           first == IF after = NoCursor THEN newestFirst
                    ELSE IF after + 1 > oldest THEN after + 1 ELSE oldest
           last == IF first + PageLimit - 1 < latest THEN first + PageLimit - 1 ELSE latest
           sent == [k \in 1..(last - first + 1) |-> Row(server.run, s, first + k - 1)]
           page == PageAfter(s, after)
<1>1. latest \in Nat /\ s \in Stations /\ server.run \in Nat
  BY LatestFacts DEF TypeInv
<1>2. HistoryLimit \in Nat \ {0} /\ PageLimit \in Nat \ {0}
  BY DisplayAssumption
<1>3. /\ oldest \in Nat \ {0} /\ first \in Nat \ {0} /\ last \in Int
      /\ after # NoCursor /\ ~(latest > 0 /\ GapAfter(after, oldest)) /\ last >= first
           => first = after + 1
  <2> HIDE DEF latest
  <2>1. oldest \in Nat \ {0} /\ (latest = 0 => oldest = 1)
    BY <1>1, <1>2
  <2> HIDE DEF oldest
  <2>2. first \in Nat \ {0} /\ last \in Int /\ last <= latest
    BY <1>1, <1>2, <2>1
  <2>3. ASSUME after # NoCursor, ~(latest > 0 /\ GapAfter(after, oldest)), last >= first
        PROVE  first = after + 1
    <3>1. latest > 0
      BY <1>1, <2>2, <2>3
    <3> QED BY <1>1, <2>1, <2>3, <3>1 DEF GapAfter
  <2> QED BY <2>1, <2>2, <2>3
<1>4. page = [rows |-> sent,
              nextAfter |-> IF last >= first THEN last ELSE IF after = NoCursor THEN 0 ELSE after,
              gap |-> after # NoCursor /\ latest > 0 /\ GapAfter(after, oldest)]
  BY DEF PageAfter
<1> HIDE DEF latest, oldest, first, last, page
<1>5. \A k \in 1..(last - first + 1) :
        sent[k] \in HistoryRow /\ sent[k] = Row(server.run, s, first + k - 1)
  BY <1>1, <1>3 DEF Row, HistoryRow
<1>6. CASE last >= first
  <2>1. last - first + 1 \in Nat \ {0}
    BY <1>3, <1>6
  <2>2. sent \in Seq(HistoryRow) /\ Len(sent) = last - first + 1
        /\ DOMAIN sent = 1..(last - first + 1) /\ sent # <<>>
    BY <1>5, <2>1
  <2> HIDE DEF sent
  <2>3. page \in Page
    BY <1>3, <1>4, <1>6, <2>2 DEF Page
  <2>4. page.rows = sent /\ page.nextAfter = last
        /\ page.gap = (after # NoCursor /\ latest > 0 /\ GapAfter(after, oldest))
    BY <1>4, <1>6
  <2>5. PageSound(page, server.run, s)
    <3>1. \A k \in DOMAIN sent : first + k - 1 = last - Len(sent) + k
      BY <1>3, <2>1, <2>2
    <3> QED BY <1>5, <2>2, <2>4, <3>1 DEF PageSound, RowsSound
  <2>6. PageContinues(page, after)
    <3>1. sent[1].sequence = first
      <4>1. 1 \in 1..(last - first + 1)
        BY <2>1
      <4>2. sent[1] = Row(server.run, s, first + 1 - 1)
        BY <1>5, <4>1
      <4> QED BY <1>3, <4>2 DEF Row
    <3> QED BY <1>3, <1>6, <2>2, <2>4, <3>1 DEF PageContinues
  <2> QED BY <2>3, <2>5, <2>6 DEF page
<1>7. CASE ~(last >= first)
  <2>1. 1..(last - first + 1) = {}
    BY <1>3, <1>7
  <2>2. sent = <<>>
    BY <2>1
  <2> HIDE DEF sent
  <2>3. page \in Page
    BY <1>3, <1>4, <1>7, <2>2, EmptySeq DEF Page
  <2> QED BY <1>4, <1>7, <2>2, <2>3 DEF PageSound, RowsSound, PageContinues, page
<1> QED BY <1>6, <1>7

\* A page that continues the rows is appended, and the newest rows are kept.
LEMMA MergeFacts ==
  ASSUME NEW old \in Seq(HistoryRow), NEW new \in Seq(HistoryRow), NEW run, NEW s,
         NEW at \in Int, NEW upTo \in Int,
         RowsSound(old, run, s, at), RowsSound(new, run, s, upTo),
         new = <<>> => upTo = at,
         old # <<>> /\ new # <<>> => new[1].sequence = at + 1
  PROVE  LET kept == Newest(Merge(old, new), RowLimit)
         IN kept \in Seq(HistoryRow) /\ Len(kept) <= RowLimit /\ RowsSound(kept, run, s, upTo)
<1> DEFINE kept == Newest(Merge(old, new), RowLimit)
           all == old \o new
<1>1. /\ Len(old) \in Nat /\ DOMAIN old = 1..Len(old)
      /\ Len(new) \in Nat /\ DOMAIN new = 1..Len(new)
  BY LenProperties
<1>2. /\ \A k \in DOMAIN old : old[k].sequence = at - Len(old) + k
      /\ \A k \in DOMAIN new : new[k].sequence = upTo - Len(new) + k
  BY DEF RowsSound, Row
<1>3. old # <<>> /\ new # <<>> => upTo - Len(new) = at
  <2> SUFFICES ASSUME old # <<>>, new # <<>> PROVE upTo - Len(new) = at
    OBVIOUS
  <2>1. 1 \in DOMAIN new
    <3>1. Len(new) # 0
      BY EmptySeq
    <3> QED BY <1>1, <3>1
  <2>2. new[1].sequence = at + 1 /\ new[1].sequence = upTo - Len(new) + 1
    BY <1>2, <2>1
  <2> QED BY <1>1, <2>2
<1>4. Merge(old, new) = all
  <2> DEFINE known == {old[k].sequence : k \in DOMAIN old}
             fresh == {k \in DOMAIN new : new[k].sequence \notin known}
  <2>1. \A k \in DOMAIN new : new[k].sequence \notin known
    <3> SUFFICES ASSUME NEW k \in DOMAIN new, NEW j \in DOMAIN old
                 PROVE  new[k].sequence # old[j].sequence
      OBVIOUS
    <3>1. old # <<>> /\ new # <<>>
      BY <1>1
    <3> QED BY <1>1, <1>2, <1>3, <3>1
  <2>2. fresh = DOMAIN new
    BY <2>1
  <2>3. Merge(old, new) = old \o ElementsAt(new, fresh)
    BY DEF Merge
  <2> HIDE DEF fresh
  <2> QED BY <2>2, <2>3, AllElements
<1>5. /\ all \in Seq(HistoryRow) /\ Len(all) = Len(old) + Len(new)
      /\ \A k \in 1..(Len(old) + Len(new)) :
           all[k] = IF k <= Len(old) THEN old[k] ELSE new[k - Len(old)]
  BY ConcatProperties
<1> HIDE DEF all
<1>6. \A k \in 1..Len(all) : all[k] = Row(run, s, upTo - Len(all) + k)
  <2> SUFFICES ASSUME NEW k \in 1..Len(all) PROVE all[k] = Row(run, s, upTo - Len(all) + k)
    OBVIOUS
  <2>1. CASE k <= Len(old)
    <3>1. all[k] = old[k] /\ k \in DOMAIN old
      BY <1>1, <1>5, <2>1
    <3>2. old[k] = Row(run, s, at - Len(old) + k)
      BY <3>1 DEF RowsSound
    <3>3. old # <<>> /\ (new = <<>> => Len(new) = 0)
      BY <1>1, <3>1
    <3>4. upTo = at + Len(new)
      <4>1. CASE new = <<>>
        BY <3>3, <4>1
      <4>2. CASE new # <<>>
        BY <1>1, <1>3, <3>3, <4>2
      <4> QED BY <4>1, <4>2
    <3>5. Len(all) = Len(old) + Len(new)
      BY <1>5
    <3>6. at - Len(old) + k = upTo - Len(all) + k
      BY <1>1, <3>4, <3>5
    <3> QED BY <3>1, <3>2, <3>6
  <2>2. CASE ~(k <= Len(old))
    <3>1. all[k] = new[k - Len(old)] /\ k - Len(old) \in DOMAIN new
      BY <1>1, <1>5, <2>2
    <3>2. new[k - Len(old)] = Row(run, s, upTo - Len(new) + (k - Len(old)))
      BY <3>1 DEF RowsSound
    <3>3. upTo - Len(new) + (k - Len(old)) = upTo - Len(all) + k
      BY <1>1, <1>5
    <3> QED BY <3>1, <3>2, <3>3
  <2> QED BY <2>1, <2>2
<1>7. /\ kept \in Seq(HistoryRow) /\ Len(kept) <= RowLimit /\ Len(kept) <= Len(all)
      /\ \A k \in 1..Len(kept) : kept[k] = all[k + (Len(all) - Len(kept))]
  <2>1. RowLimit \in Nat \ {0}
    BY DisplayAssumption
  <2> QED BY <1>4, <1>5, <2>1, NewestSuffix
<1> HIDE DEF kept
<1>8. RowsSound(kept, run, s, upTo)
  <2>1. Len(kept) \in Nat /\ DOMAIN kept = 1..Len(kept) /\ Len(all) \in Nat
    BY <1>1, <1>5, <1>7, LenProperties
  <2> SUFFICES ASSUME NEW k \in 1..Len(kept)
               PROVE  kept[k] = Row(run, s, upTo - Len(kept) + k)
    BY <2>1 DEF RowsSound
  <2>2. k + (Len(all) - Len(kept)) \in 1..Len(all)
    BY <1>7, <2>1
  <2>3. kept[k] = Row(run, s, upTo - Len(all) + (k + (Len(all) - Len(kept))))
    BY <1>6, <1>7, <2>2
  <2>4. upTo - Len(all) + (k + (Len(all) - Len(kept))) = upTo - Len(kept) + k
    BY <2>1
  <2> QED BY <2>3, <2>4
<1> QED BY <1>7, <1>8 DEF kept

-----------------------------------------------------------------------------
(***************************************************************************)
(* Type correctness                                                        *)
(***************************************************************************)
\* Nothing shown, nothing requested.
LEMMA NothingTypes ==
  NoSnapshot \in Snapshot /\ NoMain \in MainRequest /\ NoHist \in HistRequest
<1>1. NoSnapshot \in Snapshot
  BY LatestFacts DEF NoSnapshot, Snapshot
<1>2. NoPage \in Page
  BY EmptySeq DEF NoPage, Page
<1> QED BY <1>1, <1>2 DEF NoMain, NoHist, MainRequest, HistRequest, NoCursor

\* A request of the page is well typed.
LEMMA RequestTypes ==
  ASSUME TypeInv
  PROVE  /\ \A sel \in SUBSET Stations : Request(sel) \in MainRequest
         /\ \A s \in {NoStation} \cup Stations, after \in Int : Ask(s, after) \in HistRequest
         /\ [main EXCEPT !.fresh = FALSE] \in MainRequest
         /\ [hist EXCEPT !.fresh = FALSE] \in HistRequest
<1>1. snapshot.run \in Nat
  BY DEF TypeInv, Snapshot
<1>2. \A sel \in SUBSET Stations : Request(sel) \in MainRequest
  BY NothingTypes DEF Request, MainRequest
<1>3. \A s \in {NoStation} \cup Stations, after \in Int : Ask(s, after) \in HistRequest
  BY <1>1, NothingTypes DEF Ask, HistRequest
<1>4. /\ [main EXCEPT !.fresh = FALSE] \in MainRequest
      /\ [hist EXCEPT !.fresh = FALSE] \in HistRequest
  BY DEF TypeInv, MainRequest, HistRequest
<1> QED BY <1>2, <1>3, <1>4

\* The page starts well typed.
LEMMA TypeInit == Init => TypeInv
<1> SUFFICES ASSUME Init PROVE TypeInv
  OBVIOUS
<1>1. server \in [run : Nat \ {0}, latest : Latest]
  BY LatestFacts DEF Init, NewRun
<1>2. main \in MainRequest
  BY NothingTypes DEF Init, MainRequest
<1>3. rows \in Seq(HistoryRow)
  BY EmptySeq DEF Init
<1>4. snapshot \in Snapshot /\ hist \in HistRequest
  BY NothingTypes DEF Init
<1>5. /\ selection \in SUBSET Stations /\ timers \in Nat /\ station = NoStation /\ cursor \in Int
  BY DEF Init, NoCursor
<1>6. /\ pending \in BOOLEAN /\ stale \in BOOLEAN /\ immediate \in BOOLEAN
      /\ blocked \in BOOLEAN /\ paused \in BOOLEAN /\ ended \in BOOLEAN
  BY Zenon DEF Init
<1> QED BY <1>1, <1>2, <1>3, <1>4, <1>5, <1>6 DEF TypeInv

\* The simulator's steps, and those that only answer.
LEMMA TypeServer ==
  ASSUME TypeInv,
         \/ \E s \in DOMAIN server.latest : Hear(s) \/ RemoveStation(s)
         \/ Restart \/ MainServe \/ HistServe
  PROVE  TypeInv'
<1>1. server.run \in Nat \ {0} /\ server.latest \in Latest
      /\ server = [run |-> server.run, latest |-> server.latest]
  BY DEF TypeInv
<1>2. ASSUME NEW s \in DOMAIN server.latest, Hear(s) PROVE TypeInv'
  <2>1. [server.latest EXCEPT ![s] = @ + 1] \in Latest
    BY <1>1, LatestFacts
  <2>2. server' \in [run : Nat \ {0}, latest : Latest]
    BY <1>1, <1>2, <2>1 DEF Hear
  <2> QED BY <1>2, <2>2 DEF Hear, TypeInv
<1>3. ASSUME NEW s \in DOMAIN server.latest, RemoveStation(s) PROVE TypeInv'
  <2>1. Restrict(server.latest, DOMAIN server.latest \ {s}) \in Latest
    BY <1>1, LatestFacts
  <2>2. server' \in [run : Nat \ {0}, latest : Latest]
    BY <1>1, <1>3, <2>1 DEF RemoveStation
  <2> QED BY <1>3, <2>2 DEF RemoveStation, TypeInv
<1>4. CASE Restart
  <2>1. server' \in [run : Nat \ {0}, latest : Latest]
    BY <1>1, <1>4, LatestFacts DEF Restart, NewRun
  <2> QED BY <1>4, <2>1 DEF Restart, TypeInv
<1>5. CASE MainServe
  <2>1. main \in MainRequest
    BY DEF TypeInv
  <2>2. main' \in MainRequest
    <3>1. CASE main.selection \subseteq DOMAIN server.latest
      <4>1. [run |-> server.run, selection |-> main.selection, latest |-> server.latest] \in Snapshot
        BY <1>1, <2>1, <3>1 DEF Snapshot, MainRequest
      <4> QED BY <1>5, <2>1, <3>1, <4>1 DEF MainServe, MainRequest
    <3>2. CASE ~(main.selection \subseteq DOMAIN server.latest)
      BY <1>5, <2>1, <3>2 DEF MainServe, MainRequest
    <3> QED BY <3>1, <3>2
  <2> QED BY <1>5, <2>2 DEF MainServe, TypeInv
<1>6. CASE HistServe
  <2>1. hist \in HistRequest /\ hist.after \in Int
    BY DEF TypeInv, HistRequest
  <2>2. hist' \in HistRequest
    <3>1. CASE hist.run # server.run \/ hist.station \notin DOMAIN server.latest
      BY <1>6, <2>1, <3>1 DEF HistServe, HistRequest
    <3>2. CASE ~(hist.run # server.run \/ hist.station \notin DOMAIN server.latest)
      <4>1. PageAfter(hist.station, hist.after) \in Page
        BY <2>1, <3>2, PageFacts
      <4> QED BY <1>6, <2>1, <3>2, <4>1 DEF HistServe, HistRequest
    <3> QED BY <3>1, <3>2
  <2> QED BY <1>6, <2>2 DEF HistServe, TypeInv
<1> QED BY <1>2, <1>3, <1>4, <1>5, <1>6

\* The rows that a rendering leaves.
LEMMA RenderedTypes ==
  ASSUME TypeInv, NEW v \in Snapshot, NEW s, NEW old \in Seq(HistoryRow)
  PROVE  Rendered(v, s, old) \in Seq(HistoryRow)
BY SampleRows DEF Rendered

\* The user's steps.
LEMMA TypeUser ==
  ASSUME TypeInv, User
  PROVE  TypeInv'
<1>1. <<>> \in Seq(HistoryRow) /\ NoCursor \in Int
  BY EmptySeq DEF NoCursor
<1>2. snapshot \in Snapshot /\ DOMAIN snapshot.latest \subseteq Stations
  BY LatestFacts DEF TypeInv, Snapshot
<1>3. ASSUME NEW ids \in SUBSET Stations, Choose(ids) PROVE TypeInv'
  <2>1. Only(ids) \in {NoStation} \cup Stations
    <3>1. CASE Cardinality(ids) = 1
      <4>1. ids # {}
        BY <3>1, FS_EmptySet
      <4> QED BY <3>1, <4>1 DEF Only
    <3>2. CASE Cardinality(ids) # 1
      BY <3>2 DEF Only
    <3> QED BY <3>1, <3>2
  <2>2. RequestRefresh(ids) /\ timers \in Nat /\ Request(ids) \in MainRequest
        /\ [main EXCEPT !.fresh = FALSE] \in MainRequest
    BY <1>3, RequestTypes DEF Choose, TypeInv
  <2>3. /\ main' = IF Fetching THEN [main EXCEPT !.fresh = FALSE] ELSE Request(ids)
        /\ timers' = IF Fetching THEN timers ELSE 0
    BY <2>2 DEF RequestRefresh
  <2>4. main' \in MainRequest /\ timers' \in Nat
    BY <2>2, <2>3
  <2>5. immediate' \in BOOLEAN
    BY <2>2, Zenon DEF RequestRefresh
  <2>6. /\ station' \in {NoStation} \cup Stations /\ rows' \in Seq(HistoryRow)
        /\ cursor' \in Int /\ hist' \in HistRequest
    BY <1>1, <1>3, <2>1, RequestTypes DEF Choose, ResetHistory, VoidHist
  <2> QED BY <1>3, <2>4, <2>5, <2>6 DEF Choose, Click, TypeInv
<1>4. ASSUME NEW s \in {NoStation} \cup Stations, ChooseHistory(s) PROVE TypeInv'
  <2>1. rows' \in Seq(HistoryRow)
    BY <1>1, <1>2, <1>4, RenderedTypes DEF ChooseHistory
  <2>2. hist' \in HistRequest
    BY <1>1, <1>4, RequestTypes DEF ChooseHistory
  <2> QED BY <1>1, <1>4, <2>1, <2>2 DEF ChooseHistory, Click, TypeInv
<1>5. CASE Pause
  <2>1. rows' \in Seq(HistoryRow)
    BY <1>2, <1>5, SampleRows DEF Pause, TypeInv
  <2>2. hist' \in HistRequest
    BY <1>5, RequestTypes DEF Pause, TypeInv
  <2> QED BY <1>5, <2>1, <2>2 DEF Pause, Click, TypeInv
<1>6. CASE Destroy
  BY <1>1, <1>6, RequestTypes, NothingTypes DEF Destroy, VoidHist, TypeInv
<1> QED BY <1>3, <1>4, <1>5, <1>6 DEF User

\* The steps of the snapshot loop.
LEMMA TypeMain ==
  ASSUME TypeInv,
         TimerFires \/ MainIgnored \/ MainFails \/ MainNotFound \/ MainRestarted \/ MainReceive
  PROVE  TypeInv'
<1>1. /\ <<>> \in Seq(HistoryRow) /\ NoCursor \in Int
      /\ NoMain \in MainRequest /\ NoSnapshot \in Snapshot
  BY EmptySeq, NothingTypes DEF NoCursor
<1>2. [hist EXCEPT !.fresh = FALSE] \in HistRequest
  BY RequestTypes
<1>3. EndRefresh => main' \in MainRequest /\ timers' \in Nat
  BY <1>1 DEF EndRefresh, TypeInv
<1>4. CASE TimerFires
  <2>1. main' \in MainRequest
    BY <1>4, RequestTypes DEF TimerFires, TypeInv
  <2>2. timers' \in Nat
    BY <1>4 DEF TimerFires, TypeInv
  <2> QED BY <1>4, <2>1, <2>2 DEF TimerFires, TypeInv
<1>5. CASE MainIgnored
  BY <1>3, <1>5 DEF MainIgnored, TypeInv
<1>6. CASE MainFails
  BY <1>3, <1>6 DEF MainFails, TypeInv
<1>7. CASE MainNotFound
  BY <1>1, <1>2, <1>3, <1>7 DEF MainNotFound, ResetHistory, VoidHist, TypeInv
<1>8. CASE MainRestarted
  BY <1>1, <1>2, <1>3, <1>8 DEF MainRestarted, ResetHistory, VoidHist, TypeInv
<1>9. CASE MainReceive
  <2>1. main.answer \in Snapshot
    BY DEF TypeInv, MainRequest
  <2>2. snapshot' \in Snapshot /\ station' \in {NoStation} \cup Stations /\ cursor' \in Int
    BY <1>1, <1>9, <2>1 DEF MainReceive, TypeInv
  <2>3. rows' \in Seq(HistoryRow)
    BY <1>1, <1>9, <2>1, RenderedTypes DEF MainReceive, TypeInv
  <2>4. hist' \in HistRequest
    BY <1>2, <1>9 DEF MainReceive, TypeInv
  <2> QED BY <1>3, <1>9, <2>2, <2>3, <2>4 DEF MainReceive, TypeInv
<1> QED BY <1>4, <1>5, <1>6, <1>7, <1>8, <1>9

-----------------------------------------------------------------------------
(***************************************************************************)
(* The inductive invariant                                                 *)
(***************************************************************************)
\* A request that is still valid asks for what the page wants, and an answer is of
\* a run that exists; nothing is valid any more once the page was destroyed.
MainInv ==
  /\ SelectionShown /\ OneLoop
  /\ main.fresh => main.selection = selection
  /\ main.phase = "ok" => main.answer.selection = main.selection /\ main.answer.run # 0
  /\ ended => ~main.fresh /\ ~hist.fresh

\* The history is of the snapshot shown, and a valid request continues its cursor.
HistInv ==
  /\ Loaded => snapshot.run # 0
  /\ ~Loaded => station = NoStation /\ rows = <<>> /\ ~hist.fresh
  /\ \A k \in DOMAIN rows : rows[k].run = snapshot.run
  /\ station # NoStation =>
       Len(rows) <= RowLimit /\ RowsSound(rows, snapshot.run, station, cursor)
  /\ station # NoStation /\ cursor = NoCursor => rows = <<>>
  /\ hist.fresh => hist.after = cursor
  /\ hist.phase # "none" => hist.station # NoStation
  /\ hist.phase = "ok" =>
       PageSound(hist.answer, hist.run, hist.station) /\ PageContinues(hist.answer, hist.after)

PageInv == TypeInv /\ MainInv /\ HistInv

\* The rows of a history station are as promised.
LEMMA RowsRead == PageInv => RowsContinue
<1> SUFFICES ASSUME PageInv, station # NoStation
             PROVE  /\ Len(rows) <= RowLimit
                    /\ \A k \in DOMAIN rows :
                         rows[k].run = snapshot.run /\ rows[k].station = station
                    /\ \A k \in 2..Len(rows) : rows[k].sequence = rows[k - 1].sequence + 1
                    /\ rows # <<>> => Last(rows).sequence = cursor
  BY DEF RowsContinue
<1>1. /\ rows \in Seq(HistoryRow) /\ Len(rows) \in Nat /\ DOMAIN rows = 1..Len(rows)
      /\ cursor \in Int
  BY LenProperties DEF PageInv, TypeInv
<1>2. Len(rows) <= RowLimit
  BY DEF PageInv, HistInv
<1>3. \A k \in 1..Len(rows) :
        /\ rows[k].run = snapshot.run /\ rows[k].station = station
        /\ rows[k].sequence = cursor - Len(rows) + k
  BY <1>1 DEF PageInv, HistInv, RowsSound, Row
<1>4. \A k \in 2..Len(rows) : rows[k].sequence = rows[k - 1].sequence + 1
  <2> SUFFICES ASSUME NEW k \in 2..Len(rows)
               PROVE  rows[k].sequence = rows[k - 1].sequence + 1
    OBVIOUS
  <2>1. k \in 1..Len(rows) /\ k - 1 \in 1..Len(rows)
    BY <1>1
  <2>2. /\ rows[k].sequence = cursor - Len(rows) + k
        /\ rows[k - 1].sequence = cursor - Len(rows) + (k - 1)
    BY <1>3, <2>1
  <2> QED BY <1>1, <2>2
<1>5. ASSUME rows # <<>> PROVE Last(rows).sequence = cursor
  <2>1. Len(rows) \in 1..Len(rows)
    BY <1>1, <1>5, EmptySeq
  <2> QED BY <1>1, <1>3, <2>1 DEF Last
<1> QED BY <1>1, <1>2, <1>3, <1>4, <1>5

\* A page that is received continues the rows, up to its own cursor.
LEMMA ReceivedRows ==
  ASSUME PageInv, HistReceive
  PROVE  /\ station # NoStation /\ Loaded
         /\ rows' \in Seq(HistoryRow) /\ cursor' \in Int /\ Len(rows') <= RowLimit
         /\ RowsSound(rows', snapshot.run, station, cursor')
         /\ cursor' = NoCursor => rows' = <<>>
<1> DEFINE page == hist.answer
           old == IF page.gap THEN <<>> ELSE rows
<1>1. /\ hist \in HistRequest /\ rows \in Seq(HistoryRow) /\ cursor \in Int
      /\ page \in Page /\ page.rows \in Seq(HistoryRow) /\ page.nextAfter \in Int
  BY DEF PageInv, TypeInv, HistRequest, Page
<1>2. hist.phase = "ok" /\ hist.fresh /\ hist.run = snapshot.run /\ hist.station = station
  BY DEF HistReceive, HistCurrent
<1>3. station # NoStation /\ Loaded
  BY <1>2 DEF PageInv, HistInv
<1>4. /\ Len(rows) <= RowLimit /\ RowsSound(rows, snapshot.run, station, cursor)
      /\ cursor = NoCursor => rows = <<>>
      /\ PageSound(page, snapshot.run, station) /\ PageContinues(page, cursor)
  BY <1>2, <1>3 DEF PageInv, HistInv
<1>5. rows' = Newest(Merge(old, page.rows), RowLimit) /\ cursor' = page.nextAfter
  BY DEF HistReceive
<1>6. old \in Seq(HistoryRow) /\ (old # <<>> => old = rows /\ ~page.gap)
  BY <1>1, EmptySeq
<1> DEFINE at == IF old = <<>> THEN page.nextAfter ELSE cursor
<1> HIDE DEF old
<1>7. at \in Int /\ RowsSound(old, snapshot.run, station, at)
  <2>1. CASE old = <<>>
    BY <1>1, <2>1 DEF RowsSound
  <2>2. CASE old # <<>>
    BY <1>1, <1>4, <1>6, <2>2
  <2> QED BY <2>1, <2>2
<1>8. /\ page.rows = <<>> => page.nextAfter = at
      /\ old # <<>> /\ page.rows # <<>> => page.rows[1].sequence = at + 1
  BY <1>4, <1>6 DEF PageContinues
<1>9. /\ rows' \in Seq(HistoryRow) /\ Len(rows') <= RowLimit
      /\ RowsSound(rows', snapshot.run, station, cursor')
  <2> HIDE DEF at
  <2> QED BY <1>1, <1>4, <1>5, <1>6, <1>7, <1>8, MergeFacts DEF PageSound
<1>10. cursor' = NoCursor => rows' = <<>>
  <2> SUFFICES ASSUME rows' # <<>> PROVE cursor' # NoCursor
    OBVIOUS
  <2>1. Len(rows') \in DOMAIN rows' /\ Len(rows') \in Nat
    <3>1. /\ Len(rows') \in Nat /\ DOMAIN rows' = 1..Len(rows')
          /\ Len(rows') = 0 => rows' = <<>>
      BY <1>9, LenProperties, EmptySeq
    <3>2. Len(rows') # 0
      BY <3>1, Zenon
    <3>3. Len(rows') \in 1..Len(rows')
      BY <3>1, <3>2
    <3> QED BY <3>1, <3>3, Zenon
  <2>2. rows'[Len(rows')].sequence \in Nat
    <3>1. \A r \in Seq(HistoryRow) : \A k \in DOMAIN r : r[k] \in HistoryRow
      OBVIOUS
    <3>2. rows'[Len(rows')] \in HistoryRow
      BY <1>9, <2>1, <3>1
    <3> QED BY <3>2 DEF HistoryRow
  <2>3. rows'[Len(rows')] = Row(snapshot.run, station, cursor' - Len(rows') + Len(rows'))
    BY <1>9, <2>1 DEF RowsSound
  <2>4. cursor' \in Int
    BY <1>1, <1>5
  <2>5. rows'[Len(rows')].sequence = cursor' - Len(rows') + Len(rows')
    BY <2>3 DEF Row
  <2>6. cursor' \in Nat
    BY <2>1, <2>2, <2>4, <2>5
  <2> QED BY <2>6 DEF NoCursor
<1> QED BY <1>1, <1>3, <1>5, <1>9, <1>10

\* The steps of the history loop.
LEMMA TypeHist ==
  ASSUME PageInv,
         HistoryPoll \/ HistIgnored \/ HistFails \/ HistIdentityChanged \/ HistReceive
  PROVE  TypeInv'
<1>1. <<>> \in Seq(HistoryRow) /\ NoCursor \in Int /\ NoHist \in HistRequest
  BY EmptySeq, NothingTypes DEF NoCursor
<1> USE DEF PageInv
<1>2. CASE HistoryPoll
  <2>1. hist' \in HistRequest
    BY <1>2, RequestTypes DEF HistoryPoll, TypeInv
  <2> QED BY <1>2, <2>1 DEF HistoryPoll, TypeInv
<1>3. CASE HistIgnored
  BY <1>1, <1>3 DEF HistIgnored, TypeInv
<1>4. CASE HistFails
  BY <1>1, <1>4 DEF HistFails, TypeInv
<1>5. CASE HistIdentityChanged
  <2>1. main' \in MainRequest /\ timers' \in Nat
    <3>1. timers \in Nat /\ main \in MainRequest /\ Request(selection) \in MainRequest
      BY RequestTypes DEF TypeInv
    <3>2. /\ main' = IF Fetching THEN main ELSE Request(selection)
          /\ timers' = IF Fetching THEN timers ELSE 0
      BY <1>5 DEF HistIdentityChanged
    <3> QED BY <3>1, <3>2
  <2>2. immediate' \in BOOLEAN /\ blocked' \in BOOLEAN
    BY <1>5, Zenon DEF HistIdentityChanged
  <2> QED BY <1>1, <1>5, <2>1, <2>2 DEF HistIdentityChanged, TypeInv
<1>6. CASE HistReceive
  <2>1. rows' \in Seq(HistoryRow) /\ cursor' \in Int
    BY <1>6, ReceivedRows
  <2> QED BY <1>1, <1>6, <2>1 DEF HistReceive, TypeInv
<1> QED BY <1>2, <1>3, <1>4, <1>5, <1>6

\* Every step keeps the types.
LEMMA TypeStep ==
  ASSUME PageInv, Next \/ UNCHANGED pageVars
  PROVE  TypeInv'
<1> USE DEF PageInv
<1>1. CASE Next
  BY <1>1, TypeServer, TypeUser, TypeMain, TypeHist DEF Next
<1>2. CASE UNCHANGED pageVars
  BY <1>2 DEF pageVars, TypeInv
<1> QED BY <1>1, <1>2

-----------------------------------------------------------------------------
(***************************************************************************)
(* The snapshot loop: one refresh, of the selection chosen                 *)
(***************************************************************************)
\* The page starts with one valid request, and shows nothing.
LEMMA MainInit == Init => MainInv
<1> SUFFICES ASSUME Init PROVE MainInv
  OBVIOUS
<1>1. main.phase = "sent" /\ main.selection = {} /\ selection = {}
  BY DEF Init, NoMain
<1>2. ~Loaded /\ rows = <<>> /\ timers = 0 /\ Fetching
  BY <1>1 DEF Init, Loaded, Fetching
<1>3. ~ended
  BY DEF Init
<1> QED BY <1>1, <1>2, <1>3 DEF MainInv, SelectionShown, OneLoop

\* The simulator and the history loop.
LEMMA MainServer ==
  ASSUME PageInv,
         \/ \E s \in DOMAIN server.latest : Hear(s) \/ RemoveStation(s)
         \/ Restart \/ MainServe \/ HistServe
         \/ HistoryPoll \/ HistIgnored \/ HistFails \/ HistReceive
         \/ UNCHANGED pageVars
  PROVE  MainInv'
<1> USE DEF PageInv
<1>1. main \in MainRequest /\ hist \in HistRequest /\ server.run \in Nat \ {0}
  BY DEF TypeInv
<1>2. CASE MainServe
  <2>1. /\ main'.fresh = main.fresh /\ main'.selection = main.selection
        /\ main.phase # "none" /\ main'.phase # "none"
        /\ main'.phase = "ok" =>
             main'.answer.selection = main'.selection /\ main'.answer.run # 0
    BY <1>1, <1>2 DEF MainServe, MainRequest
  <2> QED BY <1>2, <2>1 DEF MainServe, MainInv, SelectionShown, OneLoop, Loaded, Fetching
<1>3. ASSUME UNCHANGED <<view, loop, ended>>, ended => rows' = <<>> /\ ~hist'.fresh
      PROVE  MainInv'
  BY <1>3 DEF MainInv, SelectionShown, OneLoop, Loaded, Fetching
<1>4. ended => ~Loaded /\ rows = <<>> /\ ~hist.fresh
  BY DEF MainInv, OneLoop
<1>5. CASE \E s \in DOMAIN server.latest : Hear(s) \/ RemoveStation(s)
  BY <1>3, <1>4, <1>5 DEF Hear, RemoveStation
<1>6. CASE Restart
  BY <1>3, <1>4, <1>6 DEF Restart
<1>7. CASE HistServe
  <2>1. hist'.fresh = hist.fresh
    BY <1>1, <1>7 DEF HistServe, HistRequest
  <2> QED BY <1>3, <1>4, <1>7, <2>1 DEF HistServe
<1>8. CASE HistoryPoll
  BY <1>3, <1>4, <1>8 DEF HistoryPoll, CanAsk
<1>9. CASE HistIgnored \/ HistFails
  BY <1>3, <1>4, <1>9 DEF HistIgnored, HistFails, NoHist
<1>10. CASE HistReceive
  BY <1>3, <1>4, <1>10 DEF HistReceive, HistCurrent
<1>11. CASE UNCHANGED pageVars
  BY <1>3, <1>4, <1>11 DEF pageVars
<1> QED BY <1>2, <1>5, <1>6, <1>7, <1>8, <1>9, <1>10, <1>11

\* The user's choices void the request in flight or send the next one.
LEMMA MainUser ==
  ASSUME PageInv, User
  PROVE  MainInv'
<1> USE DEF PageInv
<1>1. main \in MainRequest /\ hist \in HistRequest
  BY DEF TypeInv
<1>2. /\ [main EXCEPT !.fresh = FALSE].fresh = FALSE
      /\ [main EXCEPT !.fresh = FALSE].phase = main.phase
      /\ [main EXCEPT !.fresh = FALSE].answer = main.answer
      /\ [main EXCEPT !.fresh = FALSE].selection = main.selection
      /\ [hist EXCEPT !.fresh = FALSE].fresh = FALSE
  BY <1>1 DEF MainRequest, HistRequest
<1>3. ASSUME NEW ids \in SUBSET Stations, Choose(ids) PROVE MainInv'
  <2>1. /\ ~ended /\ ~ended' /\ pending' = TRUE /\ selection' = ids
        /\ snapshot' = snapshot
    BY <1>3 DEF Choose, Click
  <2>2. RequestRefresh(ids)
    BY <1>3 DEF Choose
  <2>3. CASE Fetching
    <3>1. main' = [main EXCEPT !.fresh = FALSE] /\ timers' = timers
      BY <2>2, <2>3 DEF RequestRefresh
    <3> QED BY <1>2, <2>1, <2>3, <3>1 DEF MainInv, SelectionShown, OneLoop, Loaded, Fetching
  <2>4. CASE ~Fetching
    <3>1. main' = Request(ids) /\ timers' = 0
      BY <2>2, <2>4 DEF RequestRefresh
    <3>2. Request(ids).phase = "sent" /\ Request(ids).selection = ids
      BY DEF Request, NoMain
    <3> QED BY <2>1, <3>1, <3>2 DEF MainInv, SelectionShown, OneLoop, Loaded, Fetching
  <2> QED BY <2>3, <2>4
<1>4. ASSUME UNCHANGED <<view, loop, ended>>, ~ended PROVE MainInv'
  BY <1>4 DEF MainInv, SelectionShown, OneLoop, Loaded, Fetching
<1>5. ASSUME NEW s \in {NoStation} \cup Stations, ChooseHistory(s) PROVE MainInv'
  BY <1>4, <1>5 DEF ChooseHistory, Click
<1>6. CASE Pause
  BY <1>4, <1>6 DEF Pause, Click
<1>7. CASE Destroy
  <2>1. /\ ended' /\ timers' = 0 /\ snapshot' = NoSnapshot /\ rows' = <<>>
        /\ main' = [main EXCEPT !.fresh = FALSE] /\ hist' = [hist EXCEPT !.fresh = FALSE]
    BY <1>7 DEF Destroy, VoidHist
  <2> QED BY <1>2, <2>1 DEF MainInv, SelectionShown, OneLoop, Loaded, Fetching
<1> QED BY <1>3, <1>5, <1>6, <1>7 DEF User

\* The loop's own steps: a request ends in exactly one of them, which arms the timer.
LEMMA MainLoop ==
  ASSUME PageInv,
         TimerFires \/ MainIgnored \/ MainFails \/ MainNotFound \/ MainRestarted \/ MainReceive
  PROVE  MainInv'
<1> USE DEF PageInv
<1>1. main \in MainRequest /\ hist \in HistRequest /\ timers \in Nat
  BY DEF TypeInv
<1>2. [hist EXCEPT !.fresh = FALSE].fresh = FALSE
  BY <1>1 DEF HistRequest
<1>3. NoMain.fresh = FALSE /\ NoMain.phase = "none"
  BY DEF NoMain
<1>4. ASSUME Fetching, EndRefresh, ended' = ended
      PROVE  /\ ~Fetching' /\ ~main'.fresh /\ main'.phase = "none"
             /\ timers' = IF Fetching' \/ ended' THEN 0 ELSE 1
  <2>1. main' = NoMain /\ ~Fetching'
    BY <1>3, <1>4 DEF EndRefresh, Fetching
  <2>2. timers = 0
    BY <1>4 DEF MainInv, OneLoop
  <2>3. timers' = IF ended THEN timers ELSE timers + 1
    BY <1>4 DEF EndRefresh
  <2>4. CASE ended
    BY <1>3, <1>4, <2>1, <2>2, <2>3, <2>4
  <2>5. CASE ~ended
    BY <1>3, <1>4, <2>1, <2>2, <2>3, <2>5
  <2> QED BY <2>4, <2>5
<1>5. CASE TimerFires
  <2>1. ~ended /\ ~Fetching /\ timers = 1
    BY <1>1, <1>5 DEF TimerFires, MainInv, OneLoop
  <2>2. timers' = 0
    BY <1>5, <2>1 DEF TimerFires
  <2>3. /\ main' = Request(selection) /\ Request(selection).phase = "sent"
        /\ Request(selection).selection = selection
    BY <1>5 DEF TimerFires, Request, NoMain
  <2> QED BY <1>5, <2>1, <2>2, <2>3
          DEF TimerFires, MainInv, SelectionShown, OneLoop, Loaded, Fetching
<1>6. CASE MainIgnored \/ MainFails
  <2>1. Fetching /\ EndRefresh /\ ended' = ended /\ UNCHANGED <<snapshot, selection, pending, rows, hist>>
    BY <1>6 DEF MainIgnored, MainFails, Fetching
  <2> QED BY <1>4, <2>1 DEF MainInv, SelectionShown, OneLoop, Loaded
<1>7. CASE MainNotFound
  <2>1. /\ Fetching /\ EndRefresh /\ ended' = ended /\ pending' /\ rows' = <<>>
        /\ snapshot' = snapshot /\ hist' = [hist EXCEPT !.fresh = FALSE]
    BY <1>7 DEF MainNotFound, Fetching, ResetHistory, VoidHist
  <2> QED BY <1>2, <1>4, <2>1 DEF MainInv, SelectionShown, OneLoop, Loaded
<1>8. CASE MainRestarted
  <2>1. /\ Fetching /\ EndRefresh /\ ended' = ended /\ snapshot' = NoSnapshot /\ rows' = <<>>
        /\ hist' = [hist EXCEPT !.fresh = FALSE]
    BY <1>8 DEF MainRestarted, Fetching, ResetHistory, VoidHist
  <2> QED BY <1>2, <1>4, <2>1 DEF MainInv, SelectionShown, OneLoop, Loaded
<1>9. CASE MainReceive
  <2>1. /\ Fetching /\ EndRefresh /\ ended' = ended /\ selection' = selection
        /\ snapshot' = main.answer /\ main.phase = "ok" /\ main.fresh
    BY <1>9 DEF MainReceive, Fetching, Valid
  <2>2. ~ended /\ main.answer.selection = selection
    BY <2>1 DEF MainInv
  <2> QED BY <1>4, <2>1, <2>2 DEF MainInv, SelectionShown, OneLoop, Loaded
<1> QED BY <1>5, <1>6, <1>7, <1>8, <1>9

\* A request for a history page that is refused asks for a snapshot.
LEMMA MainRefused ==
  ASSUME PageInv, HistIdentityChanged
  PROVE  MainInv'
<1> USE DEF PageInv
<1>1. /\ hist.fresh /\ UNCHANGED <<view, ended>> /\ rows' = <<>>
      /\ main' = IF Fetching THEN main ELSE Request(selection)
      /\ timers' = IF Fetching THEN timers ELSE 0
  BY DEF HistIdentityChanged, HistCurrent
<1>2. ~ended
  BY <1>1 DEF MainInv
<1>3. CASE Fetching
  BY <1>1, <1>2, <1>3 DEF MainInv, SelectionShown, OneLoop, Loaded, Fetching
<1>4. CASE ~Fetching
  <2>1. Request(selection).phase = "sent" /\ Request(selection).selection = selection
    BY DEF Request, NoMain
  <2> QED BY <1>1, <1>2, <1>4, <2>1 DEF MainInv, SelectionShown, OneLoop, Loaded, Fetching
<1> QED BY <1>3, <1>4

\* Every step keeps the loop.
LEMMA MainStep ==
  ASSUME PageInv, Next \/ UNCHANGED pageVars
  PROVE  MainInv'
BY MainServer, MainUser, MainLoop, MainRefused DEF Next

-----------------------------------------------------------------------------
(***************************************************************************)
(* The history: rows of the station and the run shown, up to the cursor    *)
(***************************************************************************)
\* The page starts without a history station.
LEMMA HistInit == Init => HistInv
<1> SUFFICES ASSUME Init PROVE HistInv
  OBVIOUS
<1>1. ~Loaded /\ station = NoStation /\ rows = <<>> /\ hist = NoHist
  BY DEF Init, Loaded
<1>2. ~NoHist.fresh /\ NoHist.phase = "none"
  BY DEF NoHist
<1> QED BY <1>1, <1>2 DEF HistInv

\* What the history depends on.
historyVars == <<snapshot, history, hist>>

\* Steps that leave the history alone.
LEMMA HistKept ==
  ASSUME HistInv, UNCHANGED historyVars
  PROVE  HistInv'
BY DEF HistInv, historyVars, Loaded, RowsSound, PageSound, PageContinues

\* A history station, a snapshot, and what the request may still answer; the rows
\* are of the station up to the cursor, or gone.
LEMMA HistReset ==
  ASSUME PageInv,
         Loaded' => snapshot'.run # 0,
         ~Loaded' => station' = NoStation /\ rows' = <<>>,
         rows' = <<>> \/ (station' = NoStation /\ rows' \in Seq(HistoryRow)
                            /\ \A k \in DOMAIN rows' : rows'[k].run = snapshot'.run),
         hist' = [hist EXCEPT !.fresh = FALSE]
  PROVE  HistInv'
<1> USE DEF PageInv
<1>1. hist \in HistRequest
  BY DEF TypeInv
<1>2. /\ ~hist'.fresh /\ hist'.phase = hist.phase /\ hist'.station = hist.station
      /\ hist'.answer = hist.answer /\ hist'.run = hist.run /\ hist'.after = hist.after
  BY <1>1 DEF HistRequest
<1>3. /\ hist'.phase # "none" => hist'.station # NoStation
      /\ hist'.phase = "ok" => /\ PageSound(hist'.answer, hist'.run, hist'.station)
                               /\ PageContinues(hist'.answer, hist'.after)
  BY <1>2 DEF HistInv
<1>4. ASSUME rows' = <<>>
      PROVE  /\ Len(rows') <= RowLimit /\ RowsSound(rows', snapshot'.run, station', cursor')
             /\ \A k \in DOMAIN rows' : rows'[k].run = snapshot'.run
  <2>1. Len(rows') = 0 /\ DOMAIN rows' = {} /\ RowLimit \in Nat
    BY <1>4, EmptySeq, DisplayAssumption
  <2> QED BY <2>1 DEF RowsSound
<1>5. \A k \in DOMAIN rows' : rows'[k].run = snapshot'.run
  BY <1>4
<1>6. station' # NoStation =>
        /\ Len(rows') <= RowLimit /\ RowsSound(rows', snapshot'.run, station', cursor')
        /\ rows' = <<>>
  BY <1>4
<1> QED BY <1>2, <1>3, <1>5, <1>6 DEF HistInv

\* A request that is sent continues the cursor.
LEMMA HistAsked ==
  ASSUME PageInv, NEW s, NEW after,
         Loaded, s # NoStation, snapshot' = snapshot, station' = s, cursor' = after,
         rows' = <<>> \/ (s = station /\ after = cursor /\ rows' = rows),
         hist' = Ask(s, after)
  PROVE  HistInv'
<1> USE DEF PageInv
<1>1. /\ hist'.phase = "sent" /\ hist'.after = after /\ hist'.station = s
      /\ Loaded'
  BY DEF Ask, NoHist, Loaded
<1>2. /\ Len(rows') <= RowLimit /\ RowsSound(rows', snapshot'.run, station', cursor')
      /\ \A k \in DOMAIN rows' : rows'[k].run = snapshot'.run
      /\ cursor' = NoCursor => rows' = <<>>
  <2>1. CASE rows' = <<>>
    <3>1. Len(rows') = 0 /\ DOMAIN rows' = {} /\ RowLimit \in Nat
      BY <2>1, EmptySeq, DisplayAssumption
    <3> QED BY <2>1, <3>1 DEF RowsSound
  <2>2. CASE rows' # <<>>
    BY <2>2 DEF HistInv
  <2> QED BY <2>1, <2>2
<1>3. snapshot'.run # 0
  BY DEF HistInv
<1> QED BY <1>1, <1>2, <1>3 DEF HistInv

\* A request is void, or over, and the rows stay.
LEMMA HistVoided ==
  ASSUME PageInv, UNCHANGED <<snapshot, history>>,
         hist' = [hist EXCEPT !.fresh = FALSE] \/ hist' = NoHist
  PROVE  HistInv'
<1> USE DEF PageInv
<1>1. hist \in HistRequest
  BY DEF TypeInv
<1>2. CASE hist' = [hist EXCEPT !.fresh = FALSE]
  <2>1. /\ ~hist'.fresh /\ hist'.phase = hist.phase /\ hist'.station = hist.station
        /\ hist'.answer = hist.answer /\ hist'.run = hist.run /\ hist'.after = hist.after
    BY <1>1, <1>2 DEF HistRequest
  <2> QED BY <2>1 DEF HistInv, Loaded, RowsSound, PageSound, PageContinues
<1>3. CASE hist' = NoHist
  <2>1. ~hist'.fresh /\ hist'.phase = "none"
    BY <1>3 DEF NoHist
  <2> QED BY <2>1 DEF HistInv, Loaded, RowsSound
<1> QED BY <1>2, <1>3

\* The simulator answers with a page that continues the cursor asked for.
LEMMA HistServed ==
  ASSUME PageInv, HistServe
  PROVE  HistInv'
<1> USE DEF PageInv
<1>1. hist \in HistRequest /\ hist.after \in Int
  BY DEF TypeInv, HistRequest
<1>2. UNCHANGED <<snapshot, history>>
  BY DEF HistServe
<1>3. /\ hist'.fresh = hist.fresh /\ hist'.station = hist.station /\ hist'.run = hist.run
      /\ hist'.after = hist.after /\ hist.phase = "sent"
  BY <1>1 DEF HistServe, HistRequest
<1>4. ASSUME hist'.phase = "ok"
      PROVE  /\ PageSound(hist'.answer, hist'.run, hist'.station)
             /\ PageContinues(hist'.answer, hist'.after)
  <2>1. ~(hist.run # server.run \/ hist.station \notin DOMAIN server.latest)
    BY <1>1, <1>4 DEF HistServe, HistRequest
  <2>2. hist'.answer = PageAfter(hist.station, hist.after)
    BY <1>1, <2>1 DEF HistServe, HistRequest
  <2>3. /\ PageSound(PageAfter(hist.station, hist.after), server.run, hist.station)
        /\ PageContinues(PageAfter(hist.station, hist.after), hist.after)
    BY <1>1, <2>1, PageFacts
  <2> QED BY <1>3, <2>1, <2>2, <2>3
<1> QED BY <1>2, <1>3, <1>4 DEF HistInv, Loaded, RowsSound

\* The user's choices reset the history, or ask for the page after the cursor.
LEMMA HistUser ==
  ASSUME PageInv, User
  PROVE  HistInv'
<1> USE DEF PageInv
<1>1. /\ snapshot \in Snapshot /\ rows \in Seq(HistoryRow)
      /\ Loaded => snapshot.run # 0
  BY DEF TypeInv, HistInv
<1>2. ~Loaded => DOMAIN snapshot.latest = {} /\ station = NoStation /\ rows = <<>>
  BY DEF Loaded, NoSnapshot, HistInv
<1>3. ASSUME NEW ids \in SUBSET Stations, Choose(ids) PROVE HistInv'
  <2>1. /\ rows' = <<>> /\ snapshot' = snapshot /\ station' = Only(ids)
        /\ hist' = [hist EXCEPT !.fresh = FALSE] /\ ids \subseteq DOMAIN snapshot.latest
    BY <1>3 DEF Choose, ResetHistory, VoidHist
  <2>2. ~Loaded => Only(ids) = NoStation
    <3>1. ~Loaded => Cardinality(ids) = 0
      BY <1>2, <2>1, FS_EmptySet
    <3> QED BY <3>1 DEF Only
  <2> QED BY <1>1, <2>1, <2>2, HistReset DEF Loaded
<1>4. ASSUME NEW s \in {NoStation} \cup Stations, ChooseHistory(s) PROVE HistInv'
  <2>1. /\ rows' = Rendered(snapshot, s, <<>>) /\ snapshot' = snapshot /\ station' = s
        /\ cursor' = NoCursor
        /\ hist' = IF CanAsk(s, FALSE, paused) THEN Ask(s, NoCursor)
                   ELSE [hist EXCEPT !.fresh = FALSE]
        /\ s \in {NoStation} \cup DOMAIN snapshot.latest
    BY <1>4 DEF ChooseHistory
  <2>2. CASE CanAsk(s, FALSE, paused)
    <3>1. Loaded /\ s # NoStation
      BY <2>2 DEF CanAsk
    <3>2. rows' = <<>>
      BY <2>1, <3>1 DEF Rendered
    <3> QED BY <2>1, <2>2, <3>1, <3>2, HistAsked
  <2>3. CASE ~CanAsk(s, FALSE, paused)
    <3>1. rows' = <<>> \/ (s = NoStation /\ rows' = Sample(snapshot))
      BY <2>1 DEF Rendered
    <3>2. rows' = <<>> \/ (s = NoStation /\ rows' \in Seq(HistoryRow)
                             /\ \A k \in DOMAIN rows' : rows'[k].run = snapshot'.run)
      BY <1>1, <2>1, <3>1, SampleRows
    <3>3. ~Loaded => s = NoStation /\ rows' = <<>>
      BY <1>2, <2>1 DEF Rendered, Loaded
    <3> QED BY <1>1, <2>1, <2>3, <3>2, <3>3, HistReset DEF Loaded
  <2> QED BY <2>2, <2>3
<1>5. CASE Pause
  <2>1. /\ snapshot' = snapshot /\ UNCHANGED <<station, cursor, blocked>>
        /\ rows' = IF paused /\ Loaded /\ station = NoStation THEN Sample(snapshot) ELSE rows
        /\ hist' = IF CanAsk(station, blocked, ~paused) THEN Ask(station, cursor)
                   ELSE [hist EXCEPT !.fresh = FALSE]
    BY <1>5 DEF Pause
  <2>2. CASE CanAsk(station, blocked, ~paused)
    <3>1. Loaded /\ station # NoStation
      BY <2>2 DEF CanAsk
    <3> QED BY <2>1, <2>2, <3>1, HistAsked
  <2>3. CASE ~CanAsk(station, blocked, ~paused)
    <3>1. CASE paused /\ Loaded /\ station = NoStation
      <4>1. rows' = Sample(snapshot) /\ station' = NoStation /\ Loaded'
        BY <2>1, <3>1 DEF Loaded
      <4> QED BY <1>1, <2>1, <2>3, <4>1, SampleRows, HistReset DEF Loaded
    <3>2. CASE ~(paused /\ Loaded /\ station = NoStation)
      BY <2>1, <2>3, <3>2, HistVoided
    <3> QED BY <3>1, <3>2
  <2> QED BY <2>2, <2>3
<1>6. CASE Destroy
  <2>1. /\ ~Loaded' /\ rows' = <<>> /\ station' = NoStation
        /\ hist' = [hist EXCEPT !.fresh = FALSE]
    BY <1>6 DEF Destroy, VoidHist, Loaded
  <2> QED BY <2>1, HistReset
<1> QED BY <1>3, <1>4, <1>5, <1>6 DEF User

\* A snapshot keeps the history of its run and station, or resets it.
LEMMA HistMain ==
  ASSUME PageInv, MainReceive
  PROVE  HistInv'
<1> DEFINE v == main.answer
           reset == Restarted \/ (station # NoStation /\ station \notin DOMAIN v.latest)
           s == IF reset THEN NoStation ELSE station
<1> USE DEF PageInv
<1>1. v \in Snapshot /\ v.run # 0 /\ rows \in Seq(HistoryRow)
  BY DEF MainReceive, MainInv, TypeInv, MainRequest
<1>2. /\ snapshot' = v /\ station' = s
      /\ cursor' = IF reset THEN NoCursor ELSE cursor
      /\ rows' = Rendered(v, s, IF reset THEN <<>> ELSE rows)
      /\ hist' = IF reset THEN [hist EXCEPT !.fresh = FALSE] ELSE hist
  BY DEF MainReceive
<1>3. v # NoSnapshot /\ Loaded' /\ snapshot'.run # 0
  BY <1>1, <1>2 DEF NoSnapshot, Loaded
<1>4. /\ Sample(v) \in Seq(HistoryRow)
      /\ \A k \in DOMAIN Sample(v) : Sample(v)[k].run = v.run
  BY <1>1, SampleRows
<1>5. CASE reset
  <2>1. s = NoStation /\ (rows' = <<>> \/ rows' = Sample(v))
    BY <1>2, <1>5 DEF Rendered
  <2>2. hist' = [hist EXCEPT !.fresh = FALSE] /\ station' = NoStation
    BY <1>2, <1>5
  <2>3. rows' = <<>> \/ (station' = NoStation /\ rows' \in Seq(HistoryRow)
                           /\ \A k \in DOMAIN rows' : rows'[k].run = snapshot'.run)
    BY <1>2, <1>4, <2>1
  <2> QED BY <1>3, <2>2, <2>3, HistReset
<1>6. CASE ~reset
  <2>1. /\ station' = station /\ cursor' = cursor /\ hist' = hist
        /\ rows' = rows \/ (station = NoStation /\ rows' = Sample(v))
    BY <1>2, <1>6 DEF Rendered
  <2>2. Loaded => snapshot'.run = snapshot.run
    BY <1>2, <1>6 DEF Restarted
  <2>3. \A k \in DOMAIN rows' : rows'[k].run = snapshot'.run
    <3>1. CASE rows' = Sample(v)
      BY <1>2, <1>4, <3>1
    <3>2. CASE rows' = rows /\ Loaded
      BY <2>2, <3>2 DEF HistInv
    <3>3. CASE rows' = rows /\ ~Loaded
      BY <3>3 DEF HistInv
    <3> QED BY <2>1, <3>1, <3>2, <3>3
  <2>4. ASSUME station' # NoStation
        PROVE  /\ Len(rows') <= RowLimit /\ RowsSound(rows', snapshot'.run, station', cursor')
               /\ cursor' = NoCursor => rows' = <<>>
    <3>1. rows' = rows /\ Loaded
      BY <2>1, <2>4 DEF HistInv
    <3> QED BY <2>1, <2>2, <2>4, <3>1 DEF HistInv
  <2> QED BY <1>3, <2>1, <2>3, <2>4 DEF HistInv
<1> HIDE DEF reset
<1> QED BY <1>5, <1>6

\* Every step keeps the history.
LEMMA HistStep ==
  ASSUME PageInv, Next \/ UNCHANGED pageVars
  PROVE  HistInv'
<1> USE DEF PageInv
<1>1. CASE \/ \E s \in DOMAIN server.latest : Hear(s) \/ RemoveStation(s)
           \/ Restart \/ MainServe \/ TimerFires \/ MainIgnored \/ MainFails
           \/ UNCHANGED pageVars
  <2>1. UNCHANGED historyVars
    BY <1>1 DEF Hear, RemoveStation, Restart, MainServe, TimerFires, MainIgnored, MainFails,
               pageVars, historyVars
  <2> QED BY <2>1, HistKept
<1>2. CASE User
  BY <1>2, HistUser
<1>3. CASE HistServe
  BY <1>3, HistServed
<1>4. CASE MainNotFound
  <2>1. /\ snapshot' = snapshot /\ rows' = <<>> /\ station' = NoStation
        /\ hist' = [hist EXCEPT !.fresh = FALSE]
    BY <1>4 DEF MainNotFound, ResetHistory, VoidHist
  <2>2. Loaded' => snapshot'.run # 0
    BY <2>1 DEF HistInv, Loaded
  <2> QED BY <2>1, <2>2, HistReset
<1>5. CASE MainRestarted
  <2>1. /\ ~Loaded' /\ rows' = <<>> /\ station' = NoStation
        /\ hist' = [hist EXCEPT !.fresh = FALSE]
    BY <1>5 DEF MainRestarted, ResetHistory, VoidHist, Loaded
  <2> QED BY <2>1, HistReset
<1>6. CASE MainReceive
  BY <1>6, HistMain
<1>7. CASE HistoryPoll
  <2>1. /\ UNCHANGED <<snapshot, history>> /\ Loaded /\ station # NoStation
        /\ hist' = Ask(station, cursor)
    BY <1>7 DEF HistoryPoll, CanAsk
  <2> QED BY <2>1, HistAsked
<1>8. CASE HistIgnored \/ HistFails
  BY <1>8, HistVoided DEF HistIgnored, HistFails
<1>9. CASE HistIdentityChanged
  <2>1. /\ snapshot' = snapshot /\ station' = station /\ rows' = <<>> /\ hist' = NoHist
    BY <1>9 DEF HistIdentityChanged
  <2>2. ~NoHist.fresh /\ NoHist.phase = "none"
    BY DEF NoHist
  <2>3. /\ Len(rows') <= RowLimit /\ RowsSound(rows', snapshot'.run, station', cursor')
        /\ \A k \in DOMAIN rows' : rows'[k].run = snapshot'.run
    <3>1. Len(rows') = 0 /\ DOMAIN rows' = {} /\ RowLimit \in Nat
      BY <2>1, EmptySeq, DisplayAssumption
    <3> QED BY <3>1 DEF RowsSound
  <2> QED BY <2>1, <2>2, <2>3 DEF HistInv, Loaded
<1>10. CASE HistReceive
  <2>1. /\ UNCHANGED <<view, station>> /\ hist' = NoHist
    BY <1>10 DEF HistReceive
  <2>2. /\ station # NoStation /\ Loaded /\ Len(rows') <= RowLimit
        /\ RowsSound(rows', snapshot.run, station, cursor')
        /\ cursor' = NoCursor => rows' = <<>>
    BY <1>10, ReceivedRows
  <2>3. ~NoHist.fresh /\ NoHist.phase = "none"
    BY DEF NoHist
  <2>4. \A k \in DOMAIN rows' : rows'[k].run = snapshot'.run
    BY <2>1, <2>2 DEF RowsSound, Row
  <2> QED BY <2>1, <2>2, <2>3, <2>4 DEF HistInv, Loaded
<1> QED BY <1>1, <1>2, <1>3, <1>4, <1>5, <1>6, <1>7, <1>8, <1>9, <1>10 DEF Next

-----------------------------------------------------------------------------
(***************************************************************************)
(* Theorems on the page                                                    *)
(***************************************************************************)
\* The invariant holds at the start, and every step keeps it.
LEMMA PageInit == Init => PageInv
BY TypeInit, MainInit, HistInit DEF PageInv

LEMMA PageStep == PageInv /\ (Next \/ UNCHANGED pageVars) => PageInv'
BY TypeStep, MainStep, HistStep DEF PageInv

LEMMA PageAlways == Spec => []PageInv
<1>1. UNCHANGED vars => UNCHANGED pageVars
  BY DEF vars, pageVars
<1>2. PageInv /\ [Next]_vars => PageInv'
  BY <1>1, PageStep
<1> QED BY <1>2, PageInit, PTL DEF Spec

\* However choices, answers, removals and restarts overlap, the page shows a snapshot
\* of the selection chosen, unless it says that one is being loaded.
THEOREM SelectionCorrect == Spec => []SelectionShown
<1>1. PageInv => SelectionShown
  BY DEF PageInv, MainInv
<1> QED BY <1>1, PageAlways, PTL

\* The rows of the history station are of the run shown, without a hole, end at the
\* cursor, and are no more than the limit.
THEOREM RowsCorrect == Spec => []RowsContinue
BY PageAlways, RowsRead, PTL

\* Exactly one refresh of a living page is in flight or scheduled, and none of a
\* destroyed one, which shows nothing.
THEOREM LoopCorrect == Spec => []OneLoop
<1>1. PageInv => OneLoop
  BY DEF PageInv, MainInv
<1> QED BY <1>1, PageAlways, PTL

-----------------------------------------------------------------------------
(***************************************************************************)
(* What the page draws                                                     *)
(***************************************************************************)
\* The layers of a snapshot with its RF revisions.
Layers(v, r) == [s \in DOMAIN v.latest |-> Contours(v, r, s)]

\* The map has layers and observes its size only while the library is loaded.
MapInv ==
  /\ framed \in {NoRun, snapshot.run}
  /\ library = "loaded" => /\ coverage = IF Loaded THEN Layers(snapshot, shownRF) ELSE <<>>
                           /\ drawn = IF showCoverage THEN Range(coverage) ELSE {}
  /\ library # "loaded" => coverage = <<>> /\ drawn = {} /\ ~resized
  /\ Framed

PaneInv == {tables, detail, message} \subseteq {NoRun, snapshot.run}

LEMMA ViewRead == MapInv /\ PaneInv => PageOfSnapshot
BY DEF MapInv, PaneInv, PageOfSnapshot, Layers

LEMMA NothingDrawn ==
  Range(<<>>) = {} /\ DOMAIN <<>> = {} /\ NoSnapshot.run = NoRun
BY DEF Range, NoSnapshot, NoRun

\* What the map shows without a rendering.
LEMMA MapShown ==
  ASSUME MapInv
  PROVE  /\ coverage = <<>> \/ (Loaded /\ coverage = Layers(snapshot, shownRF))
         /\ drawn \subseteq Range(coverage)
BY NothingDrawn DEF MapInv

\* Rendering a snapshot, with the layers of the run shown or none, draws exactly its
\* own, also where a layer is kept because its revision is the same.
LEMMA LayersRendered ==
  ASSUME MapInv, NEW v, NEW r, NEW cached, NEW fitted, NEW show,
         cached = <<>> \/ (cached = coverage /\ (Loaded => v.run = snapshot.run)),
         RenderMap(v, r, cached, fitted, show)
  PROVE  /\ coverage' = Layers(v, r)
         /\ drawn' = IF show THEN Range(coverage') ELSE {}
<1>1. coverage' = Entries(v, r, cached) /\ drawn' = Redrawn(coverage, coverage', show)
  BY DEF RenderMap
<1>2. ASSUME NEW s \in DOMAIN v.latest, s \in DOMAIN cached, cached[s].revision = r[s]
      PROVE  cached[s] = Contours(v, r, s)
  <2>1. cached = coverage /\ Loaded /\ coverage = Layers(snapshot, shownRF)
    BY <1>2, MapShown, NothingDrawn
  <2>2. cached[s] = Contours(snapshot, shownRF, s)
    BY <1>2, <2>1 DEF Layers
  <2>3. shownRF[s] = r[s] /\ snapshot.run = v.run
    BY <1>2, <2>1, <2>2 DEF Contours
  <2> QED BY <2>2, <2>3 DEF Contours
<1>3. Entries(v, r, cached) = Layers(v, r)
  BY <1>2 DEF Entries, Layers
<1>4. drawn \ Range(coverage) = {}
  BY MapShown
<1> QED BY <1>1, <1>3, <1>4 DEF Redrawn

\* The map is fitted to a snapshot once, when it has a size.
LEMMA FrameFacts ==
  ASSUME NEW v, NEW fitted, fitted \in {NoRun, v.run}, NEW hasSize
  PROVE  /\ Frame(v, fitted, hasSize) \in {NoRun, v.run}
         /\ hasSize => Frame(v, fitted, hasSize) = v.run
BY DEF Frame

\* A rendering leaves the tables and the map of the snapshot rendered.
LEMMA RenderFacts ==
  ASSUME MapInv, NEW v, NEW r, NEW cached, NEW fitted, NEW show,
         cached = <<>> \/ (cached = coverage /\ (Loaded => v.run = snapshot.run)),
         fitted \in {NoRun, v.run}, v # NoSnapshot,
         snapshot' = v, shownRF' = r, showCoverage' = show,
         UNCHANGED <<library, sized, resized>>,
         Render(v, r, cached, fitted, show)
  PROVE  MapInv' /\ tables' = snapshot'.run
<1>1. tables' = snapshot'.run /\ Loaded'
  BY DEF Render, Loaded
<1>2. CASE library = "loaded"
  <2>1. RenderMap(v, r, cached, fitted, show)
    BY <1>2 DEF Render
  <2>2. /\ coverage' = Layers(v, r)
        /\ drawn' = IF show THEN Range(coverage') ELSE {}
    BY <2>1, LayersRendered
  <2>3. framed' = Frame(v, fitted, sized)
    BY <2>1 DEF RenderMap
  <2>4. framed' \in {NoRun, v.run} /\ (sized => framed' = v.run)
    BY <2>3, FrameFacts
  <2>5. Framed'
    BY <2>4 DEF Framed
  <2>6. coverage' = Layers(snapshot', shownRF')
    BY <2>2 DEF Layers, Contours
  <2> QED BY <1>1, <1>2, <2>2, <2>4, <2>5, <2>6 DEF MapInv, Layers, Contours
<1>3. CASE library # "loaded"
  <2>1. framed' = fitted /\ coverage' = coverage /\ drawn' = drawn
    BY <1>3 DEF Render
  <2> QED BY <1>1, <1>3, <2>1 DEF MapInv, Framed
<1> QED BY <1>1, <1>2, <1>3

\* So does a rendering of the snapshot shown, if there is one.
LEMMA RenderShownFacts ==
  ASSUME MapInv, PaneInv, NEW show, RenderShown(show),
         UNCHANGED <<snapshot, shownRF, library, sized, resized>>, showCoverage' = show
  PROVE  MapInv' /\ tables' \in {NoRun, snapshot'.run}
<1>1. CASE Loaded
  <2>1. Render(snapshot, shownRF, coverage, framed, show)
    BY <1>1 DEF RenderShown
  <2> QED BY <1>1, <2>1, RenderFacts DEF MapInv, Loaded
<1>2. CASE ~Loaded
  <2>1. UNCHANGED <<tables, coverage, drawn, framed>>
    BY <1>2 DEF RenderShown
  <2>2. library = "loaded" => coverage = <<>> /\ drawn = {}
    BY <1>2, NothingDrawn DEF MapInv
  <2>3. coverage = <<>> /\ drawn = {} /\ Range(coverage) = {}
    BY <2>2, NothingDrawn DEF MapInv
  <2>4. ~Loaded' /\ Framed'
    BY <1>2 DEF Loaded, Framed
  <2>5. MapInv'
    BY <2>1, <2>3, <2>4, NothingDrawn DEF MapInv
  <2> QED BY <2>1, <2>5 DEF PaneInv
<1> QED BY <1>1, <1>2

\* Every step of the view is a step of the page, but for counting a click.
LEMMA ViewSteps == ViewNext => Next \/ UNCHANGED pageVars
<1> SUFFICES ASSUME ViewNext PROVE Next \/ UNCHANGED pageVars
  OBVIOUS
<1>1. CASE Invisible
  BY <1>1 DEF Invisible, Next
<1>2. CASE \/ \E s \in DOMAIN server.latest : EditRF(s)
           \/ LibraryLoads \/ LibraryFails \/ Resize \/ Observe
  BY <1>2 DEF EditRF, LibraryLoads, LibraryFails, Resize, Observe, vars, pageVars
<1>3. CASE RestartView \/ MainServeView
  BY <1>3 DEF RestartView, MainServeView, Next
<1>4. CASE \/ \E ids \in SUBSET Stations : ChooseView(ids)
           \/ \E s \in {NoStation} \cup Stations : ChooseHistoryView(s)
           \/ PauseView \/ DestroyView
  BY <1>4 DEF ChooseView, ChooseHistoryView, PauseView, DestroyView, User, Next
<1>5. CASE ToggleCoverage \/ ShowTarget \/ PinMessage
  BY <1>5 DEF ToggleCoverage, ShowTarget, PinMessage, Click, pageVars
<1>6. CASE \/ MainNotFoundView \/ HistIdentityChangedView \/ MainRestartedView
           \/ MainReceiveView
  BY <1>6 DEF MainNotFoundView, HistIdentityChangedView, MainRestartedView, MainReceiveView, Next
<1> QED BY <1>1, <1>2, <1>3, <1>4, <1>5, <1>6 DEF ViewNext

\* Steps that leave the map, or the panes, of the snapshot alone.
LEMMA MapKept ==
  ASSUME MapInv, UNCHANGED <<snapshot, shownRF, mapVars>>
  PROVE  MapInv'
BY DEF MapInv, Framed, mapVars, Loaded, Layers, Contours

LEMMA PanesKept ==
  ASSUME PaneInv, snapshot' = snapshot, UNCHANGED tables,
         detail' \in {detail, NoRun, snapshot.run, tables},
         message' \in {message, NoRun, snapshot.run}
  PROVE  PaneInv'
BY DEF PaneInv

\* The map's own steps.
LEMMA MapSteps ==
  ASSUME MapInv, PaneInv, LibraryLoads \/ LibraryFails \/ Resize \/ Observe
  PROVE  MapInv' /\ PaneInv'
<1>1. UNCHANGED <<snapshot, shownRF, tables, detail, message>>
  BY DEF LibraryLoads, LibraryFails, Resize, Observe, vars, paneVars
<1>2. PaneInv'
  BY <1>1, PanesKept
<1> SUFFICES MapInv'
  BY <1>2
<1>3. CASE LibraryLoads
  <2>1. library = "loading" /\ library' = "loaded" /\ resized' /\ showCoverage' = showCoverage
    BY <1>3 DEF LibraryLoads
  <2>2. CASE Loaded
    <3>1. RenderMap(snapshot, shownRF, coverage, framed, showCoverage)
      BY <1>3, <2>2 DEF LibraryLoads
    <3>2. /\ coverage' = Layers(snapshot, shownRF)
          /\ drawn' = IF showCoverage THEN Range(coverage') ELSE {}
      BY <3>1, LayersRendered
    <3>3. framed' \in {NoRun, snapshot.run}
      BY <3>1, FrameFacts DEF RenderMap, MapInv
    <3>4. Loaded' /\ coverage' = Layers(snapshot', shownRF')
      BY <1>1, <2>2, <3>2 DEF Loaded, Layers, Contours
    <3> QED BY <1>1, <2>1, <3>2, <3>3, <3>4 DEF MapInv, Framed
  <2>3. CASE ~Loaded
    <3>1. coverage' = <<>> /\ drawn' = {} /\ framed' = framed
      BY <1>3, <2>1, <2>3 DEF LibraryLoads, MapInv
    <3>2. ~Loaded'
      BY <1>1, <2>3 DEF Loaded
    <3> QED BY <1>1, <2>1, <3>1, <3>2, NothingDrawn DEF MapInv, Framed
  <2> QED BY <2>2, <2>3
<1>4. CASE LibraryFails
  <2>1. /\ library # "loaded" /\ library' # "loaded"
        /\ UNCHANGED <<resized, framed, coverage, drawn>>
    BY <1>4 DEF LibraryFails
  <2> QED BY <1>1, <2>1 DEF MapInv, Framed
<1>5. CASE Resize
  <2>1. UNCHANGED <<library, framed, showCoverage, coverage, drawn>>
    BY <1>5 DEF Resize
  <2>2. resized' <=> library = "loaded"
    BY <1>5 DEF Resize
  <2>3. Framed'
    BY <2>1, <2>2 DEF Framed
  <2> QED BY <1>1, <2>1, <2>2, <2>3 DEF MapInv, Loaded, Layers, Contours
<1>6. CASE Observe
  <2>1. /\ UNCHANGED <<library, sized, showCoverage, coverage, drawn>>
        /\ resized /\ ~resized'
        /\ framed' = IF Loaded THEN Frame(snapshot, framed, sized) ELSE framed
    BY <1>6 DEF Observe
  <2>2. framed' \in {NoRun, snapshot.run} /\ (Loaded /\ sized => framed' = snapshot.run)
    BY <2>1, FrameFacts DEF MapInv
  <2>3. Framed'
    BY <1>1, <2>1, <2>2 DEF Framed, Loaded
  <2> QED BY <1>1, <2>1, <2>2, <2>3 DEF MapInv, Loaded, Layers, Contours
<1> QED BY <1>3, <1>4, <1>5, <1>6

\* What the user sees after a step of his.
LEMMA UserSteps ==
  ASSUME PageInv, MapInv, PaneInv,
         \/ \E ids \in SUBSET Stations : ChooseView(ids)
         \/ \E s \in {NoStation} \cup Stations : ChooseHistoryView(s)
         \/ PauseView \/ ToggleCoverage \/ ShowTarget \/ PinMessage \/ DestroyView
  PROVE  MapInv' /\ PaneInv'
<1>1. ASSUME NEW ids \in SUBSET Stations, ChooseView(ids) PROVE MapInv' /\ PaneInv'
  BY <1>1, MapKept, PanesKept DEF ChooseView, Choose
<1>2. ASSUME NEW s \in {NoStation} \cup Stations, ChooseHistoryView(s)
      PROVE  MapInv' /\ PaneInv'
  <2>1. /\ UNCHANGED <<snapshot, shownRF, library, sized, resized, showCoverage, detail>>
        /\ RenderShown(showCoverage) /\ message' = NoRun
    BY <1>2 DEF ChooseHistoryView, ChooseHistory
  <2>2. MapInv' /\ tables' \in {NoRun, snapshot'.run}
    BY <2>1, RenderShownFacts
  <2> QED BY <2>1, <2>2 DEF PaneInv
<1>3. CASE PauseView
  <2>1. UNCHANGED <<snapshot, shownRF, library, sized, resized, showCoverage, detail, message>>
    BY <1>3 DEF PauseView, Pause
  <2>2. CASE paused
    <3>1. RenderShown(showCoverage)
      BY <1>3, <2>2 DEF PauseView
    <3>2. MapInv' /\ tables' \in {NoRun, snapshot'.run}
      BY <2>1, <3>1, RenderShownFacts
    <3> QED BY <2>1, <3>2 DEF PaneInv
  <2>3. CASE ~paused
    <3>1. UNCHANGED <<tables, coverage, drawn, framed>>
      BY <1>3, <2>3 DEF PauseView
    <3> QED BY <2>1, <3>1, MapKept, PanesKept DEF mapVars
  <2> QED BY <2>2, <2>3
<1>4. CASE ToggleCoverage
  <2>1. /\ UNCHANGED <<snapshot, shownRF, library, sized, resized, detail, message>>
        /\ RenderShown(~showCoverage) /\ showCoverage' = ~showCoverage
    BY <1>4 DEF ToggleCoverage
  <2>2. MapInv' /\ tables' \in {NoRun, snapshot'.run}
    BY <2>1, RenderShownFacts
  <2> QED BY <2>1, <2>2 DEF PaneInv
<1>5. CASE ShowTarget
  <2>1. UNCHANGED <<snapshot, shownRF, mapVars, tables, message>> /\ detail' = tables
    BY <1>5 DEF ShowTarget
  <2> QED BY <2>1, MapKept, PanesKept
<1>6. CASE PinMessage
  <2>1. UNCHANGED <<snapshot, shownRF, mapVars, tables, detail>>
    BY <1>6 DEF PinMessage
  <2>2. message' = snapshot.run
    BY <1>6 DEF PinMessage, PageInv, HistInv
  <2> QED BY <2>1, <2>2, MapKept, PanesKept
<1>7. CASE DestroyView
  <2>1. /\ library' # "loaded" /\ coverage' = <<>> /\ drawn' = {} /\ ~resized'
        /\ framed' = NoRun /\ tables' = NoRun /\ detail' = NoRun /\ message' = NoRun
    BY <1>7 DEF DestroyView
  <2> QED BY <2>1 DEF MapInv, PaneInv, Framed
<1> QED BY <1>1, <1>2, <1>3, <1>4, <1>5, <1>6, <1>7

\* What the page shows when a snapshot is replaced or given up.
LEMMA LoopSteps ==
  ASSUME PageInv, MapInv, PaneInv,
         MainNotFoundView \/ HistIdentityChangedView \/ MainRestartedView \/ MainReceiveView
  PROVE  MapInv' /\ PaneInv'
<1>1. CASE MainNotFoundView
  BY <1>1, MapKept, PanesKept DEF MainNotFoundView, MainNotFound
<1>2. CASE HistIdentityChangedView
  BY <1>2, MapKept, PanesKept DEF HistIdentityChangedView, HistIdentityChanged
<1>3. CASE MainRestartedView
  <2>1. /\ ~Loaded' /\ coverage' = <<>> /\ framed' = NoRun
        /\ tables' = NoRun /\ detail' = NoRun /\ message' = NoRun
        /\ drawn' = Redrawn(coverage, <<>>, showCoverage)
        /\ UNCHANGED <<library, resized, showCoverage>>
    BY <1>3 DEF MainRestartedView, MainRestarted, Loaded
  <2>2. drawn' = {}
    BY <2>1, MapShown, NothingDrawn DEF Redrawn
  <2> QED BY <2>1, <2>2, NothingDrawn DEF MapInv, PaneInv, Framed
<1>4. CASE MainReceiveView
  <2> DEFINE v == main.answer
             fitted == IF Restarted THEN NoRun ELSE framed
  <2>1. v # NoSnapshot
    BY <1>4 DEF MainReceiveView, MainReceive, PageInv, MainInv, NoSnapshot
  <2>2. /\ snapshot' = v /\ shownRF' = carried
        /\ Render(v, carried, Cached, fitted, showCoverage)
        /\ UNCHANGED <<library, sized, resized, showCoverage>>
        /\ detail' = IF Restarted THEN NoRun ELSE detail
        /\ message' \in {NoRun, IF Restarted THEN NoRun ELSE message}
    BY <1>4 DEF MainReceiveView, MainReceive
  <2>3. Loaded /\ ~Restarted => v.run = snapshot.run
    BY DEF Restarted
  <2>4. ASSUME NEW shown \in {NoRun, snapshot.run}
        PROVE  (IF Restarted THEN NoRun ELSE shown) \in {NoRun, v.run}
    BY <2>3, <2>4, NothingDrawn DEF Loaded
  <2>5. fitted \in {NoRun, v.run}
    BY <2>4 DEF MapInv
  <2>6. Cached = <<>> \/ (Cached = coverage /\ (Loaded => v.run = snapshot.run))
    BY <2>3 DEF Cached
  <2> HIDE DEF fitted, v
  <2>7. MapInv' /\ tables' = snapshot'.run
    BY <2>1, <2>2, <2>5, <2>6, RenderFacts
  <2>8. detail' \in {NoRun, snapshot'.run} /\ message' \in {NoRun, snapshot'.run}
    BY <2>2, <2>4 DEF PaneInv
  <2> QED BY <2>7, <2>8 DEF PaneInv
<1> QED BY <1>1, <1>2, <1>3, <1>4

\* The page and its view, together.
ViewInv == PageInv /\ MapInv /\ PaneInv

LEMMA ViewStarts == ViewInit => ViewInv
<1> SUFFICES ASSUME ViewInit PROVE ViewInv
  OBVIOUS
<1>1. Init /\ ~Loaded /\ library # "loaded" /\ coverage = <<>> /\ drawn = {} /\ ~resized
  BY DEF ViewInit, Init, Loaded
<1>2. framed = NoRun /\ tables = NoRun /\ detail = NoRun /\ message = NoRun
  BY DEF ViewInit
<1> QED BY <1>1, <1>2, PageInit DEF ViewInv, MapInv, PaneInv, Framed

LEMMA ViewStep ==
  ASSUME ViewInv, [ViewNext]_allVars
  PROVE  ViewInv'
<1>1. Next \/ UNCHANGED pageVars
  BY ViewSteps DEF allVars, vars, pageVars
<1>2. PageInv'
  BY <1>1, PageStep DEF ViewInv
<1>3. ASSUME UNCHANGED <<snapshot, shownRF, mapVars, paneVars>> PROVE MapInv' /\ PaneInv'
  BY <1>3, MapKept, PanesKept DEF ViewInv, paneVars
<1>4. CASE Invisible
  <2>1. UNCHANGED <<snapshot, viewVars>>
    BY <1>4 DEF Invisible, Hear, RemoveStation, HistServe, TimerFires, MainIgnored, MainFails,
               HistoryPoll, HistIgnored, HistFails, HistReceive
  <2> QED BY <1>2, <1>3, <2>1 DEF ViewInv, viewVars
<1>5. CASE \/ \E s \in DOMAIN server.latest : EditRF(s)
           \/ RestartView \/ MainServeView \/ UNCHANGED allVars
  <2>1. UNCHANGED <<snapshot, shownRF, mapVars, paneVars>>
    BY <1>5 DEF EditRF, RestartView, Restart, MainServeView, MainServe, allVars, viewVars, vars
  <2> QED BY <1>2, <1>3, <2>1 DEF ViewInv
<1>6. MapInv' /\ PaneInv'
  BY <1>2, <1>4, <1>5, MapSteps, UserSteps, LoopSteps DEF ViewNext, ViewInv
<1> QED BY <1>2, <1>6 DEF ViewInv

LEMMA ViewAlways == ViewSpec => []ViewInv
BY ViewStarts, ViewStep, PTL DEF ViewSpec

\* Everything on the page is of the run shown, also after a restart that brings the
\* same stations with the same revisions, and each coverage layer is drawn once.
THEOREM ViewCorrect == ViewSpec => []PageOfSnapshot
BY ViewAlways, ViewRead, PTL DEF ViewInv

\* In whichever order library, size, snapshot and restart come, a map that has a size
\* is fitted to the snapshot shown.
THEOREM FramedCorrect == ViewSpec => []Framed
<1>1. ViewInv => Framed
  BY DEF ViewInv, MapInv
<1> QED BY <1>1, ViewAlways, PTL

\* The steps of the view leave the page as correct as it is on its own.
THEOREM PageUnderView == ViewSpec => [](SelectionShown /\ RowsContinue /\ OneLoop)
<1>1. ViewInv => SelectionShown /\ RowsContinue /\ OneLoop
  BY RowsRead DEF ViewInv, PageInv, MainInv
<1> QED BY <1>1, ViewAlways, PTL
=============================================================================
