---------------------------- MODULE EngineSplit ----------------------------
(***************************************************************************)
(* The engine beside a reference store fed as by calls that each cover one *)
(* unit of virtual time: every instant expires, whether or not a report    *)
(* falls on it, before its receptions are recorded.  The comment on        *)
(* applyReceptions promises that the two never differ.                     *)
(***************************************************************************)
EXTENDS Engine

VARIABLES
  ref,       \* the reference observations and their eviction count
  refClock   \* the instant the reference has reached

\* Expire at every instant after refClock up to and including at.
ExpireEach(ts, at) ==
  FoldLeft(Expire, ts, [i \in 1..(at - refClock) |-> refClock + i])

SplitInit ==
  /\ Init
  /\ ref = [targets |-> targets, evictions |-> 0]
  /\ refClock = 0

\* The reference takes the same reception, edit, and committed clock.
SplitFollow ==
  LET r == batch.records[loop.applied + 1]
      reached == ExpireEach(ref.targets, r.timestamp)
  IN CASE pc = "apply" /\ pc' = "apply" ->
            /\ ref' = [targets |-> Record(reached, r),
                       evictions |-> ref.evictions + Bump(MustEvict(reached, r))]
            /\ refClock' = r.timestamp
       [] pc = "apply" /\ pc' = "idle" ->
            /\ ref' = [ref EXCEPT !.targets = ExpireEach(@, state.elapsed)]
            /\ refClock' = state.elapsed
       [] pc = "idle" ->
            /\ ref' = [ref EXCEPT !.targets =
                         RemoveObservations(@, {o \in AllObservations(@) :
                                                  o.station \in StationIDs \ DOMAIN stats'})]
            /\ UNCHANGED refClock
       [] OTHER -> UNCHANGED <<ref, refClock>>

SplitSpec == SplitInit /\ [][Next /\ SplitFollow]_<<vars, ref, refClock>>

\* Eviction and expiry do not depend on how calls split virtual time: one long
\* call leaves the observations and the eviction count that unit calls leave.
SplitIndependent ==
  Idle => targets = ref.targets /\ totals.evictions = ref.evictions
=============================================================================
