----------------------------- MODULE EngineRate -----------------------------
(***************************************************************************)
(* The engine beside a complete log of the opportunities of each station,  *)
(* against which the one-second rate buckets are read.                     *)
(***************************************************************************)
EXTENDS EngineReads

VARIABLES
  log,       \* station ID -> committed opportunities, as [at, got]
  pending    \* staged station index -> opportunities of the call in progress

RateInit ==
  /\ Init
  /\ log = [id \in StationIDs |-> <<>>]
  /\ pending = [i \in DOMAIN state.stations |-> <<>>]

\* Keep the log of the configured stations, an empty one for a new station.
Relog == [id \in DOMAIN stats' |-> IF id \in DOMAIN log THEN log[id] ELSE <<>>]

RateFollow ==
  CASE pc = "receive" /\ pc' = "receive" ->
         LET i == loop.station
             got == batch'.receptions > batch.receptions
         IN /\ pending' = [pending EXCEPT
                             ![i] = Append(@, [at |-> Last(reports).timestamp,
                                               got |-> got])]
            /\ UNCHANGED log
    [] pc' = "apply" /\ pc # "apply" ->
         /\ log' = [id \in DOMAIN log |-> log[id] \o pending[StationIndex(id)]]
         /\ pending' = [i \in DOMAIN pending |-> <<>>]
    [] pc' = "idle" ->
         /\ log' = Relog
         /\ pending' = [i \in DOMAIN state'.stations |-> <<>>]
    [] OTHER -> UNCHANGED <<log, pending>>

\* The engine with its log.
RateSpec == RateInit /\ [][Next /\ RateFollow]_<<vars, log, pending>>

InWindow(e) ==
  e.at \div TickInterval > state.elapsed \div TickInterval - RateBuckets

\* The recent counters are exactly the opportunities and receptions of the last
\* RateBuckets whole seconds, whatever second last used a bucket (count).
WindowExact ==
  Idle =>
    \A id \in StationIDs :
      /\ RecentOpportunities(id) = Cardinality({k \in DOMAIN log[id] : InWindow(log[id][k])})
      /\ RecentReceived(id) =
           Cardinality({k \in DOMAIN log[id] : InWindow(log[id][k]) /\ log[id][k].got})

\* The lifetime counters partition the opportunities since the station was
\* created by outcome and by channel (count), and the run totals cover every
\* configured station and every transmission (receive).
CountersExact ==
  Idle =>
    /\ \A id \in StationIDs :
         LET st == stats[id]
         IN /\ st.opportunities = Len(log[id])
            /\ st.opportunities = SumOver(st.outcome)
            /\ st.opportunities = SumOver([c \in Channels |-> st.channel[c].opportunities])
            /\ st.outcome["received"] = SumOver([c \in Channels |-> st.channel[c].received])
            /\ st.outcome["received"] = Cardinality({k \in DOMAIN log[id] : log[id][k].got})
    /\ SumOver([id \in StationIDs |-> stats[id].lastReception]) <= totals.receptions
    /\ totals.receivedTransmissions <= totals.receptions
    /\ totals.receivedTransmissions <= state.sequence

\* Whatever was counted is what happened, over the recent window and since the
\* station was created (count).
RatesExact == WindowExact /\ CountersExact
=============================================================================
