-------------------------- MODULE MCStationEditor --------------------------
(* One site, another client, and a restart with another configuration.     *)
EXTENDS StationEditor

TwoRuns == <<<<"d1">>, <<"d2">>>>
ThreeThenTwo == <<3, 2>>
=============================================================================
