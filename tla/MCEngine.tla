------------------------------ MODULE MCEngine ------------------------------
(***************************************************************************)
(* Small instances of the engine.  Ticks are two units apart, so that      *)
(* calls also stop between ticks.                                          *)
(***************************************************************************)
EXTENDS Engine

Definition(name, enabled, channels, site) ==
  [name |-> name, enabled |-> enabled, channels |-> channels, site |-> site]

Open == Definition("open", TRUE, Channels, "shore")
Renamed == Definition("renamed", TRUE, Channels, "shore")
OnlyA == Definition("open", TRUE, {"A"}, "hill")
Off == Definition("open", FALSE, Channels, "shore")

MCDefinitions == {Open}
TwoDefinitions == {Open, Off}
AllDefinitions == {Open, Renamed, OnlyA, Off}
NoStations == <<>>
OneStation == <<Open>>
OpenOrOnlyA == {Open, OnlyA}
TwoStations == <<Open, Open>>

\* The text of the IDs sorts them against the order of the stations.
ReverseRank == [id \in 1..9 |-> 10 - id]
=============================================================================
