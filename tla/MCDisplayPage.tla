--------------------------- MODULE MCDisplayPage ---------------------------
(* Two stations and a restart; the first run overtakes a cursor at s1.     *)
EXTENDS DisplayPage

TwoRuns == <<[s1 |-> 3, s2 |-> 1], [s1 |-> 1, s2 |-> 0]>>
=============================================================================
