--------------------------- MODULE MCDisplayView ---------------------------
(* One station and a restart, which brings its first RF revision again;    *)
(* the first run overtakes a cursor.                                       *)
EXTENDS DisplayView

TwoRuns == <<[s1 |-> 2], [s1 |-> 0]>>
TwoThenOne == <<2, 1>>
=============================================================================
