------------------------------ MODULE MCDriver ------------------------------
(***************************************************************************)
(* Small instances of the driver.  A chunk at the highest speed, 3/2, is   *)
(* exactly MaxAdvance, and a fraction of one half can be carried into it.  *)
(***************************************************************************)
EXTENDS Driver, TLC

NoStations == <<>>
OneStation == <<"open">>
Steps == {-1, 2}
Interchangeable == Permutations(Clients)
=============================================================================
