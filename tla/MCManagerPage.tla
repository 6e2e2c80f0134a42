--------------------------- MODULE MCManagerPage ---------------------------
(***************************************************************************)
(* One new setting of each kind besides the initial one, which another     *)
(* client may set too.  A behaviour has one command, a restart and a       *)
(* second mount, or two commands of one run, or two overlapping writes.    *)
(***************************************************************************)
EXTENDS ManagerPage

NewValues == [k \in Kinds |-> {2}]
OldValues == [k \in Kinds |-> 1]

Remount == [commands |-> <<1, 0>>, mounts |-> 2, edits |-> 1]
TwoCommands == [commands |-> <<2>>, mounts |-> 1, edits |-> 1]
TwoWrites == [commands |-> <<1>>, mounts |-> 1, edits |-> 2]
SmallBounds == {Remount, TwoCommands, TwoWrites}
=============================================================================
