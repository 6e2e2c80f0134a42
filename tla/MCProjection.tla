---------------------------- MODULE MCProjection ----------------------------
(* Small instances of the engine under the checks of the display.          *)
EXTENDS MCEngine, Projection
=============================================================================
