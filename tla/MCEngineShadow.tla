--------------------------- MODULE MCEngineShadow ---------------------------
(* The engine beside its unit-step store and its opportunity log.          *)
EXTENDS MCEngine, EngineSplit, EngineRate, Projection

shadowVars == <<vars, ref, refClock, log, pending>>

ShadowInit == SplitInit /\ RateInit

ShadowNext == Next /\ SplitFollow /\ RateFollow

ShadowSpec == ShadowInit /\ [][ShadowNext]_shadowVars
=============================================================================
