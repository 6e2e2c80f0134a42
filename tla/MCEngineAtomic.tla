--------------------------- MODULE MCEngineAtomic ---------------------------
\* The engine beside its abstract specification, on the constants of MCEngine.
EXTENDS MCEngine, EngineAtomic
=============================================================================
