-------------------------- MODULE MCEventLifecycle --------------------------
EXTENDS EventLifecycle, TLC

Symmetry == Permutations(EventIds) \cup Permutations(Tabs)
=============================================================================
