-------------------------- MODULE MCCircuitBreaker --------------------------
\* Small instances of CircuitBreaker for TLC.
EXTENDS CircuitBreaker, TLC

\* Calls are interchangeable.
Symmetry == Permutations(Calls)
=============================================================================
