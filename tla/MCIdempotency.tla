--------------------------- MODULE MCIdempotency ---------------------------
\* Small instances of Idempotency for TLC.
EXTENDS Idempotency, TLC

\* Keys and requests are interchangeable.
Symmetry == Permutations(Keys) \cup Permutations(Requests)
=============================================================================
