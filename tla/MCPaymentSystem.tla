-------------------------- MODULE MCPaymentSystem --------------------------
\* Small instances of PaymentSystem for TLC.
EXTENDS PaymentSystem, TLC

\* Payments and slots are interchangeable.
Symmetry == Permutations(Payments) \cup Permutations(Jobs)
=============================================================================
