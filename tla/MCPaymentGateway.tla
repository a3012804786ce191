-------------------------- MODULE MCPaymentGateway --------------------------
\* Small instances of PaymentGateway for TLC.
EXTENDS PaymentGateway, TLC

\* Payments, slots and webhook requests are interchangeable.
Symmetry == Permutations(Payments) \cup Permutations(Jobs) \cup Permutations(Hooks)
=============================================================================
