-------------------------- MODULE MCPaymentListing --------------------------
\* Small instances of PaymentListing for TLC.
EXTENDS PaymentListing, TLC

\* Payments are interchangeable.
Symmetry == Permutations(Docs)
=============================================================================
