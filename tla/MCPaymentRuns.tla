--------------------------- MODULE MCPaymentRuns ---------------------------
(* Instances of PaymentRuns for TLC. *)
EXTENDS PaymentRuns, TLC

\* Invoices, rows, runs, workers and users are interchangeable.
Symmetry ==
    Permutations(Invoices) \cup Permutations(Payments)
        \cup Permutations(Runs) \cup Permutations(Workers) \cup Permutations(Users)
=============================================================================
