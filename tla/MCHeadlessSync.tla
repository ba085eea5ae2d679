--------------------------- MODULE MCHeadlessSync ---------------------------
(* Few vaults and requests for TLC; requests are interchangeable.          *)
EXTENDS HeadlessSync, TLC

MCSymmetry == Permutations(Requests) \cup Permutations(Vaults)

=============================================================================
