-------------------------- MODULE MCVaultLifecycle --------------------------
(* Few names and requests for TLC; requests are interchangeable.           *)
EXTENDS VaultLifecycle, TLC

MCSymmetry == Permutations(Requests)

=============================================================================
