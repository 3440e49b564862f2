-------------------------- MODULE MC_EnclaveSecrets --------------------------
(***************************************************************************)
(* EnclaveSecrets for TLC.                                                 *)
(***************************************************************************)
EXTENDS EnclaveSecrets, TLC

\* Enclaves and secrets are interchangeable model values.
Symmetry == Permutations(Enclaves) \cup Permutations(SecretIds)
=============================================================================
