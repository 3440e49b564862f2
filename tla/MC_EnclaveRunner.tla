-------------------------- MODULE MC_EnclaveRunner --------------------------
(***************************************************************************)
(* EnclaveRunner for TLC.                                                  *)
(***************************************************************************)
EXTENDS EnclaveRunner

CONSTANTS w1, w2, v1, v2

\* One worker runs and one does not; one VM is attached and one is not.
OneDeployed == [w \in {w1, w2} |-> IF w = w1 THEN v1 ELSE None]
=============================================================================
