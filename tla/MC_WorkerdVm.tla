---------------------------- MODULE MC_WorkerdVm ----------------------------
(***************************************************************************)
(* WorkerdVm for TLC.                                                      *)
(***************************************************************************)
EXTENDS WorkerdVm

=============================================================================
