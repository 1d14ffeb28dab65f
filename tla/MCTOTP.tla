------------------------------- MODULE MCTOTP -------------------------------
(***************************************************************************)
(* TOTP for TLC.  The request slots are interchangeable: no action and no  *)
(* invariant tells one from another.                                       *)
(***************************************************************************)
EXTENDS TOTP, TLC

Symmetry == Permutations(Reqs)
=============================================================================
