----------------------------- MODULE MCSessions -----------------------------
(***************************************************************************)
(* Small instances of Sessions for TLC.                                    *)
(***************************************************************************)
EXTENDS Sessions, TLC

\* Request slots are interchangeable; users are too.
Symmetry == Permutations(Reqs) \cup Permutations(Users)
=============================================================================
