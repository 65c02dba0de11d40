------------------------------- MODULE MCFolio -------------------------------
(* Two tenants, three concurrent creations and three series, one of them     *)
(* without a lock and one whose documents can be deleted.                    *)
EXTENDS Folio, TLC

MCSymmetry == Permutations(Procs) \cup Permutations(Tenants)
==============================================================================
