------------------------ MODULE MC_LifecycleRequests ------------------------
(***************************************************************************)
(* Instances of LifecycleRequests for TLC. The requests differ in nothing  *)
(* but their identity, so safety runs may permute them.                    *)
(***************************************************************************)
EXTENDS LifecycleRequests, TLC

Symmetry == Permutations(Requests)

=============================================================================
