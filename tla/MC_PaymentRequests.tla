------------------------- MODULE MC_PaymentRequests -------------------------
(***************************************************************************)
(* The payment requests of a small file.  No definition tells one payment  *)
(* type from another.                                                      *)
(***************************************************************************)
EXTENDS PaymentRequests, TLC

TypesAlike == Permutations(Types)

=============================================================================
