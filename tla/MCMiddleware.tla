---------------------------- MODULE MCMiddleware ----------------------------
(***************************************************************************)
(* Instances of Middleware for TLC.                                        *)
(***************************************************************************)
EXTENDS Middleware, TLC

Symmetry == Permutations(Requests)

=============================================================================
