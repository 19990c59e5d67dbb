---------------------------- MODULE MCRateLimits ----------------------------
(***************************************************************************)
(* A small instance of RateLimits: four hosts and three slots, three       *)
(* endpoints and two records, three HTTP clients and two buckets.  The     *)
(* same model values stand for hosts, endpoints and HTTP clients, so that  *)
(* one small group of permutations serves all of them.                     *)
(***************************************************************************)
EXTENDS RateLimits, TLC

Symmetry == Permutations(Endpoints)
=============================================================================
