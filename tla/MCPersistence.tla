---------------------------- MODULE MCPersistence ----------------------------
(***************************************************************************)
(* A small instance of Persistence: two servers, one of which may announce *)
(* what cannot be loaded.                                                  *)
(***************************************************************************)
EXTENDS Persistence
=============================================================================
