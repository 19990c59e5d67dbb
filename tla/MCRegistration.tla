--------------------------- MODULE MCRegistration ---------------------------
(***************************************************************************)
(* A small instance of Registration: a server that changes between "q3",   *)
(* which has a heartbeat tag of its own, and "nexuiz", which forgets the   *)
(* tag of its heartbeats, so that one may be read as "q3" or as DarkPlaces *)
(* and be answered under the other name after a change.                    *)
(***************************************************************************)
EXTENDS Registration

MCConfigs ==
  {[tag |-> "q3",     name |-> "q3"],
   [tag |-> "absent", name |-> "nexuiz"]}
=============================================================================
