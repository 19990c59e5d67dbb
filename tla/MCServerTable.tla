--------------------------- MODULE MCServerTable ---------------------------
(***************************************************************************)
(* Small instances of ServerTable.  Host a has three endpoints, so that    *)
(* its quota matters, b has two, and l is a loopback address that no       *)
(* mapping allows.                                                         *)
(***************************************************************************)
EXTENDS ServerTableLoops

MCAddresses == {"a1", "a2", "a3", "b1", "b2", "l1"}
MCPublicOf  == [x \in MCAddresses |-> CASE x \in {"b1", "b2"} -> "b" [] x = "l1" -> "l" [] OTHER -> "a"]
TwoBuckets  == [x \in MCAddresses |-> IF x \in {"b1", "b2"} THEN 1 ELSE 0]
=============================================================================
