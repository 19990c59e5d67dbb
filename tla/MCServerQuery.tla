---------------------------- MODULE MCServerQuery ----------------------------
(***************************************************************************)
(* A small instance of ServerQuery: nine servers of two games, at most     *)
(* three in a reply, and packets that hold two IPv4 records or one IPv6.   *)
(* Protocol 68 belongs to "q3", nobody has declared protocol 7.            *)
(***************************************************************************)
EXTENDS ServerQuery

Entry(state, protocol, game, anon, family, gametype) ==
  [state |-> state, protocol |-> protocol, game |-> game, anon |-> anon,
   family |-> family, gametype |-> gametype]

MCServer ==
  <<Entry("uninitialized", 7, "q3",  TRUE,  "ipv4", "0"),
    Entry("empty",         7, "q3",  TRUE,  "ipv4", "0"),
    Entry("occupied",      7, "q3",  FALSE, "ipv4", "0"),
    Entry("occupied",      7, "et",  TRUE,  "ipv4", "4"),
    Entry("full",          7, "et",  TRUE,  "ipv6", "0"),
    Entry("occupied",     68, "q3",  TRUE,  "ipv4", "0"),
    Entry("occupied",     68, "q3",  FALSE, "ipv6", "4"),
    Entry("occupied",      7, "et",  FALSE, "ipv4", "0"),
    Entry("occupied",      7, "q3",  TRUE,  "ipv4", "0")>>

MCRequests ==
  {r \in [protocol : {7, 68}, game : {"q3", "et", "banned", ""}, extended : BOOLEAN,
          options : SUBSET {"empty", "ipv6"}, gametype : {"any", "0"}] :
     r.extended => r.game # ""}

MCNameOf == [p \in {7, 68} |-> IF p = 68 THEN "q3" ELSE ""]
MCOptions == [n \in {"q3", "et", "banned"} |-> IF n = "et" THEN {"empty", "full"} ELSE {}]
=============================================================================
