--------------------------- MODULE ListenSockets ---------------------------
(***************************************************************************)
(* The listening sockets of src/src/system.c: declared on the command      *)
(* line, resolved before the process gives up its privileges, created and  *)
(* bound afterwards.  Without any declaration there are two optional ones, *)
(* for IPv4 and for IPv6.                                                  *)
(*                                                                         *)
(* An address is its family, host and port.  A host that lacks a family    *)
(* fails with NETERR_AFNOSUPPORT; any other failure ends the program, see  *)
(* StartupFails in Dpmaster.                                               *)
(***************************************************************************)
EXTENDS CommandLine, SequencesExt

CONSTANTS
  MAX_LISTEN_SOCKETS,
  AnyHost,              \* the address of all the interfaces
  MasterPort            \* a name that holds no port

\* There is room for the two default ones.
ASSUME SocketAssumption == MAX_LISTEN_SOCKETS \in Nat \ {0, 1}

VARIABLES
  families,             \* the address families the host supports
  listen_sockets,
  sock_ind,             \* the index of Sys_CreateListenSockets, from 1
  declared_listen       \* history: the parameters of --listen, in their order

socketVars == <<families, listen_sockets, sock_ind, declared_listen>>

Families == {"IPv4", "IPv6"}
NoAddressYet == [family |-> "none", host |-> AnyHost, port |-> 0]

ListenSocket(name, optional) ==
  [name |-> name, local |-> NoAddressYet, optional |-> optional, bound |-> FALSE]

\* Sys_DeclareListenAddress: the parameter is not looked at yet, unless it is
\* empty.  The next one after MAX_LISTEN_SOCKETS is refused.
ListenOption(o) ==
  /\ status = "parsing"
  /\ o.option = "listen"
  /\ IF o.empty \/ Len(listen_sockets) >= MAX_LISTEN_SOCKETS
       THEN Refused /\ UNCHANGED <<listen_sockets, declared_listen>>
       ELSE /\ listen_sockets' = Append(listen_sockets, ListenSocket(o.name, FALSE))
            /\ declared_listen' = Append(declared_listen, o.name)
            /\ UNCHANGED status
  /\ UNCHANGED <<families, sock_ind>>

\* Sys_StringToSockaddr: a name is [readable, family, host, port].
Resolved(name) ==
  [family |-> name.family, host |-> name.host,
   port |-> IF name.port = MasterPort THEN settings["port"] ELSE name.port]

AnyAddress(family) == [family |-> family, host |-> AnyHost, port |-> settings["port"]]

Sys_ResolveListenAddresses ==
  IF listen_sockets = <<>>
    THEN [i \in 1 .. 2 |-> [ListenSocket(<<>>, TRUE) EXCEPT
                              !.local = AnyAddress(<<"IPv4", "IPv6">>[i])]]
    ELSE [i \in DOMAIN listen_sockets |->
            [listen_sockets[i] EXCEPT !.local = Resolved(listen_sockets[i].name)]]

AllReadable == \A i \in DOMAIN listen_sockets : listen_sockets[i].name.readable

\* The memmove moves one entry too few: the last one that stays is as it was.
Dropped(i) ==
  [j \in 1 .. Len(listen_sockets) - 1 |->
     IF j >= i /\ j < Len(listen_sockets) - 1 THEN listen_sockets[j + 1] ELSE listen_sockets[j]]

\* Mutant: a socket that was asked for is dropped as well.
Mutant_MayDrop(socket) == TRUE
MayDrop(socket) == socket.optional

\* One turn of the loop of Sys_CreateListenSockets.
Current == listen_sockets[sock_ind]

CreateSocket ==
  /\ status = "creating"
  /\ sock_ind \in DOMAIN listen_sockets
  /\ Current.local.family \in families
  \* bind fails for an address that is taken
  /\ \A i \in 1 .. sock_ind - 1 : listen_sockets[i].local # Current.local
  /\ listen_sockets' = [listen_sockets EXCEPT ![sock_ind].bound = TRUE]
  /\ sock_ind' = sock_ind + 1
  /\ UNCHANGED <<status, families, declared_listen>>

DropSocket ==
  /\ status = "creating"
  /\ sock_ind \in DOMAIN listen_sockets
  /\ Current.local.family \notin families
  /\ MayDrop(Current)
  /\ listen_sockets' = Dropped(sock_ind)
  /\ UNCHANGED <<status, families, sock_ind, declared_listen>>

SocketsInit ==
  /\ listen_sockets = <<>>
  /\ sock_ind = 1
  /\ declared_listen = <<>>

----------------------------------------------------------------------------
\* A master that runs listens on every address it was asked to listen on, with
\* the port of the command line wherever the option --port stands on it, and on
\* no other; when none was given, on all the interfaces of every family the host
\* supports (doc/manual.txt:358-373).
Asked ==
  IF declared_listen = <<>> THEN {AnyAddress(family) : family \in families}
                            ELSE {Resolved(name) : name \in ToSet(declared_listen)}

ListensAsAsked ==
  status = "running" =>
    /\ {listen_sockets[i].local : i \in DOMAIN listen_sockets} = Asked
    /\ \A i \in DOMAIN listen_sockets : listen_sockets[i].bound
    /\ Len(listen_sockets) <= MAX_LISTEN_SOCKETS

\* "If the address family isn't supported but the socket is optional, don't fail!"
\* (system.c:402): the program does not end for want of a socket on a host that
\* supports a family.  The code breaks this on a host without IPv4.
OptionalSocketIsOptional == status = "no socket" => families = {}
=============================================================================
