----------------------------- MODULE RateLimits -----------------------------
(***************************************************************************)
(* The three limits that protect the deployment from its peers: on the     *)
(* queries of a host and on the heartbeats of an endpoint, in the master,  *)
(* and on the HTTP requests of a client, in the exporter.  They share no   *)
(* state, and a datagram or a request meets one of them only, so that each *)
(* behaviour follows one limiter and leaves the others as they start.      *)
(***************************************************************************)
EXTENDS FloodProtection, HeartbeatLimit, RateLimiter

VARIABLE limiter        \* the one this behaviour is about

limitsVars == <<limiter, vars, heartbeatVars, limiterVars>>

LimitsInit ==
  /\ limiter \in {"queries", "heartbeats", "http"}
  /\ Init
  /\ HeartbeatInit
  /\ LimiterInit

LimitsNext ==
  /\ UNCHANGED limiter
  /\ \/ limiter = "queries" /\ Next /\ UNCHANGED <<heartbeatVars, limiterVars>>
     \/ limiter = "heartbeats" /\ HeartbeatNext /\ UNCHANGED <<vars, limiterVars>>
     \/ limiter = "http" /\ LimiterNext /\ UNCHANGED <<vars, heartbeatVars>>

LimitsSpec == LimitsInit /\ [][LimitsNext]_limitsVars

----------------------------------------------------------------------------
\* The variables of the three limiters have their types.
LimitsTypeOK == TypeOK /\ HeartbeatTypeOK /\ LimiterTypeOK
=============================================================================
