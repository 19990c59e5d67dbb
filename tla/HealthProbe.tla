---------------------------- MODULE HealthProbe -----------------------------
(***************************************************************************)
(* The health checks of the systemd deployment against the master they     *)
(* check: the exporter's master_up, behind /healthz, /metrics and the      *)
(* status page, and dpmaster-health.py, run after every start and once per *)
(* minute.  Each sends a getservers request from 127.0.0.1, so they are    *)
(* all one client of the flood protection, which the unit file enables.    *)
(***************************************************************************)
EXTENDS FloodProtection

CONSTANTS
  Local,                \* the host 127.0.0.1
  Probers,              \* checks that may be under way at the same time
  PROBE_TIMEOUT         \* seconds a check waits for the response

VARIABLES
  running,              \* the master process is up
  probe                 \* the checks

States == {"idle", "sent", "ignored", "healthy", "unavailable"}
\* "steady" is history: the master has been running since the check was sent.
Probe(state, steady) == [state |-> state, age |-> 0, steady |-> steady]

table == <<clients, last_used_slot, last, load, silent>>

\* master_up and dpmaster-health.py: one datagram.
Send(p) ==
  /\ probe[p].state \in {"idle", "healthy", "unavailable"}
  /\ probe' = [probe EXCEPT ![p] = Probe("sent", running)]
  /\ UNCHANGED <<table, running>>

\* The master handles it as any other getservers request.
Handled(p) ==
  /\ running
  /\ probe[p].state = "sent"
  /\ Request(Local)
  /\ probe' = [probe EXCEPT ![p].state = IF last'.verdict = "answered" THEN "healthy" ELSE "ignored"]
  /\ UNCHANGED running

\* recvfrom gives up.
TimedOut(p) ==
  /\ probe[p].state \in {"sent", "ignored"}
  /\ probe[p].age = PROBE_TIMEOUT
  /\ probe' = [probe EXCEPT ![p].state = "unavailable"]
  /\ UNCHANGED <<table, running>>

OtherRequest ==
  /\ running
  /\ \E h \in Hosts \ {Local} : Request(h)
  /\ UNCHANGED <<running, probe>>

Stop ==
  /\ running
  /\ running' = FALSE
  /\ probe' = [p \in Probers |-> [probe[p] EXCEPT !.steady = FALSE]]
  /\ UNCHANGED table

\* A new process has an empty table, and an empty socket.
Start ==
  /\ ~ running
  /\ running' = TRUE
  /\ clients' = [i \in Slots |-> NoClient]
  /\ last_used_slot' = -1
  /\ last' = NoRequest
  /\ load' = [h \in Hosts |-> 0]
  /\ silent' = [h \in Hosts |-> MaxAge]
  /\ probe' = [p \in Probers |->
                IF probe[p].state = "sent" THEN [probe[p] EXCEPT !.state = "ignored"] ELSE probe[p]]

\* A second passes; the master handles what it receives within it.
Second ==
  /\ \A p \in Probers :
       probe[p].state \in {"sent", "ignored"} =>
         probe[p].age < PROBE_TIMEOUT /\ ~ (running /\ probe[p].state = "sent")
  /\ Tick
  /\ probe' = [p \in Probers |->
       IF probe[p].state \in {"sent", "ignored"} THEN [probe[p] EXCEPT !.age = @ + 1] ELSE probe[p]]
  /\ UNCHANGED running

ProbeInit ==
  /\ Init
  /\ running = TRUE
  /\ probe = [p \in Probers |-> Probe("idle", FALSE)]

ProbeNext ==
  \/ OtherRequest \/ Stop \/ Start \/ Second
  \/ \E p \in Probers : Send(p) \/ Handled(p) \/ TimedOut(p)

ProbeSpec == ProbeInit /\ [][ProbeNext]_<<table, running, probe>>

----------------------------------------------------------------------------
\* A check calls the master unavailable only if it has not been running, and
\* handling requests, all the time the check waited ("GET /healthz probes
\* dpmaster and returns 200 when healthy or 503 when unavailable").  The code
\* breaks this: the flood protection ignores the requests of 127.0.0.1 as well.
UnavailableIsTrue ==
  \A p \in Probers : probe[p].state = "unavailable" => ~ probe[p].steady
=============================================================================
