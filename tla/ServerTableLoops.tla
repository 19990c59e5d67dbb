-------------------------- MODULE ServerTableLoops -------------------------
(***************************************************************************)
(* The loops of servers.c, iteration by iteration: Sv_Remove with its      *)
(* cursors, the walk down a hash chain, the sweep of Sv_CheckTimeouts, the *)
(* look-up of the next free slot, and Sv_GetFirst / Sv_GetNext.  In every  *)
(* table ServerTable reaches they must return what its definitions say.    *)
(*                                                                         *)
(* A loop is the function from the number of its turns to its state; a     *)
(* turn after the end of the loop changes nothing.  No loop of servers.c   *)
(* takes more turns than there are slots.                                  *)
(***************************************************************************)
EXTENDS ServerTable

\* A table with the two iteration cursors of servers.c:54-55.
Cursors(t, crt, last) == [t |-> t, crt_server_ind |-> crt, last_server_ind |-> last]

\* Outside an iteration both are where Sv_Remove leaves them alone.
Alone(t) == Cursors(t, -1, -1)

\* The do-while of Sv_Remove: the used slot it stops at, or -1.
PreviousUsed(t, ind) ==
  LET previous[i \in -1 .. max_nb_servers - 1] ==
        IF i >= 0 /\ t.servers[i].state = "unused" THEN previous[i - 1] ELSE i
  IN  previous[ind]

\* One Sv_Remove: unlink, mark the slot free, then repair the four cursors.
Sv_Remove(c, i) ==
  LET freed == [c.t EXCEPT
                  !.servers[i] = FreeSlot,
                  !.chain = [b \in Buckets |-> @[b] \ {i}],
                  !.ahead = {p \in @ : p[1] # i /\ p[2] # i},
                  !.nb_servers = @ - 1,
                  !.first_free_slot = IF @ = -1 \/ i < @ THEN i ELSE @]
      end   == IF freed.last_used_slot = i
                 THEN PreviousUsed(freed, i - 1)
                 ELSE freed.last_used_slot
      Clamp(ind) == IF ind > end THEN end ELSE ind
  IN  Cursors([freed EXCEPT !.last_used_slot = end],
              Clamp(c.crt_server_ind), Clamp(c.last_server_ind))

\* Sv_IsActive: the entry of slot i is removed when it has timed out.
Sv_IsActive(c, i, now) == IF Expired(c.t, i, now) THEN Sv_Remove(c, i) ELSE c

\* Sv_CheckTimeouts: the bound of the loop moves as entries are removed.
SweepTurn(c, ind, now) ==
  IF ind > c.t.last_used_slot THEN c ELSE Sv_IsActive(c, ind, now)

SweepFrom(c, now) ==
  LET sweep[n \in 0 .. max_nb_servers] ==
        IF n = 0 THEN c ELSE SweepTurn(sweep[n - 1], n - 1, now)
  IN  sweep[max_nb_servers]

\* The walk of Sv_GetByAddr_Internal: sv is -1 at the end of the chain, and
\* once the entry is found.  next_sv is read before Sv_IsActive may unlink
\* the current entry.
FirstOf(t, chained) ==
  IF chained = {}
    THEN -1
    ELSE CHOOSE i \in chained : \A j \in chained \ {i} : <<i, j>> \in t.ahead

WalkTurn(w, a, now) ==
  LET b       == BucketOf[a]
      next_sv == FirstOf(w.c.t, {j \in w.c.t.chain[b] : <<w.sv, j>> \in w.c.t.ahead})
      c       == Sv_IsActive(w.c, w.sv, now)
      sv      == c.t.servers[w.sv]
      same    == IF Active(c.t, w.sv, now) /\ PublicOf[sv.address] = PublicOf[a] THEN 1 ELSE 0
  IN  IF w.sv = -1
        THEN w
        ELSE IF sv.address = a
          THEN [c |-> [c EXCEPT !.t = MoveToTop(@, w.sv, b)], sv |-> -1,
                same_address_found |-> w.same_address_found + same]
          ELSE [c |-> c, sv |-> next_sv,
                same_address_found |-> w.same_address_found + same]

WalkChain(c, a, now) ==
  LET walk[n \in 0 .. max_nb_servers] ==
        IF n = 0
          THEN [c |-> c, sv |-> FirstOf(c.t, c.t.chain[BucketOf[a]]), same_address_found |-> 0]
          ELSE WalkTurn(walk[n - 1], a, now)
  IN  walk[max_nb_servers]

\* The look-up of the next free slot in Sv_GetByAddr (servers.c:785-796): it
\* breaks off once first_free_slot is set.
ScanTurn(c, ind, now) ==
  LET next == Sv_IsActive(c, ind, now)
  IN  IF c.t.first_free_slot # -1 \/ Active(next.t, ind, now)
        THEN c
        ELSE [next EXCEPT !.t.first_free_slot = ind]

ScanFrom(c, start, now) ==
  LET scan[ind \in 0 .. max_nb_servers] ==
        IF ind <= start THEN c ELSE ScanTurn(scan[ind - 1], ind - 1, now)
  IN  scan[max_nb_servers]

AddServer(t, a, now) ==
  LET new     == t.first_free_slot
      claimed == [t EXCEPT !.last_used_slot = IF @ < new THEN new ELSE @,
                           !.first_free_slot = -1]
      scanned == ScanFrom(Alone(claimed), new + 1, now).t
  IN  LinkFirst([scanned EXCEPT
                   !.servers[new] = [state |-> "uninitialized", address |-> a,
                                     timeout |-> now + TIMEOUT_HEARTBEAT],
                   !.nb_servers = @ + 1], new, BucketOf[a])

\* Sv_GetFirst, then Sv_GetNext until it returns NULL: the table they leave
\* and how often they returned each slot.
Visit(c, returned, ind, now) ==
  LET next == Sv_IsActive([c EXCEPT !.crt_server_ind = ind], ind, now)
  IN  [c        |-> next,
       returned |-> IF Active(next.t, ind, now)
                      THEN [returned EXCEPT ![ind] = @ + 1]
                      ELSE returned]

Sv_GetFirst(t, k, now) ==
  Visit(Cursors(t, k, IF k = 0 THEN t.last_used_slot ELSE k - 1), [i \in Slots |-> 0], k, now)

Sv_GetNext(g, now) ==
  IF g.c.crt_server_ind = g.c.last_server_ind
    THEN g
    ELSE Visit(g.c, g.returned, (g.c.crt_server_ind + 1) % (g.c.t.last_used_slot + 1), now)

Browse(t, k, now) ==
  LET browse[n \in 0 .. max_nb_servers] ==
        IF n = 0 THEN Sv_GetFirst(t, k, now) ELSE Sv_GetNext(browse[n - 1], now)
  IN  browse[max_nb_servers]

----------------------------------------------------------------------------
\* The sweep removes every expired entry up to last_used_slot, although its
\* own bound shrinks under it (servers.c:217-223).
SweepAgrees ==
  SweepFrom(Alone(table), crt_time).t = Sv_CheckTimeouts(table, crt_time)

\* The walk down a chain that unlinks entries under itself and moves the one
\* it finds to the top ends with the table Sv_GetByAddr_Internal defines, and
\* when it finds nothing it has counted the entries of the host.
WalkAgrees ==
  \A a \in Addresses :
    LET walk == WalkChain(Alone(table), a, crt_time)
    IN  /\ walk.sv = -1
        /\ walk.c.t = Sv_GetByAddr_Internal(table, a, crt_time)
        /\ Matches(table, a, crt_time) = {} =>
             walk.same_address_found = SameAddressFound(table, a, crt_time)

\* Taking a free slot looks up the next one and removes what it must remove.
TakeAgrees ==
  table.first_free_slot # -1 =>
    \A a \in Addresses :
      AddServer(table, a, crt_time) = Sv_TakeFreeSlot(table, a, crt_time)

\* Sv_GetFirst and Sv_GetNext, whose cursors Sv_Remove moves under them, come
\* to an end, leave the table Sv_Browse defines, and return each server it
\* lists exactly once.
BrowseAgrees ==
  \A k \in 0 .. table.last_used_slot :
    LET browse == Browse(table, k, crt_time)
        listed_slots == {i \in Visited(table, k, crt_time) : Active(table, i, crt_time)}
    IN  /\ browse.c.crt_server_ind = browse.c.last_server_ind
        /\ browse.c.t = Sv_Browse(table, k, crt_time)
        /\ browse.returned = [i \in Slots |-> IF i \in listed_slots THEN 1 ELSE 0]

\* None of the loops of servers.c, which remove entries under themselves, does
\* anything else than its definition in ServerTable, from any table the server
\* list can reach.
LoopsAgree == SweepAgrees /\ WalkAgrees /\ TakeAgrees /\ BrowseAgrees
=============================================================================
