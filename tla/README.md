# dpmasterX: TLA+ models, checks and proofs

dpmasterX is a master server: game servers announce themselves to it with UDP
datagrams, and game clients ask it for the list. The process is a single thread
that reads one datagram at a time (`src/src/dpmaster.c:1023-1118`), so its hard
parts are not data races but long sequences of legal steps: lazy expiry in the
middle of a walk, cursors that are repaired while an entry is half added,
challenges that cross on the network, records that are recycled while they still
count, snapshots that a crash cuts in two, command lines whose options may stand in
any order. Beside it runs a threaded HTTP
exporter (`src/contrib/systemd/dpmaster-exporter.py`), whose hard parts are
interleavings.

Paths in this file are those of the repository, which is `src/` here: the C code
is in `src/src/`.

## 1. Inventory

| Part | State | Operations | What makes it correct |
|---|---|---|---|
| server list, `servers.c` | `servers[]`, `nb_servers`, `first_free_slot`, `last_used_slot`, iteration cursors, hash chains | look-up, addition with quota, removal, sweep, iteration | counters and cursors agree with the slots; one entry per endpoint; the quota holds; only expired entries leave; a full list is really full |
| registration, `messages.c` | per entry: challenge, its deadline, heartbeat and anonymous properties | `heartbeat`, `getinfo`, `infoResponse` | an answer only counts for the challenge it answers; steady servers come back, dead ones go |
| queries, `messages.c` | one request, its iteration and packets | `getservers`, `getserversExt` | the right servers, whole packets, one end mark |
| flood protection, `clients.c` | ring of client records | throttle with decay, recycling of records | nobody gets more than its share, nobody is held back without a reason |
| heartbeat limit, `messages.c:44-85` | ring of windows per endpoint | count, start a window, overwrite a record | nobody is refused for the heartbeats of others |
| state file, `servers.c:520-700` | memory, `<path>.tmp`, `<path>`, the disk | save after each accepted `infoResponse`, load at start | a crash tears nothing, nothing is prolonged, nothing is dropped silently |
| game policy and properties, `games.c` | sorted names, sorted protocol numbers, list of games | command line options, look-ups | look-ups follow the options, in their order |
| exporter, `dpmaster-exporter.py` | semaphore of worker slots, handler threads, `STATUS_CACHE`, pool of queries | accept, build a page, query, store | slots come back, pages are fresh, requests end |
| health checks, `dpmaster-exporter.py`, `dpmaster-health.py`, `dpmaster.service` | probes under way | probe, time out | "unavailable" is true |
| rate limiter, `dpmaster-exporter.py` | token bucket per client, in an ordered dictionary | allow: read the clock, take the lock, refill, take a token, forget the oldest | clients get their share whatever the order of the threads; a refusal is justified |
| address mappings, `servers.c` | list sorted by address and port | declare, resolve, look up | an exact mapping comes before one of the host; no order of declaration changes an answer; nothing maps to a loopback address |
| sockets and process security, `system.c` | list of listening sockets, index of the loop that creates them | declare, resolve, create, drop, close | every required interface is listened on, in the order it was asked for; an optional one is optional |
| command line and main loop, `dpmaster.c` | settings, flags, `crt_time` | parse, initialise, loop | settings are in the range the other parts assume |
| logging and signals, `common.c` | log file, two flags of the signal handlers | open, reopen, close | no signal is lost |
| rendering, Win32 service code, test suite | - | - | not modelled |

How they interact. The main loop reads the clock, then one datagram, then calls
a handler of `messages.c`. Handlers call the server list, which expires entries
whenever it meets them; `HandleGetServers` asks the flood protection first, and
`HandleHeartbeat` the heartbeat limit. `HandleInfoResponse` saves the state file,
and start-up loads it. The game lists, the mappings and the list of sockets are built by the command
line, resolved before privileges are dropped, and only read afterwards. Signals
set flags that the main loop looks at once per datagram. The exporter reads the state file and probes the master over UDP: it
is a client of the flood protection like any other.

`PROJECT.json` lists the same parts as components, and under `hazards` the lines
where this code is hard to test, with the properties that watch them.

## 2. Modules

| Module | Models |
|---|---|
| `Registry` | abstract: a bounded set of entries with deadlines |
| `ServerTable` | `servers.c` as the handlers of `messages.c` drive it; implements `Registry` |
| `ServerTableLoops` | the loops of `servers.c`, iteration by iteration, against the definitions of `ServerTable` |
| `ServerTableProofs` | theorems about `ServerTable`, that it implements `Registry`, and that the loops do what it defines |
| `Registration` | heartbeat / getinfo / infoResponse over an unreliable network, with restarts |
| `RegistrationProofs` | theorems about `Registration` |
| `ServerQuery` | `HandleGetServers`: choice of the game, filters, packets |
| `ServerQueryProofs` | theorems about `ServerQuery` |
| `FloodProtection` | `clients.c` |
| `HeartbeatLimit` | `HeartbeatRateLimited` |
| `RateLimiter` | class `RateLimiter` of the exporter |
| `RateLimits` | the three limiters side by side, for one run |
| `RateLimitsProofs` | theorems about each of the three limiters and about `RateLimits` |
| `HealthProbe` | composes the health checks with `FloodProtection` |
| `Persistence` | `Sv_SaveState`, `Sv_LoadState`, the file system |
| `PersistenceProofs` | theorems about `Persistence` |
| `CommandLine` | the options that set a number or a flag |
| `GameProperties` | `games.c` and its two command line options |
| `AddressMaps` | the address mappings of `servers.c` |
| `ListenSockets` | the listening sockets of `system.c` |
| `LogFile` | the log file of `common.c` and its signals |
| `Dpmaster` | `main`: composes the five modules above, from the command line into the main loop |
| `GamePropertiesProofs` | lemmas about the operators of `GameProperties`, for any lists |
| `DpmasterProofs` | theorems about `Dpmaster` |
| `Exporter` | HTTP slots, handler threads, cache and query pool of the exporter |
| `ExporterProofs` | theorems about `Exporter` |

`MC<module>` holds the definitions an instance of a module needs. Definitions
called `Mutant_...` are wrong versions of the definition they precede, of the kind
a plausible bug would give; nothing uses them but the entries `mutants` of
`PROJECT.json`, which name the property that finds each of them out.

Correspondence with the code:

* `ServerTable`. `table` is the record of the static variables of `servers.c`.
  Since a handler runs to its end before the next datagram is read, an action is a
  whole handler, with every expired entry it removes on the way: `HeartbeatKnown`,
  `HeartbeatRefused` and `HeartbeatNew` are `HandleHeartbeat` through `Sv_GetByAddr`;
  `InfoResponseAccepted` and `InfoResponseRefused` are `HandleInfoResponse`;
  `GetServers(k)` is the iteration that `rand()` starts at slot `k`;
  `GetServersTraps` is its division by `last_used_slot + 1` when that is 0;
  `PrintServerList` is the sweep that SIGUSR1 causes. A hash chain is a set of
  slots with an order between them. The states empty, occupied and full are one,
  "validated": only `ServerQuery` tells them apart.
* `ServerTableLoops` exists because `ServerTable` states what a loop computes, and
  the loops of `servers.c` change the list, and their own bounds and cursors, under
  themselves. Each loop is a recursive function from the number of its turns to its state:
  the sweep of `Sv_CheckTimeouts`, the walk of `Sv_GetByAddr_Internal`, the look-up of the
  next free slot, and `Sv_GetFirst` with `Sv_GetNext` until it returns NULL, all with the
  `Sv_Remove` they call. `LoopsAgree` says that in every table the list can reach they
  come to their end and leave what `ServerTable` defines.
* `Registration`. One entry per endpoint, the datagrams in transit, what each game
  server is running. Deadlines are kept as the seconds left, so that behaviours
  are infinite and liveness means something. `under` in a datagram is history: the
  properties the challenge was sent for. So are `told` and `source` in an entry: the
  properties its latest accepted answer was for, and whether `anon` comes from that answer
  or from the state file.
* `ServerQuery`. One request against one iteration. The order of the servers is any,
  because the iteration starts at a random slot of a list in any order.
* `FloodProtection`. A record keeps the seconds since `last_time`. `load` and `silent`
  are history: the bandwidth a host has used, as a leaky bucket that does not know
  about records, and the time since it was last answered.
* `HeartbeatLimit`. The ring of 1024 records. A record keeps the age of its window, and
  counts up to the first heartbeat over the burst. `sent` and `passed` are history, the
  ages of an endpoint's latest heartbeats and of those let through, the newest first;
  `overwritten` is the time since the ring took a record away from it.
* `Persistence`. `Sv_SaveState` is cut into its system calls, each of which may fail,
  be the last before a kill, or the last before a power loss. `on_disk` is the file a
  power loss would leave. That a rename is atomic, and that fsync makes the contents
  durable, is assumed of the file system.
* `RateLimiter`. A thread reads the clock in one step and takes the lock in a later
  one, so that threads overtake each other with older clocks. The dictionary is a
  sequence, the least recently used client first. `used` is history, a leaky bucket
  that does not know about the dictionary.
* `RateLimits`. The limiters share no state, so the run is their sum, not their
  product: each behaviour picks one limiter and leaves the others at their start.
* `CommandLine`. Numbers are what `strtol` returns; `Unsigned` is their conversion to
  the unsigned type of the setting, `Stored` the one to the signed throttle limit.
* `GameProperties`. One action per option of the command line. The arrays are
  sequences, with the code's own binary search, insertions and deletions. The status
  "undefined" of `Dpmaster` stands for what C leaves undefined (`strcmp` with NULL at
  `games.c:385`, and the `memcpy` at `dpmaster.c:753` that reads from the text of an
  argument instead of from `argv` when a parameter is attached to its option): nothing is
  claimed after it. `claims` and `listed` are history, the documented meaning of the options.
* `AddressMaps`. Declarations go on top of a list, and resolution inserts them one by
  one into a sorted one (a fold, for the loop of `Sv_ResolveAddressMappings`); look-ups
  walk that list as `Sv_GetAddrmap` does. `declared_maps` is history, the set of
  declarations without an order.
* `ListenSockets`. One action per turn of the loop that creates the sockets. `families`
  is what the host supports.
* `LogFile`. The signal handlers and the four steps of `Com_UpdateLogStatus` interleave.
  `wanted`, `crossed` and `signalled` are history.
* `Dpmaster`. `UnsecureInit` is atomic: it stands for everything between the end of the
  command line and the creation of the sockets, during which nothing else acts. What
  the operating system may refuse there is `StartupFails`. The options of different
  modules share nothing but `status`, hence the scenarios: each has the command lines
  made of the options of one module, in any order and number, and one scenario has signals.
* `Exporter`. Handler threads interleave; each step is one that holds or releases a
  shared resource. The verdict of the rate limiter is any: `RateLimiter` models it apart.
* `HealthProbe`. The exporter's `master_up` and `dpmaster-health.py`, as one client of
  the flood protection, with stops and starts of the master.

## 3. Runs

| Run | Shows | Bounds, and why they are enough |
|---|---|---|
| `ServerTable` | 11 properties of the list, the literal loops and the refinement of `Registry` among them | three slots: the smallest array where a slot can be freed below, between and above others. Five endpoints: three of one host and two of another, so the quota of two can be reached and exceeded; two buckets, so chains hold strangers. Times 1 and 2, clock up to 3: entries expire in every order |
| `ServerTable_cursor` | violation: `last_used_slot` can be -1 with a server in the list | clock up to 4 |
| `ServerTable_browse` | violation: a reply can leave out live servers | as above, without a quota |
| `Registration` | late and duplicated answers, and restarts, never list a server under a wrong game, or let it lend its name beyond what its last answer told (but for a restored one, section 6); steady servers return, dead ones are forgotten | one endpoint (entries of different endpoints do not interact here), two datagrams in transit: an old one beside the current one; one restart; two configurations, one with heartbeats that can be read as the other's. An infoResponse without a name is left to the proofs |
| `RateLimits` | for each limiter: nobody gets more than its share, nobody is refused for what others do | queries: four hosts for three records, always contended; limit 3 and decay 2: an answer can come in the middle of a decay. Heartbeats: three endpoints for two records, a burst of two in windows of two seconds: records are overwritten while they count, and two bursts meet at the end of a window. HTTP: three clients for two buckets of three tokens, two threads up to two ticks late (`MaxDelay`): a clock can be older than the bucket |
| `Persistence` | crashes, failed calls, restarts | one loadable and one unloadable server, three seconds |
| `Persistence_restored` | violation: a server that is saved but not restored | the same |
| `ServerQuery` | packets, end mark; exactly the right servers, for a client that names its game and, from the lender of the name on, for one that does not | any three of nine different servers, packets of two IPv4 records or one IPv6: every way to fill, overflow and close a packet |
| `Dpmaster` | look-ups, mappings, limits and sockets are as the options ask; the log follows the signals | five scenarios. Games: command lines of any length; three usable names and protocols: binary searches of depth two. Limits: `UINT_RANGE` 8 and `USHORT_RANGE` 4 with numbers around 0, the ranges and the limits. Mappings: three (`MaxMappings`), before, after and equal to each other in the order of the list. Sockets: three (`MAX_LISTEN_SOCKETS`), hosts with any set of families. Log: no bound |
| `Dpmaster_sockets` | violation: a host without IPv4 does not start, although IPv4 is optional | the same |
| `Exporter` | slots, freshness, waiting (two timeouts for each round, section 6), termination | two threads, two servers, a pool of one: pages overlap, and a page needs two rounds; a cache of one server overflows |
| `HealthProbe` | violation: a running master is called unavailable | three checks, the limits of the deployment (`--fp-throttle 5`, decay 3) |

Deadlock is checked except in `ServerQuery`, which ends when the reply is sent, and in
`Dpmaster` and `Dpmaster_sockets`, where a start-up may be refused and where only the
scenario with signals goes on into the main loop. Symmetry is used in `RateLimits`, which
has no liveness properties. The type invariants of `Registration`, `Persistence` and
`Exporter` are proved, and not repeated in their runs.

What each property says is in the comment above it.

## 4. Fairness

* `Registration`. `SF` on the clock, on the steps of a game server that sends and
  answers, and on the delivery of each kind of datagram: a network that loses
  every datagram of a kind for ever can keep anybody out. `KeepsComingBack` also
  needs `prompt`: eventually no datagram lasts a second in transit. Without that, an
  answer that always takes longer than the two seconds of a challenge would never
  be accepted, and nothing in the code promises otherwise. `DeadIsForgotten` holds
  on every network.
* `Exporter`. `WF` on the steps of each handler thread: the operating system schedules
  every thread, and every wait in these steps is bounded by a socket timeout. Nothing
  is assumed of clients, which may never send a request.

All other properties are safety properties, of specifications without fairness.

## 5. Proofs

`ServerTableProofs` proves, for any number of slots, endpoints, hosts and buckets, and
any timeouts and quota, the theorems `TypeCorrect`, `SlotsAccounted`,
`StrandedSheltered`, `FullListSwept`, `RefusalMeansFull`, `ChainsAreExact`, `AddressesUnique`, `QuotaHolds`,
`LiveEntriesStay` and `DeadlinesStay`. The assumptions are those of `ServerTable`: the
sizes and times are natural numbers, and endpoints of one public address share a bucket,
which the hash guarantees unless `--hash-ports` is given (`dpmaster.c:125` says that
this breaks the quota).

The argument. The tempting invariant, "`last_used_slot` is the highest used slot", is
false: see the first finding. What is true is weaker. A server may be stranded above
`last_used_slot`, but then a free slot lies above the server (`Sheltered`), because the
removal that pulled the cursor down freed a slot above it. `first_free_slot` fills the
array from below, so that free slot is taken, and the cursor pushed above the server,
before the list can be full. Hence `FullListIsSwept`: in a full list the cursor is at the
last slot, and the sweep that `MakeRoom` starts misses nothing (`RefusedOnlyIfFull`). The inductive invariant `IInv` is this together
with the accounting of the slots, the exactness and the order of the chains, uniqueness
and the quota; all of these are needed at once, since the look-up that finds no entry
proves uniqueness only when the chains are exact. There is one lemma per function of
`servers.c` (removal of a set of slots, look-up, taking a free slot, move to the top of
a chain), and one step per handler.

`TableRefinesRegistry`, in the same module, is the refinement. The mapping is the set of the
used slots' entries: slots, cursors, chains, their order and the laziness of expiry are
forgotten. Every handler is then one of the six steps of `Registry`: `Forget` (expired
entries go, and a query is answered with some of the live ones), `Register`, `Validate`,
`Tick`, `Stop`, `Start`. The proof rests on the invariant above, because a look-up that
finds nothing in one chain has to mean that no entry has the address.

`LoopsDoAsDefined`, in the same module, is `LoopsAgree`: what `ServerTable` says a loop
computes is what the loop does, turn by turn, for any number of slots and any hash. With it the
theorems above are about the loops of `servers.c`, not only about their results. For each
loop a closed form describes its state after `n` turns: the table is the one it began with
without the expired entries it has passed (`Sv_RemoveAll` of a set, to which one more `Sv_Remove`
adds an element: `RemoveMore`, `RemoveOne`). That the recursive function exists is part of
the proof: the closed form satisfies its equation, or, for the walk, `WalkDefined` builds it.

* `SweepIs`, `ScanIs`, `TakeIs`. The bound of the sweep moves down as it removes entries, but not
  before the sweep has come to it.
* `WalkIs`. `next_sv` is read before its predecessor may be unlinked; the walk stands at the
  entry that has `n` others before it in the chain (`StandsAt`) until it is over, and since a chain
  has no more entries than there are slots, it does end. This needs the order of a chain to be
  transitive, which is why `ChainsExact` and `IInv` say so (`Ordered`).
* `BrowseIs`, `BrowseEnds`. On its way up the iteration keeps the slot before its start as its end;
  at `last_used_slot` the removals decide (`BrowseAfter`): if something from the start on is
  active, it goes on from 0, and else both cursors have been clamped to one slot, where it ends.
  `BrowseReturnsAllOrNone` draws the conclusion, which is the exact extent of finding 2: a
  query is offered every active server up to `last_used_slot`, each once, or none at all.

`RateLimitsProofs` proves all the properties of the run `RateLimits`, for any number of
peers, records and threads, and any limits. A limiter bounds what a peer gets only through
the record it keeps of it, so no property is inductive by itself: each invariant says what
a record vouches for, what is true of a peer without one, and that nobody has two.

* Flood protection (`BandwidthBounded`, `ThrottlingIsBrief`, `RefusalIsJustified`). A record
  of `c` requests that is `t` seconds old vouches for `c` decay times less `t` seconds of
  use; a host without a record has used nothing any more. A record is recycled only when its
  decayed count is 0, which is exactly when what it vouches for is used up.
* Heartbeats (`HeartbeatsRefusedFairly`, `HeartbeatsBounded`). The heartbeats a record counts
  are no older than its window, those let through before are no younger (`CountsItsWindow`), and
  an endpoint without a record had nothing let through since it lost the one before
  (`UnknownAreSilent`).
* HTTP requests (`HttpShareBounded`, `HttpRefusedFairly`). What a client has used, the tokens of
  its bucket and the tokens the bucket's age is worth add up to its `Credit`, which is at
  least `BURST`, so that an empty bucket means a burst spent, and at most
  `BURST + RATE * MaxDelay`, whatever clock a thread brings to the lock. A client
  whose bucket is forgotten starts again (`ForgottenAreIdle`), and the history with it: what
  is bounded is the share of a client between two such losses.
* `EachLimitByItself` shows that a behaviour of `RateLimits` is one of each limiter, which
  carries these theorems over to the composition.

`RegistrationProofs` proves `TypeCorrect`, `AnswersFit` and `GamesAreRight`.
`AnswerFitsHeartbeat` speaks of the answers that would be accepted now; it is not
inductive, because an answer that is refused now, or a getinfo still on its way, may count
later. `ChallengeTellsTag` says it of every datagram that carries the challenge of an entry,
whatever else the master makes of it. It is preserved because a challenge is sent again
only for the tag it was drawn for, and because a new one is in nobody's use: the model
numbers challenges, and a pigeonhole argument shows that there is always a free number.
That a random challenge is never drawn twice is an assumption of the model.
`ListedUnderItsGame` follows with it: an answer is taken for the tag its challenge was sent for,
so the flag it sets is what it told, and `SameListing` carries that through ageing, and
through a restart but for the guess of `Sv_LoadState`.

`PersistenceProofs` proves `TypeCorrect`, `NothingIsTorn`, `NothingIsProlonged`,
`KillsLoseNothing` and `NothingIsDropped`. The first properties rest on two invariants over
all the copies of the list, in memory, in the temporary file, under the name and on the
disk: what bears the name is durable (`Durability`), so a power loss has nothing to tear;
and no copy grants a server more than its last answer did (`Bounded`). The other two need
what the copies know of each other (`Saved`): the temporary file is a snapshot of the list,
the list has whatever can be read from the file unless the load failed, and the file has
whatever is listed once a save has gone through.

`ExporterProofs` proves `TypeCorrect`, `SlotsComeBack`, `PagesAreFresh` and `PagesWaitBounded`. The slots are
counted: a slot is free, with a live handler or on its way to one; that a query that ends
changes none of this needs its page to be live (`RunningIsQuerying`). A cached row is fresh
because the stamp of an entry is as old as the page that asked for it (`StampsAreTrue`):
stamping results with the time of their storage would break it. A page waits at most two
timeouts for each round of its pool (section 6 says what is promised): each page is in some `j`-th round (`InRound`), which ends
within `2 * QUERY_TIMEOUT * j`, and at whose end `j` times the workers of the pool have
finished a query, because a worker that becomes free takes the next row at once.

`ServerQueryProofs` proves `QueryTypeCorrect`, `RepliesArePacked`, `KnownGamesAnswered` and
`UnknownGamesAnswered`, for any servers, filters, order of the iteration and sizes of a
packet. The properties speak of an answer that is complete; `QueryInv` says the same of the
pages so far, of which the packet that is being filled is the last: all but the last are
full (`FullInv`), and together they hold the servers before `next` that fit, each once and in
order (`ShownInv`). For a client that names no game it also ties the name to the first
server that lent it (`NameInv`), from which on a server is in the pages if and only if it fits.

`GamePropertiesProofs` is a library of lemmas about the operators of `games.c`, for lists of any
length. A property of a fold, or of the binary search, needs induction over data, and the
theorems that give it have an operator as a parameter. What they rest on has not: a relation is
well-founded when every non-empty set has a minimal element (`WFMin`). So the results of a
fold are taken as a sequence of which each element comes from the one before
(`FoldResults`), and a set of indices that holds 0 and passes from each to the next holds
all (`Along`); in the same way `FindIsRight` follows the search through its shrinking intervals
(a recursive function, not a RECURSIVE operator) and shows that it finds a key of a sorted
array if and only if it is there, and else the place to insert it. The rest says what
insertion, replacement and removal leave in the arrays, and that an option does to the array
of protocols what the manual says of a map.

`DpmasterProofs` proves the five invariants of the run `Dpmaster`, for any options, command
lines of any length, widths of the numbers and number of sockets.

* `LogIsAsSignalled`. A flag that is pending is what the latest signal asked for, and so is
  the step after the test of a flag, unless the other signal fell in between (`PendingIsWanted`).
* `SettingsAreUsable`. Each number accepted, after its conversion, is in the range that the rest
  of the program assumes (`Usable`), except a throttle limit of 2^31 or more (section 6).
* `OptionsAreFollowed`. The array of protocols agrees with the history `claims` (`PropertiesInv`),
  and that of the names with the lists so far, which all had one policy (`PolicyInv`). The
  induction needs the arrays sorted, as otherwise the search would miss.
* `ListensWhereAsked`. Sockets that were asked for are never dropped (`AskedSockets`); of the default
  ones, `DefaultSockets` lists every state of the loop, its error included (finding 4), which
  is why the property can hold beside the violation: such a master does not run.
* `MapsAreAsDocumented`. The list resolved is sorted strictly and is the set of the declared
  mappings (`MapsInv`): a place to insert splits a sorted list, insertion there keeps its order,
  and two mappings of one address end the program. In such a list the look-up's last
  candidate is the exact mapping if there is one, else that of the host (`MapIsFound`).
* `DpmasterTypeCorrect` combines the invariants of the parts.

Assumptions on constants are the named `ASSUME`s of the modules; TLC evaluates them in
every run. They say that sizes, limits and times are natural numbers (and positive where the
code refuses or divides by 0), that absent values are none of the others, and of the code's own
constants what it can be seen to define: defaults that its own checks accept
(`WidthAssumption`), built-in games whose properties are in no error (`BuiltInAssumption`), room for
the two default sockets (`SocketAssumption`), a packet that has room for one server
(`QueryAssumption`), and the kind of value that the parser hands to each option
(`ScenarioAssumption`).

Every invariant of a passing run is a theorem. Only model-checked are:

* Liveness: `DeadIsForgotten` and `KeepsComingBack` of `Registration`, `EveryRequestEnds` of `Exporter`,
  which need fairness and `ENABLED`.
* The five violations, each a behaviour that TLC exhibits.

## 6. Findings

1. `ServerTable_cursor`, `servers.c:785`. `Sv_GetByAddr` looks for the next free slot
   before it marks the slot it takes as used. If that look-up removes the last used
   entry, `Sv_Remove` walks `last_used_slot` down past the slot being taken, to -1 at
   worst. The list then has a server while `last_used_slot` says it has none; the next
   query divides by zero, or an assertion fails in a debug build.
2. `ServerTable_browse`, `servers.c:102`. When an iteration starts above the last live
   server, removals pull both of its cursors to one slot and it ends at once: the
   client is sent an empty list.
3. `Persistence_restored`, `servers.c:642`. A server with protocol 0, or with an empty
   game type, is listed and saved, but `Sv_LoadState` drops its record.
4. `Dpmaster_sockets`, `system.c:409`. Dropping an optional socket moves one entry too few
   down. Of the two default sockets, IPv4 is dropped, tried again in the place of IPv6 and
   dropped again: a host without IPv4 does not start.
5. `HealthProbe`, `dpmaster-exporter.py:248`. Checks that come too often are throttled
   by the master's own flood protection, and report a running master unavailable.

Seen while modelling. These have no run of their own; where a property allows for one of them,
its comment says so:

* A client that names no game misses servers (`messages.c:603`). `doc/manual.txt:207-210` says
  that an anonymous game with the same protocol is searched in the list, and its name is then
  "the request's game name". But search and answer are one loop: the servers of that game
  that the loop has passed before it meets the lender, which use the DarkPlaces protocol, are
  left out, and since the iteration starts anywhere, the same request gets them another time.
  `UnknownGameGetsOne` states the reply exactly: all that fit from the lender on.
* A silent server blocks a page of the exporter for two timeouts, not one.
  `contrib/systemd/README.md:113-115` says that it "never blocks the page beyond the configured
  timeout", but `query_server` (`dpmaster-exporter.py:153-154`) asks it for `getstatus` and then
  for `getinfo`, and a pool of eight takes more rows than that in rounds. `PageWait` is the bound
  that holds, two timeouts for each round.
* A restored server may lend its name although it should not (`servers.c:680`). `Sv_LoadState`
  guesses from the game name whether a server uses a heartbeat tag of its own, so one that
  heartbeats as DarkPlaces under the name of a built-in game comes back as one whose name an
  anonymous query may take, against `messages.c:599-602`, until it answers again.
  `ListedUnderItsGame` allows just this (`MayLieAsRestored`).
* A state file that cannot be read is replaced. `SecureInit` ignores the result of
  `Sv_LoadState` (`dpmaster.c:943`): the master starts with an empty list, and the first
  infoResponse it accepts writes that over the file. `SnapshotsKeepServers` excepts it.
* A snapshot may lack live servers. The results of `fprintf` are not looked at
  (`servers.c:575`), so records lost to a full disk are not noticed if the final `fflush`
  succeeds, and the loop ends at `last_used_slot` (`servers.c:555`), below a server stranded above it
  (finding 1). Both part from `README.md:32-33`, that validated servers survive a restart.
  `KillLosesNothing` and `SnapshotsKeepServers` except both.
* The heartbeat limit of 10 per 10 seconds (`doc/techinfo.txt:407`) holds within the fixed
  windows of one record, so twice as many may pass around the end of a window
  (`AtMostTwoBursts` is what holds), and more when the ring of records overwrites one that
  is still counting.
* With `--allow-loopback` no mapping is ever looked up (`servers.c:725`), not even that of an
  address which is no loopback one: `MappingsAreFollowed` excepts it.
* A USR1 and a USR2 that are both pending lose their order, and a signal between the look at
  the flags and `select` waits for the next datagram: `LogFollowsSignals` excepts the former.
* A throttle limit of 2^31 or more is accepted and stored in a signed int (`clients.c:222`),
  where it is negative: every query of a client but its first is then ignored.
* A socket that has not been created yet holds descriptor 0, not -1, so that
  `Sys_CloseAllSockets` (`system.c:148`) closes standard input when an earlier one fails. The
  program ends there in any case.
* When `fflush` or `fsync` fails, the FILE is never closed (`servers.c:583`).

## 7. Not modelled

* Parsing and formatting of datagrams, info strings and addresses, except where it
  decides something: an absent tag, a malformed answer, a name that disagrees.
* Of `system.c`: chroot, setuid and the daemon, which are start-up calls in sequence, each
  of which may end the program (`StartupFails`); the Windows service.
* Options that are a path or a user name, and `--help`: their errors are `StartupFails`.
* The contents of the log, except for the sweep that listing the servers triggers; HTML and
  JSON rendering; the catalog of games; the test suite.
* The clock is assumed not to go backwards, as the code assumes.
* Memory exhaustion, except at start-up (`StartupFails`).

## 8. Plan

Done, in the order in which they mattered: the server list with its proofs and its
refinement; registration; the limits of queries and heartbeats; the state file; queries,
exporter and health checks; start-up with its options, mappings, sockets and log; the rate
limiter of the exporter; then the proofs of registration, of the state file and of the
exporter; of the three limiters; of the replies to queries; and of the whole start-up with
the games, mappings, sockets and log; and of the loops of the server list.

Next:

1. Compositions: `ServerTable` with `Persistence`, whose loop over the slots ends at
   `last_used_slot` (`hidden` is any set of servers so far); `Registration` with the
   look-ups of `GameProperties` in place of constants; `Exporter` with `RateLimiter`.
2. Larger instances of `ServerTable` and `Registration`, with two endpoints that compete.
