# Verification of the gohere router, its runs and its edge

gohere runs development servers and gives each a host name under `.localhost`.
A router process keeps the *routes* (host name to local target), terminates TLS
for them and proxies requests to them; every `gohere` run reserves, activates,
renews and releases its own routes, and other commands (`prune`, `stop`, the
LAN manager, older clients) change the same table. Routes can be shared with
the local network under a `.local` name that an mDNS responder claims. In a WSL
distribution an *edge* process forwards the ports to the router on Windows.

This directory holds TLA+ models of these parts, the TLC runs that check them
and the TLAPS proofs about them. Paths are relative to the repository;
`internal/` is `src/internal/`.

## The system

| Component | State | Operations | Interacts with |
|---|---|---|---|
| Route table (`router/reservations.go`, `router/router.go`) | routes: identity, run, state pending/active, host, owner, target, expiry, LAN share | reserve, activate, release, renew, delete, legacy upsert/delete, drop expired | called inside `UpdateStore` by the admin API and by commands |
| Route store file (`RouteStore` in `router/router.go`) | `routes.json`, its lock file, backups | locked update, unlocked load with locked retry, replace by rename | several processes at once |
| LAN share of a route (`router/lan.go`) | share state in the route | request, activate, suspend, remove | LAN manager |
| Reservation API and client (`router/reservation_http.go`, `admin/`) | none | HTTP handlers; a client with a timeout of 10 s | runs to router |
| Run lifecycle (`app/planned.go`, `group.go`, `detected.go`) | refs of the run, servers, lease ticker | reserve, start servers, activate, renew each 30 s, clean up within 2 s | router, runner |
| prune and stop (`lifecycle/lifecycle.go`, `app/run.go`) | a copy of the table | look, then remove | router, or the file directly |
| Legacy registration (`app/run.go`) | a route without identity | POST and DELETE of `/routes` | router |
| LAN manager (`router/lan_manager.go`, `lan_*.go`) | registrations, pending names, bindings, records and tokens of certificates, network | create, prepare, remove, recover, rotate, reconcile, close | store, mDNS responder, LAN handshakes |
| mDNS responder (`lanmdns/`) | claims, scheduled answers, coordinator and write queues | register, release, probe, defend, announce, goodbye | network, LAN manager (`Prepare`) |
| Router process (`router/start.go`, `runtime_records.go`, `app/router_*.go`, `setup/`) | ports, PID, token and instance records, systemd unit | start, publish, shut down, stop, set up, uninstall | every command |
| Certificate authority (`cert/`, `certtrust/`) | `ca.pem`, `ca.key`, `fingerprint`, their lock | ensure, load, trust | setup, router |
| Local TLS and proxy (`router/local_tls.go`, `router/router.go`) | certificate cache, issuing in flight | authorize, issue, answer, proxy, redirect | authority, table |
| WSL edge (`wsledge/`, `app/wsl_edge.go`) | edge process, `edge.lock`, staged binaries, metadata | start, inspect, stop, replace, roll back, uninstall | runs in WSL, router on Windows |
| Edge sessions (`wsledge/serve.go`, `tunnel/`, `muxtransport/`) | one helper session, its connections | get, invalidate, close | companion on Windows |
| Process runner (`runner/`) | child process, detected port | launch, wait ready, stop | run lifecycle |
| Project discovery, CLI, static server, opener, firewall | files and system settings | sequential, mostly I/O | - |

What is hard: the table is shared by processes that crash and by requests that
time out at the client and are still served; leases are renewed against a clock
while other processes decide to remove what looks expired; activation is
all-or-nothing for a group; on Windows the file is absent in the middle of
every update; shares are removed while they are being activated, and
certificates replaced while they are handed out; mDNS names are lost and
claimed again at any time; several commands start, stop and replace the router
or the edge at once, and know it only by records that may be stale.
PROJECT.json lists the hazards line by line with the properties that cover
each.

## The modules

Routes and their file:

* `RouteTable` - the pure part. A table is a set of route records. Each function
  that runs inside `UpdateStore` is a predicate `Can...` (it succeeds) and an
  operator (the table it returns). Time is kept as what is left: `ttl` is the
  number of units until `ReservationExpiresAt` or `LeaseExpiresAt`, 0 once it
  has come, `NoExpiry` for a zero time. `Variants` stands for the sequence of
  names `ResolveHostnameConflict` tries. The 202nd name is not bounded: it must
  be long enough to hold a free one.
* `RouteStore` - the table as a variable and one atomic step per call, with no
  assumption about the callers. `LegacyStep` stores routes without identity,
  which the next `UpdateStore` names (`Stored`).
* `FileStore` - `RouteStore` of the Go code: a file, an advisory lock, and per
  process the step of its `Update` or `Load`. `windows` chooses between one
  rename and two. Any rename, read or write may fail; a process may die at any
  step, which frees its lock.
* `AtomicStore` - what callers rely on: a call takes effect at one instant.
  `FileStore!Linearizable` is this specification under the mapping `TableOf`
  (the file, or the backup of the process that is between the two renames) and
  `PhaseOf`. `lossy` allows the table to be lost in a crash or after a failed
  update; it is mapped to `windows`.
* `RunLifecycle` - runs against the store. `pc` is where `runPlannedSingle`,
  `runPlannedGroup` or `registerDetectedRouteLifecycle` is, `refs` its
  `pendingRefs`, `todo` the references the renewal or cleanup loop has yet to
  handle. It uses the actions of `RouteStore` by `INSTANCE`, so a request does to the
  table exactly what that module says. A request that its run no longer waits
  for is in `late` and may be served at any time or never; this stands for
  client timeouts, lost answers, cancelled contexts and a router that restarts.
  `LookAround`, `PruneOne` and `PruneAll` are `gohere prune` in its two steps,
  `Stop` is `gohere stop`.

The local network:

* `LANManager` - every call of the manager as a process with a step between any
  two uses of `m.mu`: `Create` with its roll back, `Prepare` (called by the
  coordinator pump of the responder), `Remove`, `RecoverVerified`, the start
  (`Startup`) and the network monitor (`Monitor`). The responder appears as the
  manager sees it: `claims`, the FIFO of `coordinatorRequests` per network
  (`asked`) and the pump. Numbers of networks and registrations are reused when
  nothing refers to them.
* `MDNSClaims` - what is behind that: the actor of each responder with its
  claim, deadlines in ticks of 250 ms, probes, comparison of addresses,
  conflicts and renames, `Prepare` requests with generations, announcements,
  defences, answers that wait for their time and go out one by one, full queues,
  the end of a responder, and a link that may be cut.
* `LANTLS` - the certificates of shares: the `binding` that handshakes use, the
  `record` the manager keeps of it, the setup `token` and its `session`, and the
  goroutines that change them: `Prepare` (issue, trust, register, activate,
  record, clear), the rounds of the monitor, and removals. Visitors make
  handshakes whose three reads are steps.

TLS on this machine:

* `CertStore` - the three files of the authority, written one after the other
  under a lock by setups that may fail or die before or after each write.
  `LoadCA` holds the lock for its reads and is an expression.
* `LocalTLS` - handshakes with the five checks of `local_tls.go`, each reading the
  authority and then the routes, the LRU cache, the singleflight of issuing,
  and requests that the proxy passes on, redirects or refuses by the route of
  their Host header and by the hops they have made.

Processes:

* `RouterProcess` - `router.Start` and `Close` with the records of
  `runtime_records.go`, and commands that need a router (`ensureRouter`, found,
  started by systemd or detached), stop it, refresh it or uninstall it. Routers
  are numbered in the order of their starts.
* `WSLEdge` - the edge processes, their lock file (created in one step, written
  in the next), staged binaries and metadata, and the commands `run`, `setup`
  and `uninstall` with `Inspect`, `Stop`, start, wait, roll back and restore.
* `EdgeSessions` - `WSLEdge` with the session manager of the serving edge: helper
  processes on Windows, connections that share a session, back-off, and what
  ends with the process.

`MCRouteStore`, `MCFileStore`, `MCRunLifecycle`, `MCLANManager`, `MCMDNSClaims`,
`MCTLS`, `MCRouterProcess` and `MCEdgeSessions` give constants for TLC;
`RouteStoreProofs`, `FileStoreProofs`, `RunLifecycleProofs`, `RouterProcessProofs`,
`LANManagerProofs`, `MDNSClaimsProofs`, `TLSProofs` (of `CertStore`, `LocalTLS` and
`LANTLS`) and `EdgeSessionsProofs` hold theorems.

How they fit: `FileStore` justifies that `RouteStore` takes each update as one
step; `RunLifecycle` composes those steps with their real callers, and
`UsesStore` says that it does nothing else to the table. `LANManager` relies on
the same atomicity and on `MDNSClaims` for what the responder answers; `LANTLS`
looks closely at the certificates that `LANManager` only counts as bound or
not. `MCTLS` composes `CertStore` with its readers `LocalTLS` and `LANTLS`.
`EdgeSessions` extends `WSLEdge`: an edge that ends takes its sessions along.

## The runs

| Run | Question | Bounds |
|---|---|---|
| `store` | hosts, identities, targets and the WSL owner stay unique, hosts are handed over only when free or expired, activations are whole, additions push out nothing but the expired, a removed share is not revived | 2 runs, 2 owners, 2 hosts, 2 targets, 2 WSL distributions and native, batches of 1 and 2, reuse of the first identities, 3 identities, reservation 1 unit, lease 2 |
| `file` | atomicity of calls, the lock protects what a writer read, calls return, locks are given back; one rename and two | 2 processes, tables over 2 routes, updates that add either route or remove all (refused on the empty table) |
| `run_safe` | groups appear as a whole, a live run keeps its routes, a clean exit is final | a group of 2 services and a detected run that want one host, one late request, one missed renewal in a row |
| `run_stop` | the table is used as `RouteStore` says; what is left behind expires | one run of either kind, 2 late requests, one stopped route |
| `run_prune` | expected violation, see below | one run, two renewals missed |
| `lan` | the network is opened and closed once, waiters are served, what is announced is served, nothing is left | 2 routes and 3 names, where one may end up under the name of the other, 2 HTTP calls, the start and the monitor, 2 networks; 5 events one after the other, or 2 that overlap |
| `lan_recovery` | expected violation, see below | 3 events one after the other |
| `mdns` | one owner of a name, it keeps it, nothing is announced unprepared, calls are answered, duplicates are resolved | 2 hosts, 2 names, 2 registrations at a time, 4 ticks for `Prepare`, 2 events (registrations after the first, cuts, full queues, ends) |
| `tls` | setups repair the authority; handshakes are sound while it is replaced; issuing is shared; requests are bounded; the LAN keeps no stale certificate or page | 3 setups with 2 faults, or one setup and readers; 2 clients, 2 hosts and the router's own; cache of 1; 2 LAN names, 1 share, 1 visitor, 2 tokens; 2 hours |
| `router` | the serving router keeps its records, concurrent starts succeed, stop and uninstall do what they report, and every command can end | 3 routers, 2 commands, 1 fault |
| `router_records` | expected violation, see below | 3 routers, 2 commands, no fault |
| `edge` | an upgrade that fails leaves the transport, the next run recovers, uninstall removes the edge, one helper, sessions are kept | 5 edges, 2 commands, 2 versions, 2 connections, 2 helpers, 1 fault, 1 helper that ends |

Why these are enough. Two runs with two hosts and two targets meet every
conflict the table tells apart: own route, route of another run, earlier entry
of the batch. Two or more identities per run make batches complete or
incomplete. A lease of 3 units with a renewal each unit are the real proportions
(90 s and 30 s); the reservation of one unit is the real 30 s. Two processes are
enough for the interference with one writer in its critical section; the proofs
cover any number. In `lan` two calls overlap with the start, the monitor and the
pump, so that up to five goroutines do; longer sequences (`orderly`) are looked
at where no two overlap. One of the two shares there may end up under the name
the other asks for, the other under a third: with two names only, a share never
had an alternative that nobody else used, and a late `Prepare` (below) never
did harm. In `mdns` the claim ends when its second name is lost, which is where
the minute of the code is over; more names only repeat a round of probing. Three
routers are one that serves and one started by each command; two faults have
been explored too (9.9 million states) and show nothing new. In `edge` commands
run one after the other (`alone`) over versions that may not work, or at the
same time over versions that do; a third command needs up to seven edges and was
explored to 14 million states, not exhausted. In `tls` the hours are those that
make the authority, which is due for renewal, and any certificate end in turn.

The bounds are named: `MaxId`, `MaxLate`, `MaxMissed`, `MaxStopped`, `MaxRuns`;
`MaxNet`, `MaxHandle`, `MaxEvents`, `MaxOverlapping`; `MaxName`, `MaxClients`,
`MaxPrepare`; `MaxCA`, `MaxTime`, `MaxRoute`, `MaxToken`; `Routers`, `Edges`,
`Helpers`, `MaxFaults`, `MaxCalls`, `MaxDrops`; and `Settles` in `MCTLS`, which
ends the LAN's activity once two goroutines have crossed.

A behaviour of `MCTLS` is about one `part` (setups, handshakes, requests, the
LAN), chosen at the start: the readers change nothing that the others read, so
that their product would add states and no behaviour. Its deadlock check is
off because setups are called once and then everything has ended; in all other
runs deadlock is checked. In `router` and `edge` a state in which every command
has ended may stay as it is, so that the check says that no command ever gets
stuck.

Faults. `file`: every read, write and rename may fail, and a process may die at
any step. `run_*`: late, lost and never served requests, interrupts, crashes,
missed renewals. `lan`: conflicts, failed certificates and activations, a
network that comes and goes, cancelled calls, a closing manager. `mdns`: a cut
link, full queues, responders that end. `tls`: writes that fail before or after
the rename, setups that die. `router`: crash, failed publication or record,
unanswered shutdown, failing `systemctl`, interrupt, reboot. `edge`: crash,
interrupt, a stop that times out, a removal that fails, a router that goes away.

### Fairness and timing

`file` assumes that a process that was called is scheduled (weak fairness of
its steps): each step is a system call or, for the lock, a poll with a deadline
of 10 s, after which `TimeOut` is enabled as long as another process holds it.

`run_stop` assumes that time passes and that the renewal loop of a live run
takes one decision per reference in each unit, which its ticker and the
client's timeout give; nothing is assumed about requests being served.

`mdns` assumes that the actor does what is due and reads its inbox (one
goroutine with a timer and a channel), that `Prepare` returns, that time passes,
that someone asks for a name that is announced, and that a link that is cut
comes back. The last two are about the network and not about the code; without
them nobody would ever notice a duplicate.

The other runs check safety. Some actions carry an assumption on time, each a
guard with a comment: `LANManager.Ask` (a claim is probed for 750 ms before
`Prepare`), `LANManager.Settled` (where `orderly`, an earlier `Prepare` has ended
when a name is registered anew), `MDNSClaims.Tick` (link and actor are faster than 250 ms),
`LocalCalm` and `LANCalm` (no handshake, issuing or round takes an hour),
`RouterProcess.WaitFails` and `WSLEdge.GivesUp` (ten seconds are enough for a
process on its way), and `RenewBefore >= MaxTime` (the thirty days before an
authority ends are longer than the time looked at).

`LiveRunKeepsRoutes` needs `LeaseTTL > MaxMissed + 1`: with 90 s and 30 s one
missed renewal in a row is harmless and two are not.

### Findings

`run_prune` shows a disagreement with `README.md:205` ("`prune` removes routes
that are confidently dead or whose reservation/lease has expired."). Both forms
of prune decide on one reading of the table and delete by reference
afterwards. References do not change on renewal, and the deleting update does
not look at the lease again, so a run that missed two renewals (a suspended
machine) and renews between the two steps loses an active, unexpired route. Its
later renewals are answered with 409, which the renewal loop ignores. Where at
most one renewal is missed in a row, `run_safe` shows that it cannot happen.

`lan_recovery` shows a disagreement with `lan_manager_test.go:369,382`
("authenticated renewal did not recover LAN share"). A renewal that finds the
target unreachable once suspends the share and leaves its registration. The
next renewal calls `Create`, which returns at once for a registered route
(`lan_manager.go:264`): the share stays suspended, although its target is back
and its name still announced.

`router_records` shows a disagreement with `runtime_records.go:94`
("LockRuntimeRecords serializes writes and conditional removals of router.pid
and router.instance so a stale writer cannot erase a newer router's records.").
The command that has started a detached router writes its process ID whatever
`router.pid` holds (`setup.go:301`). Of two commands that start a router at once
the one whose router lost the ports may write last; `router.pid` then names a
process that has ended, and `gohere service stop` and `uninstall` stop there.

Some properties are claimed under a condition because the code does not keep
them without:

* `StaleNoticed` and `TokensOwned` only while no two goroutines have worked on
  one share at a time (`~crossed`). A round of the monitor that overlaps a
  `Prepare` may put a certificate of the older authority over a newer binding
  (`lan_manager.go:627`) while the record says it is current: handshakes fail
  until the record is due by its age.
* `AnnouncedServed` and `NothingLeft` only where calls do not overlap: a removal
  between the activation of a share and the bookkeeping of `Create`
  (`lan_manager.go:303`) leaves a name that is announced and not served. Nor may
  a `Prepare` be late (`Settled`): a claim that is dropped leaves its request
  in the queue or with the pump (`actor.go:389`), and when the name is registered
  anew the generations start at 1 again (434). A certificate that took longer
  than the next round of probing then answers for a claim it was not made for
  (311), maybe with another host name. The attempt to prove `AnnouncedServed`
  without it failed for that reason, and TLC found the case with three names.
* `UninstallRemovesEdge` only for commands that come one after the other, and
  one fault: `Stop` removes the lock file whosever it is by then
  (`serve.go:461,472`). The attempt to prove it for any number of faults led to
  a case with two, which TLC then found with `MaxFaults = 2`. An edge has
  crashed; a run starts another and is interrupted while it waits for it, so
  that it stops the edge: its `Stop` reads the lock that the crashed edge has
  left, the new edge removes that one and writes its own (405), and `Stop`
  removes this one. The edge serves without a lock, and the next `uninstall`,
  which "removes the WSL edge" (`README.md:226`), finds nothing to stop, removes
  the directory and leaves the edge.
* `RunRecovers` leaves out an edge that died between creating its lock and
  writing it: every command refuses such a lock.

## The proofs

`RouteStoreProofs` proves, for every set of runs, owners, hosts, targets and
batches and every bound, that `SafetyInv` (`TypeOK`, `HostsUnique`, `IdsUnique`,
`TargetsUnique` and `OneWSLOwner`) is an invariant of `RouteStore`. It is
inductive as it stands, phrased over a table and the next
identity (`WellFormed`), so that lemmas can speak of tables that are not the
variable: naming unidentified routes keeps it (`StoredWellFormed`), removing
routes or changing fields that are not keys keeps it (`KeepsSome`,
`KeepsKeys`), a reservation keeps it (`RESERVE`, the one that needs the
definition of an assignment: each entry sees the earlier ones), and an upsert
keeps it (`UPSERT`). That every identity is below `nextId` is what makes a new
identity new.

`RouteStoreProofs` also proves the action properties `HostsHandedOver`,
`AdditionsSpare`, `ShareNotRevived` and `ActivationWhole` from one lemma about each step (`StepOrigin`): a route of the next table is one of
this table with the fields that such a step may change (`Stays`), a new
reservation (`Reserves`) or a legacy post (`Posts`); and a step that adds a route
leaves every other one there, but for the expired and, when it is a post, the
route of the same host (`Spares`). The invariant needs one more conjunct here:
routes without an identity are active (`PostsActive`), since a legacy post and
the one it replaces have the same `NoId` and are told apart by nothing else.

`FileStoreProofs` proves `TypeOK`, `WriterOwnsTable` and `Spec =>
Linearizable` for any processes, tables and updates, with either kind of
rename. The invariant adds to `WriterOwnsTable` that at most one process is in
its critical section and that a process in the gap has the old file, if there
was one, as its backup; it is needed because the mapped table is then that
backup.

`RunLifecycleProofs` proves, for any runs and services, `Spec => UsesStore`
(that `RunLifecycle` implements `RouteStore`), with it `RouteStore!SafetyInv` of
the routes of all runs, and `GroupTogether`. Operations on the table fall into
three classes: they keep the routes with their identities, runs and states
(`Keeps`), add pending routes of one run (`Adds`), or activate those of one run
(`Activates`); one lemma each shows that the class keeps `RoutesInv`, and one
lemma per group of actions pairs an operation with what else the action changes.
`GroupTogether` alone is not inductive. The invariant adds to it that a run that
is about to activate has all servers up (`ControlInv`); that the same holds of a
run whose activation is late, and that a late reservation belongs to a run that
has ended (`LateInv`); and that a run that has not reserved yet, or whose
reservation is late, has no routes (`RoutesInv`), so that a reservation never
adds a pending route next to an active one. That an identity names one route
(`OneRoutePerIdentity`) is what keeps an activation from touching another run.

`LiveRunKeepsRoutes` and `CleanExit` need to know who a route belongs to. The
invariant adds that a reference a run holds, or that a request of its names,
was handed out to that run and to nobody else, so that no clean-up, late
release or renewal touches the route of another. What keeps the route of a live
run is a distance: its lease is longer than the renewals that run may still
miss in a row before its next one is served. That needs `MaxMissed + 1 <
LeaseTTL`, the hypothesis of the theorem; a lease of 90 s (`run.go:78`,
`reservation_http.go:16`) renewed every 30 s makes it `1 + 1 < 3`. `CleanExit`
follows because a run that has deleted its routes and knows it has no request
under way that could add or activate one.

`RouterProcessProofs` proves `TypeOK` with one owner of each port,
`InstanceKept`, `RemovesAfterStop` and `RecordNotErased`, for any number of
routers, commands and faults. A step brings a router nearer to its end, and
gives it a port only when no router has it (`Becomes`): hence the ports, and
that a router that has ended does not come back. `InstanceKept` then follows
because no two routers have the admin port, so that none publishes while
another serves. The two properties of a stop are not inductive: the invariant
adds that routers named by a record or a command have been started (`PIDHeld`,
`Held`), that a record of before the last boot names one that has ended
(`OldGone`), and that from what a command has seen of the router it stops it
follows, at each later step, that this router has ended (`ToldGone`).

`LANManagerProofs` proves `NetworkOwned` and `WaitersServed` for any routes, names,
calls, networks and registrations, whatever overlaps. `NetworkOwned` follows from
`NetsInv`, in terms of who is to close which network (`Closes`): two goroutines are
never to close the same one, nobody is to close that of the manager, and any other
one that is open has somebody. It is inductive because a goroutine takes a
network out of the manager in the step that makes it its closer, and because a
number is used again only when no call has it (`FreeNets`). `WaitersServed` needs
three things more. A claim belongs to a responder that runs and is the only one for
its name (`ClaimsInv`), so that a join or an answer is for the right one. Nobody else
has the registration that somebody waits for, be it in the maps, taken out of
them or in a call (`LoneInv`): hence no withdrawal takes away what another waits for.
And a request that leaves the queue is in the hands of the pump until its claim
has been answered. Most steps change nothing of all this (`Plain`) and need one
lemma; the others have one each.

It also proves `AnnouncedServed` and `NothingLeft`, for the behaviours in which no
two calls overlap and requests are settled (`orderly`); conflicts, failures, the
network and routes that vanish still come at any time. The invariant
(`OrderlyInv`) follows one reservation of a name from `Create` to its end. One
goroutine works at a time (`AloneInv`), one network is open, and requests are
those of its responder (`PortsInv`). The three maps agree, and a name is
reserved for a registration or for one that is under way (`BooksInv`); the
goroutine that shares or withdraws a route is the one that decides on it
(`CallsInv`). Every registration of a claim is entered, on its way, or taken out
and about to be closed (`HeldInv`), which is `NothingLeft` when nobody works any
more. For `AnnouncedServed` a claim's requests are in the order of its
generations, and only the last may be the one it waits for, with the name it
probed (`SortedInv`); what the pump works on is for the route that has the name
reserved (`OwnersInv`, `AskedInv`), and that route has its share and its
certificate under the claim's current name as soon as it announces (`ServesInv`).
Activating a share takes away the certificate of its former name only: a share
that keeps its name keeps it.

`TLSProofs` begins with `CertStore`: the types and `SetupRepairs` for any number of setups,
authorities and faults. The invariant: the setup that holds the lock is the only
one between its first write and its last; what it has written so far is in the
files; its authority does not end within the time looked at. Files left
half-written by a setup that failed need no mention: the next holder writes all
three or has found them whole.

It proves `FlightShared`, `RequestsBounded` and `HandshakeSound` of
`LocalTLS` by itself (`LocalSpec`: connections, requests, routes and time, with the
authority replaced at any moment), for any connections, any finite set of hosts
and any size of the cache. The invariant (`LocalInv`) says that the cache has one entry
per key, which ends when its certificate does; that a key has one flight at most,
that its issuer has not put in vain what it issues, and that whoever waits has a
flight to wait for; and that what a connection holds belongs to the host and
authority it was looked up for. Lemmas on the cache come first: it is a
sequence of which entries are moved to the front, dropped and cut off.
`HandshakeSound` needs besides that the checks after the wait are made with the
routes of that moment. `RequestsBounded` is a matter of the hops a request
carries: each is a route it has passed, and none is there twice.

Of `LANTLS` (`LANSpec`: shares, rounds, removals and devices, with the authority
replaced at any moment) it proves `LANHandshakeSound`, `StaleNoticed` and
`TokensOwned`, for any routes, names, devices and tokens. Certificates are never
of a later authority than the files (`KnownLeaves`), and one issued in this hour
ends last of all of its authority (`NewLeaves`): whoever binds one puts nothing
older in place, also where a round and a `Prepare` cross. `LANInv` says what a
device needs: a binding under the share's own host name is recorded, or of an
earlier authority (`CoveredInv`); one of the present authority has not ended
(`LiveInv`, which the clock keeps because the monitor leaves no record due for
an hour); and a handshake that has come as far as its last look at the binding
will not find an ended one there (`VisitSafe`). All this holds whatever crosses.

`StaleNoticed` and `TokensOwned` rest on `CalmInv`, which is about the time
until two have worked on one share: `Prepare` has its share for itself
(`PrepareAlone`); a round goes by records that nobody has changed since, or that
are gone (`RoundAlone`); nothing is kept of a share that is being removed
(`Forgotten`); a bound name has a record of the same or an older certificate,
unless `Prepare` or `Remove` is about to deal with it (`StandsInv`); and each
setup page is owned by a share, a `Prepare`, a round or a removal (`OwnersInv`),
of which only shares are left at rest.

`MDNSClaimsProofs` proves `OneOwner`, `KeepsName` and `AnnouncesPrepared` for
any set of responders, any addresses and any number of registrations. What keeps
two claims of one name apart is time: each probes three times, 250 ms apart, and
listens for another 250 ms, and no message takes that long to arrive. `PairInv`
therefore relates any two responders on a link that has lost nothing, by what
the one has sent and the other has not read yet (`Told`, `Probed`), what it is
still to answer, and where the other is with its probes and its deadline. Who
claims a name that has an owner is about to hear of the owner, from its first
announcement or from an answer that comes before the second interval between
probes has passed (`OwnerAnswers`); what a host has still to say of a name that
it has lost is said before the other announces it for the second time
(`OldAnswers`, `AnswersLeft`); only a host that has announced its name once may
hear of another owner (`NotTold`); and if two own a name, each has a message of
the other unread (`BothOwn`), which is `OneOwner`. `KeepsName` needs besides
that a claim that has been given to somebody is not probed any more (`HeldInv`).
`AnnouncesPrepared` needs that the generation of a request identifies the name
it was made for, as long as the claim is the first of its responder (`Asked`).

`EdgeSessionsProofs` proves `OneHelper` (with the types of `WSLEdge` and
`EdgeSessions`) and `SessionKept` for any edges, commands, connections and
helpers. Types need that an edge that lives has tried the lock once at most and
what a command under way knows (`Knows`). `Sole` says who may have a helper: the
connection that holds the mutex while it starts one, when the manager has no
session; otherwise only the manager's session. `Dead` says that a connection
that is about to give a session up has found it dead, which stays true: this
makes `Invalidate` harmless to another session.

It also proves `RunRecovers` and `UninstallRemovesEdge`, which are about what one
command finds of what others have left; the first for any number of faults
before the run. The invariant (`CommandsInv`) has four parts. `BasicInv`: one
edge listens at most, and one command is under way where they come in turn.
`InstalledInv`: no edge is on its way while everything is removed, so that
metadata and lock name binaries that are there. `OneEdgeInv`, for at most one
fault: one edge lives at most and has the lock from the moment it has made it;
a lock is left behind by a crash only, and then no command is cancelled besides;
`Leaves` says what a command at each of its steps leaves of edges (none when it
starts or removes). `RecoverInv`: a run that was called while all edges rested
and has met no fault stops the only edge, clears its lock or what a crashed one
has left, and what it starts comes up (`Succeeds`, `ComesUp`).

`TransportKept` is proved by two arguments (`TransportInv`), both for histories
without a fault and without an uninstall that stops an edge (`Undisturbed`).
There, an edge that is told to end has a command that waits for it, and every
binary that is to be started is installed (`Attended`). Where commands cross
(`CrossedInv`), every version reaches Windows and no run ever gives up: once an
edge has been used, one leads to the router, or one is on its way with a try at
the lock left, or a command is about to start one (`Crossing`). A run that ends
may so leave the last word to others. Where they come in turn (`AloneInv`), a
version may not work at all: a run that replaces an edge that leads to the
router has seen it, stops no other, and puts it back unless what it starts leads
there too (`Lasting`); and a Stop finds the one edge there is serving, with its
lock, so that it cannot fail half-way (`Turn`, `LivingServes`).

The assumptions are those named in the modules: sentinels differ from real
values, TTLs are positive, variants are sequences of hosts, updates map tables
to tables or to `Refused`, numbered processes are positive numbers, an authority
outlasts the time looked at, and certificates of shares are replaced some time
before they end (`lan_manager.go:193`).

Every invariant and every action property that a passing run checks is proved.
Only model-checked is liveness under fairness (`CallsReturn`, `LockReleased`,
`LeftoversExpire`, `RegisterAnswered`, `DuplicatesResolved`), which is out of
reach of TLAPS, as is what recursive definitions compute for every input.

## Not modelled

* `runner`, the child processes: `RunLifecycle` has their outcomes. What could
  go wrong there is between the code and the operating system: `cmd.Wait` is
  called before all output has been read (`runner.go:328`), the chosen port may
  be taken meanwhile (345), a line longer than 1 MiB blocks the child (407).
* The lease loop of a legacy WSL run, which posts its route again each time
  (`run.go:1038`), as a process; its requests are in `RouteStore`. Reuse of the
  route of another run by a live run, and what `createLANShare` does, in
  `RunLifecycle`.
* How long a round of renewals takes when a group is large and the router slow
  (`planned.go:270`): a round is within one unit of time.
* The requests of the companion on Windows (a call with a typed answer each),
  the staging of its executable, frames and flow control of the multiplexer
  (the yamux library).
* Several claims of one responder, which share only its inbox and its clock, and
  the backoff of a claim after fifteen conflicts.
* Headers, cookies and canonicalisation in the proxy, project discovery, command
  line, static server, opener, firewall and interface queries, DNS encoding and
  sockets, PATH and shell profiles in setup: sequential I/O or formatting whose
  correctness is not a matter of states.
* That a process ID comes round to another router, or names a gohere process
  again when a run is checked by its ID.

Known from reading, and outside of what the properties say: a `Prepare` for a
claim that probes again may activate a share that was suspended meanwhile; a
setup page visited while the authority cannot be loaded deletes its token for
good; `rollbackCreate` leaves the trust token of the failed attempt; a router
ended by a signal may return from `main` before `Close` has finished.
