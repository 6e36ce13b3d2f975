----------------------------- MODULE RouteTable -----------------------------
(***************************************************************************)
(* The route table of the gohere router and the functions that transform   *)
(* it: internal/router/reservations.go, the legacy upsert of               *)
(* internal/router/router.go and the LAN share transitions of              *)
(* internal/router/lan.go.                                                 *)
(*                                                                         *)
(* Every one of those functions runs inside UpdateStore, which hands it    *)
(* the stored routes and saves what it returns, or saves nothing when it   *)
(* returns an error.  Each is therefore modelled by a predicate that says  *)
(* when it succeeds and an operator that gives the table it returns; the   *)
(* modules that have a table as a variable turn the pair into an action.   *)
(*                                                                         *)
(* A table is a set of route records: the code keeps a slice, sorted by    *)
(* host after every update, and no decision depends on the order.          *)
(*                                                                         *)
(* Time is kept as what is left of it.  ReservationExpiresAt (a pending    *)
(* route) and LeaseExpiresAt (an active one) become one field ttl, the     *)
(* units until that instant, 0 once it has come, NoExpiry for the zero     *)
(* time.Time of a route that carries neither.                              *)
(***************************************************************************)
EXTENDS Integers, Sequences

CONSTANTS
    Runs,            \* run IDs: one per gohere run
    Owners,          \* CWD and project identity of a run
    WSLOwners,       \* OwnerInstance of the runs that come from WSL
    Hosts,           \* route host names
    Targets,         \* host:port keys of the targets (reservationTargetKey)
    Schemes,         \* preferred URL schemes
    NoRun,           \* the empty RunID, of a route the legacy API stored
    Native,          \* the empty OwnerInstance
    ReservationTTL,  \* DefaultReservationTTL
    LeaseTTL,        \* DefaultRouteLeaseTTL
    Variants         \* [Hosts \X Owners -> Seq(Hosts)]: names tried in turn

ASSUME SentinelAssumption == NoRun \notin Runs /\ Native \notin WSLOwners

ASSUME TTLAssumption ==
    ReservationTTL \in Nat \ {0} /\ LeaseTTL \in Nat \ {0}

ASSUME VariantsAssumption == Variants \in [Hosts \X Owners -> Seq(Hosts)]

NoExpiry == -1
NoId == 0

States == {"pending", "active"}
\* LANShareRemoving is declared and no caller ever asks for it.
ShareStates == {"none", "requested", "active", "suspended"}

Route ==
    [id : Nat, run : Runs \cup {NoRun}, runner : Runs, state : States,
     host : Hosts, owner : Owners, wsl : WSLOwners \cup {Native},
     target : Targets, scheme : Schemes, share : ShareStates,
     ttl : Nat \cup {NoExpiry}]

(***************************************************************************)
(* One entry of a reservation request; reuse is NoId or names the active   *)
(* route the run wants instead of a new one, lan says whether the run      *)
(* asked for --share=lan.                                                  *)
(***************************************************************************)
Candidate ==
    [host : Hosts, owner : Owners, wsl : WSLOwners \cup {Native},
     target : Targets, scheme : Schemes, lan : BOOLEAN, reuse : Nat]

Expired(r) == r.ttl = 0

\* Mutant: what expires within the next unit is dropped too.
Mutant_Unexpired(table) == {r \in table : r.ttl \notin {0, 1}}

Unexpired(table) == {r \in table : ~Expired(r)}

\* One unit of time passes for a route.
Aged(r) == [r EXCEPT !.ttl = IF @ > 0 THEN @ - 1 ELSE @]

(***************************************************************************)
(* UpdateStore gives an identity to a route that has none before it runs   *)
(* the update.  Only a legacy POST stores such a route, and the next       *)
(* update names it, so there is never more than one: see IdsUnique of      *)
(* RouteStore.                                                             *)
(***************************************************************************)
WithIdentities(table, fresh) ==
    {[r EXCEPT !.id = IF @ = NoId THEN fresh ELSE @] : r \in table}

-----------------------------------------------------------------------------
(* Reservation *)

\* enforceSingleWSLOwner: the WSL entries of a batch agree on one owner, and
\* no stored route belongs to another.
SingleWSLOwner(table, batch) ==
    \A i \in DOMAIN batch : batch[i].wsl # Native =>
        /\ \A j \in DOMAIN batch : batch[j].wsl \in {Native, batch[i].wsl}
        /\ \A r \in table : r.wsl \in {Native, batch[i].wsl}

\* A reused route must still be there, active, of the same owner and scheme.
ReuseMatches(table, batch) ==
    \A i \in DOMAIN batch : batch[i].reuse # NoId =>
        \E r \in table :
            /\ r.id = batch[i].reuse
            /\ r.state = "active"
            /\ r.owner = batch[i].owner
            /\ r.scheme = batch[i].scheme

\* routeSchemeConflict, against the table and the earlier entries of the batch.
SchemesAgree(table, batch) ==
    \A i \in DOMAIN batch :
        LET agrees(e) == (e.host = batch[i].host /\ e.owner = batch[i].owner)
                            => e.scheme = batch[i].scheme
        IN  /\ \A r \in table : agrees(r)
            /\ \A j \in 1 .. (i - 1) : agrees(batch[j])

NewEntries(batch) == {i \in DOMAIN batch : batch[i].reuse = NoId}

\* Mutant: the Target field is read whatever the state, and is empty while pending.
Mutant_TargetsFree(table, batch) ==
    \A i \in NewEntries(batch) :
        /\ \A r \in table : r.state = "active" => r.target # batch[i].target
        /\ \A j \in NewEntries(batch) : j # i => batch[j].target # batch[i].target

TargetsFree(table, batch) ==
    \A i \in NewEntries(batch) :
        /\ \A r \in table : r.target # batch[i].target
        /\ \A j \in NewEntries(batch) :
              j # i => batch[j].target # batch[i].target

\* project.ResolveHostnameConflict: the first of the names tried for a
\* candidate that no route has.  The code tries 202 names and then returns a
\* 203rd without looking; Variants is long enough for that never to happen.
Resolves(host, candidate, occupied) ==
    LET tried == Variants[<<candidate.host, candidate.owner>>]
    IN  \E k \in DOMAIN tried :
            /\ host = tried[k]
            /\ host \notin occupied
            /\ \A l \in 1 .. (k - 1) : tried[l] \in occupied

HostsOf(table) == {r.host : r \in table}

\* The hosts a batch gets: each entry sees the hosts given to the earlier ones.
IsAssignment(given, table, batch) ==
    \A i \in NewEntries(batch) :
        Resolves(given[i], batch[i],
                 HostsOf(table) \cup
                     {given[j] : j \in {k \in NewEntries(batch) : k < i}})

Assignments(table, batch) ==
    {given \in [NewEntries(batch) -> Hosts] : IsAssignment(given, table, batch)}

CanReserve(table, batch) ==
    /\ SingleWSLOwner(table, batch)
    /\ ReuseMatches(table, batch)
    /\ SchemesAgree(table, batch)
    /\ TargetsFree(table, batch)

PendingRoute(run, candidate, host, id) ==
    [id |-> id, run |-> run, runner |-> run, state |-> "pending",
     host |-> host, owner |-> candidate.owner, wsl |-> candidate.wsl,
     target |-> candidate.target, scheme |-> candidate.scheme,
     share |-> IF candidate.lan THEN "requested" ELSE "none",
     ttl |-> ReservationTTL]

\* A reused route that is not shared yet is marked for sharing if asked.
ShareReused(table, batch) ==
    {[r EXCEPT !.share =
        IF /\ @ = "none"
           /\ \E i \in DOMAIN batch : batch[i].lan /\ batch[i].reuse = r.id
           /\ r.id # NoId
        THEN "requested" ELSE @] : r \in table}

\* The table after the batch: entry i is named base + i.
Reserved(table, run, batch, given, base) ==
    ShareReused(table, batch) \cup
        {PendingRoute(run, batch[i], given[i], base + i) : i \in NewEntries(batch)}

-----------------------------------------------------------------------------
(* Activation, release, renewal, deletion *)

OfRun(table, run) == {r \in table : r.run = run}
Named(table, refs) == {r \in table : r.id \in refs}
IdsOf(table) == {r.id : r \in table}

\* Mutant: matchingRunIndexes without the completeness check.
Mutant_CanActivate(table, run, refs) ==
    /\ refs # {}
    /\ refs \subseteq IdsOf({r \in OfRun(table, run) : r.state = "pending" /\ ~Expired(r)})

\* completeRunIndexes with RouteStatePending: the refs are exactly the run's
\* pending routes and none of them has expired.
CanActivate(table, run, refs) ==
    /\ refs # {}
    /\ refs = IdsOf({r \in OfRun(table, run) : r.state = "pending"})
    /\ \A r \in OfRun(table, run) : r.state = "pending" => ~Expired(r)

\* Mutant: an active route gets no lease.
Mutant_Activated(table, refs) ==
    {IF r.id \in refs THEN [r EXCEPT !.state = "active", !.ttl = NoExpiry] ELSE r
        : r \in table}

Activated(table, refs) ==
    {IF r.id \in refs THEN [r EXCEPT !.state = "active", !.ttl = LeaseTTL] ELSE r
        : r \in table}

\* completeRunIndexes with no required state and no time: expiry is ignored.
CanRelease(table, run, refs) ==
    refs # {} /\ refs = IdsOf(OfRun(table, run))

CanRenew(table, run, refs) ==
    /\ refs # {}
    /\ refs \subseteq IdsOf(OfRun(table, run))
    /\ \A r \in Named(table, refs) : r.state = "pending" => ~Expired(r)

Renewed(table, refs) ==
    {IF r.id \in refs THEN [r EXCEPT !.ttl = LeaseTTL] ELSE r : r \in table}

Without(table, refs) == {r \in table : r.id \notin refs}

-----------------------------------------------------------------------------
(* The legacy API: POST /routes and DELETE /routes/<host> *)

\* Mutant: the runner of a WSL route is not compared.
Mutant_SameRouteOwner(existing, new) ==
    existing.owner = new.owner /\ existing.wsl = new.wsl

\* sameRouteOwner: a WSL route changes hands between two runners of the same
\* owner only once its lease has expired.
SameRouteOwner(existing, new) ==
    /\ existing.owner = new.owner
    /\ existing.wsl = new.wsl
    /\ \/ existing.wsl = Native
       \/ existing.runner = new.runner
       \/ existing.state = "active" /\ Expired(existing)

CanUpsert(table, new) ==
    \A r \in table : r.host = new.host => SameRouteOwner(r, new)

\* What registerLegacyRoute sends: no identity, and a lease for WSL only.
LegacyRoute(runner, host, owner, wsl, target, scheme) ==
    [id |-> NoId, run |-> NoRun, runner |-> runner, state |-> "active",
     host |-> host, owner |-> owner, wsl |-> wsl, target |-> target,
     scheme |-> scheme, share |-> "none",
     ttl |-> IF wsl = Native THEN NoExpiry ELSE LeaseTTL]

Upserted(table, new) == {r \in table : r.host # new.host} \cup {new}

-----------------------------------------------------------------------------
(* LAN share state of a route *)

ValidShareTransition(current, next) ==
    \/ current = "requested" /\ next \in {"active", "suspended"}
    \/ current = "active" /\ next = "suspended"
    \/ current = "suspended" /\ next = "active"

\* RequestLANShare
CanRequestShare(table, id) == \E r \in table : r.id = id /\ r.state = "active"

ShareRequested(table, id) ==
    {IF r.id = id /\ r.share = "none" THEN [r EXCEPT !.share = "requested"] ELSE r
        : r \in table}

\* Mutant: a route without a share is taken for one whose share was requested.
Mutant_CanMoveShare(table, id, next) == id \in IdsOf(table)

\* ActivateLANShare, SuspendLANShare and SetLANShareState all accept a share
\* that already is in the state asked for.
CanMoveShare(table, id, next) ==
    \E r \in table :
        /\ r.id = id
        /\ r.share = next \/ ValidShareTransition(r.share, next)

ShareMoved(table, id, next) ==
    {IF r.id = id THEN [r EXCEPT !.share = next] ELSE r : r \in table}

=============================================================================
