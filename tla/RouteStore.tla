----------------------------- MODULE RouteStore -----------------------------
(***************************************************************************)
(* The router's route store as its clients see it: one table, and one      *)
(* atomic step for every call that updates it.  The calls come from the    *)
(* admin API (reserve, activate, renew, release and delete of              *)
(* reservation_http.go, POST and DELETE of the legacy routes in            *)
(* router.go), from the LAN manager (share transitions), and from gohere   *)
(* commands that open the same file (lifecycle.Prune, lifecycle.StopCWDs,  *)
(* stopStoreRoutes).  UpdateStore serialises them: FileStore shows why the *)
(* steps may be taken as atomic.                                           *)
(*                                                                         *)
(* Nothing is assumed of the clients: a run may activate routes that it    *)
(* does not have, renew after it released, and so on.                      *)
(***************************************************************************)
EXTENDS RouteTable

CONSTANTS
    Batches,   \* reservation requests that a run may send
    MaxId      \* bound: identities handed out

ASSUME BatchesAssumption == Batches \subseteq Seq(Candidate) /\ <<>> \notin Batches

ASSUME MaxIdAssumption == MaxId \in Nat

VARIABLES
    routes,   \* the stored routes
    nextId    \* identities below this one have been handed out

vars == <<routes, nextId>>

\* The table that an update function is called with.
Stored == WithIdentities(routes, nextId)

Unidentified == {r \in routes : r.id = NoId}

\* The first identity that WithIdentities leaves unused.
NextFresh == IF Unidentified = {} THEN nextId ELSE nextId + 1

\* UpdateStore saves what the update function returns; used more identities
\* are spent by the function itself.
Update(table, used) ==
    /\ routes' = table
    /\ nextId' = NextFresh + used
    /\ nextId' <= MaxId

Init ==
    /\ routes = {}
    /\ nextId = 1

-----------------------------------------------------------------------------
(* The reservation API *)

\* Entry i of the batch is named NextFresh + i - 1.
Reserve(run, batch) ==
    LET base == Unexpired(Stored)
    IN  /\ CanReserve(base, batch)
        /\ \E given \in Assignments(base, batch) :
              Update(Reserved(base, run, batch, given, NextFresh - 1), Len(batch))

Activate(run, refs) ==
    /\ CanActivate(Stored, run, refs)
    /\ Update(Activated(Stored, refs), 0)

Release(run, refs) ==
    /\ CanRelease(Stored, run, refs)
    /\ Update(Without(Stored, refs), 0)

Renew(run, refs) ==
    /\ CanRenew(Stored, run, refs)
    /\ Update(Renewed(Stored, refs), 0)

DeleteRouteRef(id) ==
    /\ id \in IdsOf(Stored)
    /\ Update(Without(Stored, {id}), 0)

\* lifecycle.PruneWithRouterReady, lifecycle.StopCWDs and stopStoreRoutes
\* choose refs from an earlier copy of the table: any refs may have been chosen.
RemoveRefs(refs) ==
    Update(Without(Stored, refs), 0)

-----------------------------------------------------------------------------
(* The legacy API *)

UpsertRoute(new) ==
    /\ CanUpsert(Stored, new)
    /\ Update(Upserted(Stored, new), 0)

DeleteRoute(host) ==
    Update({r \in Stored : r.host # host}, 0)

-----------------------------------------------------------------------------
(* LAN shares *)

RequestLANShare(id) ==
    /\ CanRequestShare(Stored, id)
    /\ Update(ShareRequested(Stored, id), 0)

\* ActivateLANShare, and SuspendLANShare or SetLANShareState.
MoveLANShare(id, next) ==
    /\ CanMoveShare(Stored, id, next)
    /\ Update(ShareMoved(Stored, id, next), 0)

RemoveLANShare(id) ==
    /\ id \in IdsOf(Stored)
    /\ Update(ShareMoved(Stored, id, "none"), 0)

-----------------------------------------------------------------------------

\* A router that starts gives an identity to whatever it finds in the store.
StartRouter == Update(Stored, 0)

Tick ==
    /\ routes' = {Aged(r) : r \in routes}
    /\ UNCHANGED nextId

Refs == SUBSET (1 .. (nextId - 1))

RunStep ==
    \E run \in Runs :
        \/ \E batch \in Batches : Reserve(run, batch)
        \/ \E refs \in Refs : Activate(run, refs) \/ Release(run, refs) \/ Renew(run, refs)

LegacyStep ==
    \/ \E runner \in Runs, host \in Hosts, owner \in Owners,
          wsl \in WSLOwners \cup {Native}, target \in Targets, scheme \in Schemes :
          UpsertRoute(LegacyRoute(runner, host, owner, wsl, target, scheme))
    \/ \E host \in Hosts : DeleteRoute(host)

ShareStep ==
    \E id \in 1 .. (nextId - 1) :
        \/ RequestLANShare(id)
        \/ \E next \in {"active", "suspended"} : MoveLANShare(id, next)
        \/ RemoveLANShare(id)

Next ==
    \/ RunStep
    \/ \E id \in 1 .. (nextId - 1) : DeleteRouteRef(id)
    \/ \E refs \in Refs : RemoveRefs(refs)
    \/ LegacyStep
    \/ ShareStep
    \/ StartRouter
    \/ Tick

Spec == Init /\ [][Next]_vars

-----------------------------------------------------------------------------
(* What the store promises *)

\* Every stored route is well formed and its identity has been handed out.
TypeOK ==
    /\ routes \subseteq Route
    /\ nextId \in Nat \ {0}
    /\ \A r \in routes : r.id < nextId

\* Two routes never answer for one host, whatever mix of reservations and
\* legacy posts stored them: the router looks a route up by host and serves the
\* first it finds (routeForHost).
HostsUnique == \A r, s \in routes : r.host = s.host => r = s

\* An identity names one route, and at most one route has none, although the
\* legacy API stores routes without: refs never match a route by accident.
IdsUnique == \A r, s \in routes : r.id = s.id => r = s

\* Two reserved routes never lead to one upstream, across runs and within a
\* batch: occupiedTargets of ReserveRoutes.
TargetsUnique ==
    \A r, s \in routes :
        (r.run # NoRun /\ s.run # NoRun /\ r.target = s.target) => r = s

\* All reserved WSL routes belong to one distribution and user: README.md:272,
\* enforced batch by batch by enforceSingleWSLOwner.
OneWSLOwner ==
    \A r, s \in routes :
        (/\ r.run # NoRun /\ s.run # NoRun
         /\ r.wsl # Native /\ s.wsl # Native) => r.wsl = s.wsl

\* Together: routes are well formed and told apart by host and by identity, and
\* neither two of them nor two distributions get into each other's way.
SafetyInv == TypeOK /\ HostsUnique /\ IdsUnique /\ TargetsUnique /\ OneWSLOwner

\* A host changes owner, and a WSL host changes runner, only once the route
\* that held it has expired: neither a reservation nor a legacy post takes over
\* a host that is still held.
HandsOver(r, s) ==
    (r.host = s.host /\ (r.owner # s.owner \/ (r.wsl # Native /\ r.runner # s.runner)))
        => Expired(r)

HostsHandedOver == [][\A r \in routes, s \in routes' : HandsOver(r, s)]_vars

\* A run goes from pending to active as a whole and in time: a step that
\* activates one of its routes leaves none of them pending and activates no
\* route whose reservation ran out (ActivateRoutes, completeRunIndexes).
ActivatesWhole(run) ==
    LET becomesActive(r) ==
            r.state = "pending" /\ \E s \in routes' : s.id = r.id /\ s.state = "active"
    IN  (\E r \in OfRun(routes, run) : becomesActive(r))
            => /\ \A r \in OfRun(routes, run) : ~Expired(r) \/ r.state = "active"
               /\ \A s \in OfRun(routes', run) : s.state = "active"

ActivationWhole == [][\A run \in Runs : ActivatesWhole(run)]_vars

SameRoute(r, s) ==
    r.host = s.host /\ r.run = s.run /\ r.runner = s.runner /\ r.target = s.target

\* A route that a step adds pushes nothing out but what has expired and, when a
\* legacy post adds it, the route of its host: a run that is still renewing
\* does not lose its route because another run reserves one.
AdditionsSpare ==
    [][\A s \in routes' : (\A r \in routes : ~SameRoute(r, s)) =>
          \A r \in routes :
              \/ Expired(r)
              \/ r.host = s.host /\ s.run = NoRun
              \/ \E q \in routes' : SameRoute(r, q)]_vars

\* A share that was removed does not come back unless it is asked for again: an
\* activation or suspension that was under way when the share was removed
\* finds no share and fails.
ShareNotRevived ==
    [][\A r \in routes, s \in routes' :
          (r.id = s.id /\ r.share = "none") => s.share \in {"none", "requested"}]_vars

=============================================================================
