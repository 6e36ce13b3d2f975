---------------------------- MODULE RunLifecycle ----------------------------
(***************************************************************************)
(* Runs of gohere and the routes they keep in the router, from the         *)
(* reservation to the cleanup: runPlannedSingle of internal/app/planned.go *)
(* (a run of one service), runPlannedGroup of group.go (a run of several)  *)
(* and registerDetectedRouteLifecycle of detected.go (a run that learns    *)
(* its port from its server and reserves afterwards), with gohere prune    *)
(* and gohere stop beside them.                                            *)
(*                                                                         *)
(* A run talks to the router over HTTP.  It waits for one answer at a time *)
(* and may stop waiting, because the answer takes too long or the run is   *)
(* interrupted: the request is then late, and the router serves it at any  *)
(* later time or never.  A request is served and answered in one step; an  *)
(* answer that gets lost is a request that the run stopped waiting for.    *)
(*                                                                         *)
(* One unit of time is routeLeaseInterval.  Each unit a run renews each of *)
(* its leases once, or misses to: the router is away, or the machine of    *)
(* the run was asleep.                                                     *)
(***************************************************************************)
EXTENDS RouteTable, FiniteSets

CONSTANTS
    Services,   \* [Runs -> Seq(Candidate)]: what a run asks for
    Detected,   \* the runs whose server is up before they reserve
    MaxId,      \* bound: identities handed out
    MaxMissed,  \* bound: renewals of a lease missed in a row
    MaxLate,    \* bound: requests that are late at once
    MaxStopped, \* bound: routes removed by gohere stop
    MaxRuns     \* bound: runs that start

ASSUME ServicesAssumption ==
    /\ Services \in [Runs -> Seq(Candidate)]
    /\ \A r \in Runs : Services[r] # <<>>
    /\ \A r \in Runs : \A i \in DOMAIN Services[r] : Services[r][i].reuse = NoId

ASSUME DetectedAssumption ==
    /\ Detected \subseteq Runs
    /\ \A r \in Detected : Len(Services[r]) = 1

ASSUME BoundsAssumption ==
    /\ MaxId \in Nat /\ MaxMissed \in Nat
    /\ MaxLate \in Nat /\ MaxStopped \in Nat /\ MaxRuns \in Nat

VARIABLES
    routes,    \* the stored routes
    nextId,    \* identities below this one have been handed out
    pc,        \* [Runs -> where a run is]
    refs,      \* [Runs -> the routes it has not seen removed]
    ready,     \* [Runs -> the services whose server has answered]
    todo,      \* [Runs -> the routes it has yet to renew, or to delete]
    missed,    \* [1 .. MaxId -> renewals missed since the last one]
    late,      \* requests that nobody waits for any more
    seen,      \* the routes that a gohere prune found to be removable
    stopped    \* the routes that a gohere stop removed

Store == INSTANCE RouteStore WITH Batches <- {Services[r] : r \in Runs}

vars == <<routes, nextId, pc, refs, ready, todo, missed, late, seen, stopped>>
storeVars == <<routes, nextId>>
runVars == <<pc, refs, ready, todo, missed>>
otherVars == <<seen, stopped>>

\* A lease is held, and renewed, from the activation to the cleanup.
Leased == {"sharing", "running"}
Ended == {"done", "dead"}
Steps == {"start", "reserving", "starting", "activating", "releasing", "deleting"}
            \cup Leased \cup Ended

Goto(r, step) == pc' = [pc EXCEPT ![r] = step]

Init ==
    /\ Store!Init
    /\ pc = [r \in Runs |-> "start"]
    /\ refs = [r \in Runs |-> {}]
    /\ ready = [r \in Runs |-> {}]
    /\ todo = [r \in Runs |-> {}]
    /\ missed = [id \in 1 .. MaxId |-> 0]
    /\ late = {}
    /\ seen = {}
    /\ stopped = {}

-----------------------------------------------------------------------------
(* Requests *)

Request(op, r, ids) == [op |-> op, run |-> r, refs |-> ids]

Each(op, r, ids) == {Request(op, r, {id}) : id \in ids}

\* What a run may be waiting for.  Refs are renewed and deleted one by one.
Asked(r) ==
    CASE pc[r] = "reserving"  -> {Request("reserve", r, {})}
      [] pc[r] = "activating" -> {Request("activate", r, refs[r])}
      [] pc[r] \in Leased     -> Each("renew", r, todo[r])
      [] pc[r] = "releasing"  -> {Request("release", r, refs[r])}
      [] pc[r] = "deleting"   -> Each("delete", r, todo[r])
      [] OTHER                -> {}

\* The run stops waiting: what it asked for is late, or was never sent.
Abandon(requests) ==
    \/ UNCHANGED late
    \/ \E q \in requests : late' = late \cup {q} /\ Cardinality(late') <= MaxLate

Gone(id) == id \notin IdsOf(Store!Stored) /\ UNCHANGED storeVars

-----------------------------------------------------------------------------
(* Startup *)

Start(r) ==
    /\ Cardinality({s \in Runs : pc[s] # "start"}) < MaxRuns
    /\ pc[r] = "start"
    /\ Goto(r, IF r \in Detected THEN "starting" ELSE "reserving")
    /\ UNCHANGED <<storeVars, refs, ready, todo, missed, late, otherVars>>

Reserve(r) ==
    /\ pc[r] = "reserving"
    /\ Store!Reserve(r, Services[r])
    /\ refs' = [refs EXCEPT ![r] = IdsOf(OfRun(routes', r))]
    /\ Goto(r, IF r \in Detected THEN "activating" ELSE "starting")
    /\ UNCHANGED <<ready, todo, missed, late, otherVars>>

\* runner.WaitReady of one service.
ServiceReady(r, i) ==
    /\ pc[r] = "starting"
    /\ ready' = [ready EXCEPT ![r] = @ \cup {i}]
    /\ UNCHANGED <<storeVars, pc, refs, todo, missed, late, otherVars>>

\* Mutant: the group goes on once one of its services is up.
Mutant_AllReady(r) ==
    /\ pc[r] = "starting"
    /\ ready[r] # {}
    /\ Goto(r, IF r \in Detected THEN "reserving" ELSE "activating")
    /\ UNCHANGED <<storeVars, refs, ready, todo, missed, late, otherVars>>

\* Every service is up and, in a planned run, the router reaches it.
AllReady(r) ==
    /\ pc[r] = "starting"
    /\ ready[r] = DOMAIN Services[r]
    /\ Goto(r, IF r \in Detected THEN "reserving" ELSE "activating")
    /\ UNCHANGED <<storeVars, refs, ready, todo, missed, late, otherVars>>

\* Mutant: whichever routes of the run are stored are activated, expired or not.
Mutant_Activate(r) ==
    /\ pc[r] = "activating"
    /\ OfRun(Store!Stored, r) # {}
    /\ Store!Update(Activated(Store!Stored, refs[r]), 0)
    /\ Goto(r, "sharing")
    /\ UNCHANGED <<refs, ready, todo, missed, late, otherVars>>

Activate(r) ==
    /\ pc[r] = "activating"
    /\ Store!Activate(r, refs[r])
    /\ Goto(r, "sharing")
    /\ UNCHANGED <<refs, ready, todo, missed, late, otherVars>>

\* createLANShare and announceResolvedService have succeeded.
Announce(r) ==
    /\ pc[r] = "sharing"
    /\ Goto(r, "running")
    /\ UNCHANGED <<storeVars, refs, ready, todo, missed, late, otherVars>>

-----------------------------------------------------------------------------
(* Renewal: startReservationLease *)

Renew(r, id) ==
    /\ pc[r] \in Leased
    /\ id \in todo[r]
    /\ Store!Renew(r, {id})
    /\ todo' = [todo EXCEPT ![r] = @ \ {id}]
    /\ missed' = [missed EXCEPT ![id] = 0]
    /\ UNCHANGED <<pc, refs, ready, late, otherVars>>

\* A conflict is taken for success.
RenewConflicts(r, id) ==
    /\ pc[r] \in Leased
    /\ id \in todo[r]
    /\ ~CanRenew(Store!Stored, r, {id})
    /\ todo' = [todo EXCEPT ![r] = @ \ {id}]
    /\ UNCHANGED <<storeVars, pc, refs, ready, missed, late, otherVars>>

MissRenewal(r, id) ==
    /\ pc[r] \in Leased
    /\ id \in todo[r]
    /\ missed[id] < MaxMissed
    /\ todo' = [todo EXCEPT ![r] = @ \ {id}]
    /\ missed' = [missed EXCEPT ![id] = @ + 1]
    /\ Abandon({Request("renew", r, {id})})
    /\ UNCHANGED <<storeVars, pc, refs, ready, otherVars>>

-----------------------------------------------------------------------------
(* Failure, interruption and cleanup *)

\* What is left to delete when the cleanup begins.
CleanUp(r, step) ==
    /\ Goto(r, step)
    /\ todo' = [todo EXCEPT ![r] = IF step = "deleting" THEN refs[r] ELSE {}]

\* Where a failure leads: nothing was reserved yet, or the reservation is
\* released, or the active routes are deleted.
AfterFailure(r) ==
    CASE pc[r] = "reserving" -> "done"
      [] pc[r] = "starting"  -> IF r \in Detected THEN "done" ELSE "releasing"
      [] pc[r] = "activating" -> "releasing"
      [] pc[r] \in Leased -> "deleting"

\* The same for a run that is interrupted.  Before it runs, a detected run
\* cleans up with the context that was just cancelled, which sends nothing.
AfterInterrupt(r) ==
    IF r \in Detected /\ pc[r] # "running" THEN "done" ELSE AfterFailure(r)

\* A reservation that nobody waits for makes routes with unknown names.
Unknown(r) ==
    IF pc[r] = "reserving" THEN [refs EXCEPT ![r] = {NoId}] ELSE refs

\* The router refuses or the store fails, a server exits or does not answer,
\* the share or the announcement fails, a running server exits.
Fail(r) ==
    /\ pc[r] \in {"reserving", "starting", "activating"} \cup Leased
    /\ CleanUp(r, AfterFailure(r))
    /\ IF pc[r] \in Leased THEN Abandon(Asked(r)) ELSE UNCHANGED late
    /\ UNCHANGED <<storeVars, refs, ready, missed, otherVars>>

\* The router did not answer in time.
TimeOut(r) ==
    /\ pc[r] \in {"reserving", "activating"}
    /\ CleanUp(r, AfterFailure(r))
    /\ refs' = Unknown(r)
    /\ Abandon(Asked(r))
    /\ UNCHANGED <<storeVars, ready, missed, otherVars>>

Interrupt(r) ==
    /\ pc[r] \in {"reserving", "starting", "activating"} \cup Leased
    /\ CleanUp(r, AfterInterrupt(r))
    /\ refs' = Unknown(r)
    /\ Abandon(Asked(r))
    /\ UNCHANGED <<storeVars, ready, missed, otherVars>>

\* Mutant: an error of the release is taken for success.
Mutant_Release(r) ==
    /\ pc[r] = "releasing"
    /\ \/ Store!Release(r, refs[r])
       \/ ~CanRelease(Store!Stored, r, refs[r]) /\ UNCHANGED storeVars
    /\ refs' = [refs EXCEPT ![r] = {}]
    /\ Goto(r, "done")
    /\ UNCHANGED <<ready, todo, missed, late, otherVars>>

Release(r) ==
    /\ pc[r] = "releasing"
    /\ \/ Store!Release(r, refs[r]) /\ refs' = [refs EXCEPT ![r] = {}]
       \/ ~CanRelease(Store!Stored, r, refs[r]) /\ UNCHANGED <<storeVars, refs>>
    /\ Goto(r, "done")
    /\ UNCHANGED <<ready, todo, missed, late, otherVars>>

\* A route that is gone already counts as deleted.
Delete(r, id) ==
    /\ pc[r] = "deleting"
    /\ id \in todo[r]
    /\ Store!DeleteRouteRef(id) \/ Gone(id)
    /\ refs' = [refs EXCEPT ![r] = @ \ {id}]
    /\ todo' = [todo EXCEPT ![r] = @ \ {id}]
    /\ UNCHANGED <<pc, ready, missed, late, otherVars>>

\* The cleanup has two seconds, after which it goes on without the router.
GiveUpRelease(r) ==
    /\ pc[r] = "releasing"
    /\ Abandon(Asked(r))
    /\ Goto(r, "done")
    /\ UNCHANGED <<storeVars, refs, ready, todo, missed, otherVars>>

GiveUpDelete(r, id) ==
    /\ pc[r] = "deleting"
    /\ id \in todo[r]
    /\ Abandon({Request("delete", r, {id})})
    /\ todo' = [todo EXCEPT ![r] = @ \ {id}]
    /\ UNCHANGED <<storeVars, pc, refs, ready, missed, otherVars>>

Finish(r) ==
    /\ pc[r] = "deleting"
    /\ todo[r] = {}
    /\ Goto(r, "done")
    /\ UNCHANGED <<storeVars, refs, ready, todo, missed, late, otherVars>>

Crash(r) ==
    /\ pc[r] \notin Ended
    /\ CleanUp(r, "dead")
    /\ Abandon(Asked(r))
    /\ UNCHANGED <<storeVars, refs, ready, missed, otherVars>>

-----------------------------------------------------------------------------
(* The router serves a late request, refuses it, or never sees it *)

Served(q) ==
    \/ q.op = "reserve"  /\ Store!Reserve(q.run, Services[q.run])
    \/ q.op = "activate" /\ Store!Activate(q.run, q.refs)
    \/ q.op = "renew"    /\ Store!Renew(q.run, q.refs)
    \/ q.op = "release"  /\ Store!Release(q.run, q.refs)
    \/ q.op = "delete"   /\ \E id \in q.refs : Store!DeleteRouteRef(id)

ServeLate(q) ==
    /\ late' = late \ {q}
    /\ Served(q) \/ UNCHANGED storeVars
    /\ UNCHANGED <<runVars, otherVars>>

-----------------------------------------------------------------------------
(* gohere prune and gohere stop *)

\* Nothing answers at the target: of a run that has servers, something does.
\* A planned route has no process ID to look at, and a pending one is starting
\* whatever its target.
MayBeDead(route) ==
    route.state = "active" /\ pc[route.run] \notin Leased

\* Mutant: one unit of the lease is not waited for.
Mutant_Prunable(route) ==
    \/ route.ttl \in {0, 1}
    \/ route.wsl = Native /\ MayBeDead(route)

\* The routes that a prune may remove; a WSL route only once it has expired.
Prunable(route) ==
    \/ Expired(route)
    \/ route.wsl = Native /\ MayBeDead(route)

\* gohere prune reads the table, and decides,
LookAround ==
    /\ seen = {}
    /\ \E found \in SUBSET {route \in routes : Prunable(route)} :
          /\ {route \in routes : Expired(route)} \subseteq found
          /\ seen' = IdsOf(found)
    /\ UNCHANGED <<storeVars, runVars, late, stopped>>

\* and removes what it found: one by one through the router,
PruneOne(id) ==
    /\ id \in seen
    /\ Store!DeleteRouteRef(id) \/ Gone(id)
    /\ seen' = seen \ {id}
    /\ UNCHANGED <<runVars, late, stopped>>

\* or at once where there is no router to ask.
PruneAll ==
    /\ seen # {}
    /\ Store!RemoveRefs(seen)
    /\ seen' = {}
    /\ UNCHANGED <<runVars, late, stopped>>

\* gohere stop removes a route and leaves a planned run alone.
Stop(id) ==
    /\ Cardinality(stopped) < MaxStopped
    /\ Store!DeleteRouteRef(id)
    /\ stopped' = stopped \cup {id}
    /\ UNCHANGED <<runVars, late, seen>>

-----------------------------------------------------------------------------

\* Each unit of time, every lease has been renewed or has not.
Tick ==
    /\ \A r \in Runs : pc[r] \in Leased => todo[r] = {}
    /\ Store!Tick
    /\ todo' = [r \in Runs |-> IF pc[r] \in Leased THEN refs[r] ELSE todo[r]]
    /\ UNCHANGED <<pc, refs, ready, missed, late, otherVars>>

Renewal(r) ==
    \E id \in todo[r] : Renew(r, id) \/ RenewConflicts(r, id) \/ MissRenewal(r, id)

Cleaning(r) ==
    \/ Release(r) \/ GiveUpRelease(r)
    \/ \E id \in todo[r] : Delete(r, id) \/ GiveUpDelete(r, id)
    \/ Finish(r)

RunStep(r) ==
    \/ Start(r) \/ Reserve(r) \/ AllReady(r) \/ Activate(r) \/ Announce(r)
    \/ \E i \in DOMAIN Services[r] : ServiceReady(r, i)
    \/ Renewal(r) \/ Cleaning(r)
    \/ Fail(r) \/ TimeOut(r) \/ Interrupt(r) \/ Crash(r)

Next ==
    \/ \E r \in Runs : RunStep(r)
    \/ \E q \in late : ServeLate(q)
    \/ LookAround \/ PruneAll
    \/ \E id \in seen : PruneOne(id)
    \/ \E id \in IdsOf(routes) : Stop(id)
    \/ Tick

Spec == Init /\ [][Next]_vars

\* Time passes, and a live run renews its leases each unit, or misses to.
FairSpec == Spec /\ WF_vars(Tick) /\ \A r \in Runs : WF_vars(Renewal(r))

-----------------------------------------------------------------------------
(* What runs and router achieve together *)

TypeOK ==
    /\ Store!TypeOK
    /\ pc \in [Runs -> Steps]
    /\ refs \in [Runs -> SUBSET (0 .. MaxId)]
    /\ ready \in [Runs -> SUBSET Nat]
    /\ todo \in [Runs -> SUBSET (1 .. MaxId)]
    /\ missed \in [1 .. MaxId -> 0 .. MaxMissed]
    /\ \A q \in late : q.run \in Runs /\ q.refs \subseteq 1 .. MaxId
    /\ seen \cup stopped \subseteq 1 .. MaxId

\* The services of a run appear together: while one of its routes is active,
\* and so leads visitors to its server, every server of the run has come up and
\* no other route of the run is still pending, although requests that timed out
\* may be served long after the run has moved on.
GroupTogether ==
    \A route \in routes : route.state = "active" =>
        /\ ready[route.run] = DOMAIN Services[route.run]
        /\ \A other \in OfRun(routes, route.run) : other.state = "active"

\* A run keeps every route it announced until it cleans up, as long as it never
\* misses more than MaxMissed renewals in a row and nobody stops it: neither
\* the reservations of other runs nor a prune that decided on an older copy of
\* the table takes a route away, and the router does not take the run for dead.
LiveRunKeepsRoutes ==
    /\ TypeOK
    /\ \A r \in Runs : pc[r] \in Leased =>
        \A id \in refs[r] \ stopped :
            \E route \in routes :
                /\ route.id = id /\ route.run = r
                /\ route.state = "active" /\ ~Expired(route)

\* A run that ended having seen all its routes removed leaves none behind: no
\* late activation or renewal brings one back.
CleanExit ==
    \A r \in Runs : (pc[r] = "done" /\ refs[r] = {}) => OfRun(routes, r) = {}

\* What a run leaves behind when its cleanup fails, when it is interrupted
\* before it can clean up, or when it crashes expires in the end and stays so.
LeftoversExpire ==
    \A r \in Runs :
        [](pc[r] \in Ended => <>[](\A route \in OfRun(routes, r) : Expired(route)))

\* Whatever runs, prune and stop go through, they do to the stored routes what
\* RouteStore allows and nothing else: activation in one piece, release of a
\* whole run, no step between two of them.
UsesStore == Store!Spec

\* gohere prune removes a route only if it is dead or expired: README.md:205.
PruneSpares ==
    [][\A route \in routes :
          (route.id \in seen \ seen') => Expired(route) \/ MayBeDead(route)]_vars

=============================================================================
