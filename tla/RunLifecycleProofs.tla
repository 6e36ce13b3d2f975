------------------------- MODULE RunLifecycleProofs -------------------------
(***************************************************************************)
(* Runs, prune and stop do to the stored routes nothing but what           *)
(* RouteStore allows, so that every theorem of RouteStoreProofs holds of   *)
(* the routes of RunLifecycle; and the routes of a run become active       *)
(* together, whenever the router gets to serve its requests.               *)
(*                                                                         *)
(* A step is two things: an operation on the table and a change of what    *)
(* runs and router know of each other.  The operations fall into three     *)
(* classes (Keeps, Adds, Activates), one lemma each; a later part pairs    *)
(* them with the actions.  The last part is about leases: a live run keeps *)
(* its routes, and one that ended cleanly has left none.                   *)
(***************************************************************************)
EXTENDS RunLifecycle, TLAPS

SP == INSTANCE RouteStoreProofs WITH Batches <- {Services[r] : r \in Runs}

\* What RouteStore assumes of its constants is true of those it is given here.
LEMMA StoreAssumptions ==
  /\ SP!BatchesAssumption /\ SP!MaxIdAssumption
  /\ SP!SentinelAssumption /\ SP!TTLAssumption /\ SP!VariantsAssumption
  BY ServicesAssumption, BoundsAssumption, SentinelAssumption, TTLAssumption,
     VariantsAssumption
  DEF SP!BatchesAssumption, SP!MaxIdAssumption, SP!SentinelAssumption,
      SP!TTLAssumption, SP!VariantsAssumption, SP!Candidate, Candidate

\* Store and SP are one specification: all their definitions are the same.
LEMMA SameStore ==
  /\ Store!Init <=> SP!Init
  /\ [Store!Next]_(Store!vars) <=> [SP!Next]_(SP!vars)
  BY DEF Store!Init, SP!Init,
         Store!Next, Store!RunStep, Store!LegacyStep, Store!ShareStep,
         Store!StartRouter, Store!Tick, Store!Refs, Store!vars,
         Store!Reserve, Store!Activate, Store!Release, Store!Renew,
         Store!DeleteRouteRef, Store!RemoveRefs, Store!UpsertRoute,
         Store!DeleteRoute, Store!RequestLANShare, Store!MoveLANShare,
         Store!RemoveLANShare, Store!Update, Store!Stored,
         Store!NextFresh, Store!Unidentified, Store!WithIdentities,
         Store!Unexpired, Store!Expired, Store!Aged, Store!CanReserve,
         Store!SingleWSLOwner, Store!ReuseMatches, Store!SchemesAgree,
         Store!NewEntries, Store!TargetsFree, Store!Assignments,
         Store!IsAssignment, Store!Resolves, Store!HostsOf,
         Store!PendingRoute, Store!ShareReused, Store!Reserved,
         Store!OfRun, Store!Named, Store!IdsOf, Store!CanActivate,
         Store!Activated, Store!CanRelease, Store!CanRenew, Store!Renewed,
         Store!Without, Store!SameRouteOwner, Store!CanUpsert,
         Store!LegacyRoute, Store!Upserted, Store!ValidShareTransition,
         Store!CanRequestShare, Store!ShareRequested, Store!CanMoveShare,
         Store!ShareMoved, Store!NoId, Store!NoExpiry,
         SP!Next, SP!RunStep, SP!LegacyStep, SP!ShareStep, SP!StartRouter,
         SP!Tick, SP!Refs, SP!vars, SP!Reserve, SP!Activate, SP!Release,
         SP!Renew, SP!DeleteRouteRef, SP!RemoveRefs, SP!UpsertRoute,
         SP!DeleteRoute, SP!RequestLANShare, SP!MoveLANShare,
         SP!RemoveLANShare, SP!Update, SP!Stored, SP!NextFresh,
         SP!Unidentified, SP!WithIdentities, SP!Unexpired, SP!Expired,
         SP!Aged, SP!CanReserve, SP!SingleWSLOwner, SP!ReuseMatches,
         SP!SchemesAgree, SP!NewEntries, SP!TargetsFree, SP!Assignments,
         SP!IsAssignment, SP!Resolves, SP!HostsOf, SP!PendingRoute,
         SP!ShareReused, SP!Reserved, SP!OfRun, SP!Named, SP!IdsOf,
         SP!CanActivate, SP!Activated, SP!CanRelease, SP!CanRenew,
         SP!Renewed, SP!Without, SP!SameRouteOwner, SP!CanUpsert,
         SP!LegacyRoute, SP!Upserted, SP!ValidShareTransition,
         SP!CanRequestShare, SP!ShareRequested, SP!CanMoveShare,
         SP!ShareMoved, SP!NoId, SP!NoExpiry

-----------------------------------------------------------------------------
(* The table *)

\* No legacy API here: every stored route has an identity and a run.
Tabled(table, next) ==
    /\ SP!WellFormed(table, next)
    /\ \A route \in table : route.id # NoId /\ route.run \in Runs

TableInv == Tabled(routes, nextId)

Alike(s, t) == s.id = t.id /\ s.run = t.run /\ s.state = t.state

(* What an operation may do to the routes. *)
Keeps == \A s \in routes' : \E t \in routes : Alike(s, t)

Adds(r) ==
    \A s \in routes' :
        \/ \E t \in routes : Alike(s, t)
        \/ s.id # NoId /\ s.run = r /\ s.state = "pending"

Activates(r) ==
    \A s \in routes' : \E t \in routes :
        /\ s.id = t.id /\ s.run = t.run
        /\ IF t.run = r THEN s.state = "active" ELSE s.state = t.state

\* The router never has to name a route.
LEMMA StoredIsRoutes ==
  ASSUME TableInv
  PROVE  /\ Store!Stored = routes
         /\ Store!NextFresh = nextId
         /\ routes \subseteq Route
         /\ nextId \in Nat \ {0}
         /\ IdsOf(routes) \subseteq 1 .. (nextId - 1)
         /\ \A s, t \in routes : s.id = t.id => s = t
<1>1. /\ routes \subseteq Route /\ nextId \in Nat \ {0}
      /\ \A r \in routes : r.id \in Nat /\ r.id < nextId /\ r.id # NoId
      /\ \A s, t \in routes : s.id = t.id => s = t
  BY DEF TableInv, Tabled, SP!WellFormed, SP!Route, Route, SP!States, States,
         SP!ShareStates, ShareStates, SP!NoExpiry, NoExpiry
<1>2. \A r \in routes : [r EXCEPT !.id = IF @ = Store!NoId THEN nextId ELSE @] = r
  BY <1>1 DEF Route, NoId, Store!NoId
<1>3. Store!Stored = routes
  BY <1>2 DEF Store!Stored, Store!WithIdentities
<1>4. Store!NextFresh = nextId
  BY <1>1 DEF Store!NextFresh, Store!Unidentified, Store!NoId, NoId
<1>. QED  BY <1>1, <1>3, <1>4 DEF IdsOf, NoId

\* Whatever the store does, nothing but what it names is left without a name.
LEMMA TableKept ==
  ASSUME TableInv, [Store!Next]_(Store!vars),
         \A s \in routes' : s.id # NoId /\ s.run \in Runs
  PROVE  TableInv'
<1>1. SP!WellFormed(routes', nextId')
  BY SP!NextWellFormed, SameStore, StoreAssumptions DEF TableInv, Tabled
<1>. QED  BY <1>1 DEF TableInv, Tabled

\* What a reservation does.
LEMMA Reserving ==
  ASSUME TableInv, NEW r \in Runs, Store!Reserve(r, Services[r])
  PROVE  Store!Next /\ nextId' \in Nat /\ nextId <= nextId' /\ Adds(r)
<1>1. Services[r] \in {Services[x] : x \in Runs}
  OBVIOUS
<1>2. Store!Next
  BY <1>1 DEF Store!Next, Store!RunStep
<1>3. Len(Services[r]) \in Nat /\ DOMAIN Services[r] = 1 .. Len(Services[r])
  BY ServicesAssumption
<1> DEFINE base == Store!Unexpired(Store!Stored)
           batch == Services[r]
<1>4. PICK given : Store!Update(Store!Reserved(base, r, batch, given, Store!NextFresh - 1), Len(batch))
  BY DEF Store!Reserve
<1>5. nextId' \in Nat /\ nextId <= nextId'
  BY <1>3, <1>4, StoredIsRoutes DEF Store!Update
<1>6. \A s \in Store!ShareReused(base, batch) : \E t \in routes : Alike(s, t)
  BY StoredIsRoutes DEF Store!ShareReused, Store!Unexpired, Alike, Route
<1>7. \A i \in Store!NewEntries(batch) :
        LET s == Store!PendingRoute(r, batch[i], given[i], Store!NextFresh - 1 + i)
        IN  s.id # NoId /\ s.run = r /\ s.state = "pending"
  BY <1>3, StoredIsRoutes DEF Store!PendingRoute, Store!NewEntries, NoId
<1>8. Adds(r)
  BY <1>4, <1>6, <1>7 DEF Store!Update, Store!Reserved, Adds
<1>. QED  BY <1>2, <1>5, <1>8

\* What an activation does: the routes it names are all that the run has pending.
LEMMA Activating ==
  ASSUME TableInv, NEW r \in Runs, NEW ids, Store!Activate(r, ids)
  PROVE  Store!Next /\ nextId' = nextId /\ Activates(r)
<1>1. /\ ids = IdsOf({t \in OfRun(routes, r) : t.state = "pending"})
      /\ routes' = Store!Activated(routes, ids)
      /\ nextId' = nextId
  BY StoredIsRoutes DEF Store!Activate, Store!CanActivate, Store!Update,
     Store!IdsOf, Store!OfRun, IdsOf, OfRun
<1>2. ids \in Store!Refs
  BY <1>1, StoredIsRoutes DEF Store!Refs, IdsOf, OfRun
<1>3. Store!Next
  BY <1>2 DEF Store!Next, Store!RunStep
<1>4. ASSUME NEW t \in routes
      PROVE  LET s == IF t.id \in ids
                      THEN [t EXCEPT !.state = "active", !.ttl = LeaseTTL] ELSE t
             IN  /\ s.id = t.id /\ s.run = t.run
                 /\ IF t.run = r THEN s.state = "active" ELSE s.state = t.state
  <2>1. t \in Route
    BY StoredIsRoutes
  <2>2. t.run = r /\ t.state = "pending" => t.id \in ids
    BY <1>1 DEF IdsOf, OfRun
  <2>3. t.id \in ids => t.run = r
    BY <1>1, StoredIsRoutes DEF IdsOf, OfRun
  <2>4. t.state \in {"pending", "active"}
    BY <2>1 DEF Route, States
  <2>5. CASE t.id \in ids
    BY <2>1, <2>3, <2>5 DEF Route
  <2>6. CASE t.id \notin ids
    BY <2>2, <2>4, <2>6
  <2>. QED  BY <2>5, <2>6
<1>5. Activates(r)
  BY <1>1, <1>4 DEF Store!Activated, Activates
<1>. QED  BY <1>1, <1>3, <1>5

\* What a release, a renewal, a deletion, a prune without a router and the
\* passing of time do.
LEMMA Keeping ==
  ASSUME TableInv
  PROVE  /\ \A r \in Runs : \A ids :
              Store!Release(r, ids) => Store!Next /\ nextId' = nextId /\ Keeps
         /\ \A r \in Runs : \A ids :
              Store!Renew(r, ids) => Store!Next /\ nextId' = nextId /\ Keeps
         /\ \A id : Store!DeleteRouteRef(id) => Store!Next /\ nextId' = nextId /\ Keeps
         /\ \A ids \in SUBSET (1 .. (nextId - 1)) :
              Store!RemoveRefs(ids) => Store!Next /\ nextId' = nextId /\ Keeps
         /\ Store!Tick => Store!Next /\ nextId' = nextId /\ Keeps
<1>1. ASSUME NEW r \in Runs, NEW ids, Store!Release(r, ids)
      PROVE  Store!Next /\ nextId' = nextId /\ Keeps
  <2>1. ids \in Store!Refs /\ routes' \subseteq routes /\ nextId' = nextId
    BY <1>1, StoredIsRoutes DEF Store!Release, Store!CanRelease, Store!Update,
       Store!Without, Store!Refs, Store!IdsOf, Store!OfRun, IdsOf
  <2>. QED  BY <1>1, <2>1 DEF Store!Next, Store!RunStep, Keeps, Alike
<1>2. ASSUME NEW r \in Runs, NEW ids, Store!Renew(r, ids)
      PROVE  Store!Next /\ nextId' = nextId /\ Keeps
  <2>1. /\ ids \in Store!Refs /\ nextId' = nextId
        /\ routes' = Store!Renewed(routes, ids)
    BY <1>2, StoredIsRoutes DEF Store!Renew, Store!CanRenew, Store!Update,
       Store!Refs, Store!IdsOf, Store!OfRun, IdsOf
  <2>2. Keeps
    BY <2>1, StoredIsRoutes DEF Store!Renewed, Keeps, Alike, Route
  <2>. QED  BY <1>2, <2>1, <2>2 DEF Store!Next, Store!RunStep
<1>3. ASSUME NEW id, Store!DeleteRouteRef(id)
      PROVE  Store!Next /\ nextId' = nextId /\ Keeps
  <2>1. id \in 1 .. (nextId - 1) /\ routes' \subseteq routes /\ nextId' = nextId
    BY <1>3, StoredIsRoutes DEF Store!DeleteRouteRef, Store!Update,
       Store!Without, Store!IdsOf, IdsOf
  <2>. QED  BY <1>3, <2>1 DEF Store!Next, Keeps, Alike
<1>4. ASSUME NEW ids \in SUBSET (1 .. (nextId - 1)), Store!RemoveRefs(ids)
      PROVE  Store!Next /\ nextId' = nextId /\ Keeps
  <2>1. ids \in Store!Refs /\ routes' \subseteq routes /\ nextId' = nextId
    BY <1>4, StoredIsRoutes DEF Store!RemoveRefs, Store!Update, Store!Without, Store!Refs
  <2>. QED  BY <1>4, <2>1 DEF Store!Next, Keeps, Alike
<1>5. ASSUME Store!Tick
      PROVE  Store!Next /\ nextId' = nextId /\ Keeps
  BY <1>5, StoredIsRoutes DEF Store!Next, Store!Tick, Store!Aged, Keeps, Alike, Route
<1>. QED  BY <1>1, <1>2, <1>3, <1>4, <1>5

-----------------------------------------------------------------------------
(* What runs and router know of each other *)

AllUp(r) == ready[r] = DOMAIN Services[r]

\* The run has yet to reserve its routes, or nobody knows whether it has.
Unreserved(r) ==
    \/ pc[r] \in {"start", "reserving"}
    \/ r \in Detected /\ pc[r] = "starting"
    \/ Request("reserve", r, {}) \in late

\* A run asks for the activation once its servers are up, and a reservation
\* that is late is that of a run that has ended.
LateInv ==
    \A q \in late :
        /\ q.run \in Runs
        /\ q.op = "activate" => AllUp(q.run)
        /\ q.op = "reserve" => q = Request("reserve", q.run, {}) /\ pc[q.run] \in Ended

ControlInv ==
    /\ pc \in [Runs -> Steps]
    /\ ready \in [Runs -> SUBSET Nat]
    /\ \A r \in Runs :
          pc[r] = "activating" \/ (r \in Detected /\ pc[r] = "reserving") => AllUp(r)
    /\ LateInv
    /\ seen \subseteq 1 .. (nextId - 1)

RoutesInv ==
    /\ GroupTogether
    /\ \A r \in Runs : Unreserved(r) => OfRun(routes, r) = {}

IInv == TableInv /\ ControlInv /\ RoutesInv

(* Servers do not go away, and a reservation is not asked for again. *)
Onwards ==
    \A r \in Runs : (AllUp(r) => AllUp(r)') /\ (Unreserved(r)' => Unreserved(r))

\* Routes that are kept do not fall apart,
LEMMA KeepsTogether ==
  ASSUME TableInv, RoutesInv, Onwards, Keeps
  PROVE  RoutesInv'
<1>1. ASSUME NEW s \in routes', s.state = "active"
      PROVE  /\ AllUp(s.run)'
             /\ \A o \in OfRun(routes', s.run) : o.state = "active"
  <2>1. PICK t \in routes : Alike(s, t)
    BY DEF Keeps
  <2>2. t.state = "active" /\ t.run = s.run /\ t.run \in Runs
    BY <1>1, <2>1 DEF Alike, TableInv, Tabled
  <2>. QED  BY <2>2 DEF Keeps, Alike, OfRun, RoutesInv, GroupTogether, AllUp, Onwards
<1>2. \A r \in Runs : Unreserved(r)' => OfRun(routes', r) = {}
  BY DEF Keeps, Alike, OfRun, RoutesInv, Onwards
<1>. QED  BY <1>1, <1>2 DEF RoutesInv, GroupTogether, AllUp, OfRun

\* nor do those of a run that had none before it reserved them,
LEMMA AddsTogether ==
  ASSUME TableInv, RoutesInv, Onwards,
         NEW r \in Runs, Adds(r), Unreserved(r), ~Unreserved(r)'
  PROVE  RoutesInv'
<1>1. OfRun(routes, r) = {}
  BY DEF RoutesInv
<1>2. \A s \in OfRun(routes', r) : s.state = "pending"
  BY <1>1 DEF Adds, Alike, OfRun
<1>3. ASSUME NEW s \in routes', s.state = "active"
      PROVE  /\ AllUp(s.run)'
             /\ \A o \in OfRun(routes', s.run) : o.state = "active"
  <2>1. s.run # r
    BY <1>2, <1>3 DEF OfRun
  <2>2. PICK t \in routes : Alike(s, t)
    BY <2>1 DEF Adds
  <2>3. t.state = "active" /\ t.run = s.run /\ t.run \in Runs
    BY <1>3, <2>2 DEF Alike, TableInv, Tabled
  <2>. QED  BY <2>1, <2>3 DEF Adds, Alike, OfRun, RoutesInv, GroupTogether, AllUp, Onwards
<1>4. \A x \in Runs : Unreserved(x)' => OfRun(routes', x) = {}
  BY DEF Adds, Alike, OfRun, RoutesInv, Onwards
<1>. QED  BY <1>3, <1>4 DEF RoutesInv, GroupTogether, AllUp, OfRun

\* nor do those that are activated while the servers of their run are up.
LEMMA ActivatesTogether ==
  ASSUME TableInv, RoutesInv, Onwards, NEW r \in Runs, Activates(r), AllUp(r)
  PROVE  RoutesInv'
<1>1. ASSUME NEW s \in routes', s.state = "active"
      PROVE  /\ AllUp(s.run)'
             /\ \A o \in OfRun(routes', s.run) : o.state = "active"
  <2>1. PICK t \in routes :
          /\ t.run = s.run
          /\ IF t.run = r THEN s.state = "active" ELSE s.state = t.state
    BY DEF Activates
  <2>2. s.run \in Runs
    BY <2>1 DEF TableInv, Tabled
  <2>3. CASE s.run = r
    BY <2>3 DEF Activates, OfRun, Onwards
  <2>4. CASE s.run # r
    BY <1>1, <2>1, <2>2, <2>4
    DEF Activates, OfRun, RoutesInv, GroupTogether, AllUp, Onwards
  <2>. QED  BY <2>3, <2>4
<1>2. \A x \in Runs : Unreserved(x)' => OfRun(routes', x) = {}
  BY DEF Activates, OfRun, RoutesInv, Onwards
<1>. QED  BY <1>1, <1>2 DEF RoutesInv, GroupTogether, AllUp, OfRun

-----------------------------------------------------------------------------
(* What an action changes of it *)

\* What a run may be waiting for is what its step allows.
LEMMA AskedFor ==
  ASSUME ControlInv, NEW r \in Runs, NEW q \in Asked(r)
  PROVE  /\ q.run = r
         /\ q.op = "activate" => AllUp(r)
         /\ q.op = "reserve" => q = Request("reserve", r, {}) /\ pc[r] = "reserving"
<1>1. CASE pc[r] = "reserving"
  BY <1>1 DEF Asked, Request, Leased
<1>2. CASE pc[r] = "activating"
  BY <1>2 DEF Asked, Request, Leased, ControlInv
<1>3. CASE pc[r] \in Leased \/ pc[r] = "releasing" \/ pc[r] = "deleting"
  BY <1>3 DEF Asked, Each, Request, Leased
<1>4. CASE pc[r] \in {"start", "starting", "done", "dead"}
  BY <1>4 DEF Asked, Leased
<1>. QED  BY <1>1, <1>2, <1>3, <1>4 DEF ControlInv, Steps, Leased, Ended

\* Identities that have been handed out stay so.
LEMMA SeenKnown ==
  ASSUME NEW m \in Nat, NEW n \in Nat, m <= n, NEW ids, ids \subseteq 1 .. (m - 1)
  PROVE  ids \subseteq 1 .. (n - 1)
<1>1. \A id \in 1 .. (m - 1) : id \in 1 .. (n - 1)
  OBVIOUS
<1>. QED  BY <1>1

\* Actions that move no run: what becomes late reserves and activates nothing.
LEMMA ControlStays ==
  ASSUME ControlInv, nextId' \in Nat, nextId \in Nat, nextId <= nextId',
         UNCHANGED <<pc, ready>>, seen' \subseteq 1 .. (nextId - 1),
         \A q \in late' :
            \/ q \in late
            \/ q.run \in Runs /\ q.op \notin {"reserve", "activate"}
  PROVE  ControlInv' /\ Onwards
<1>1. LateInv'
  BY DEF ControlInv, LateInv, AllUp
<1>2. Onwards
  BY DEF Onwards, Unreserved, AllUp, Request
<1>3. (seen \subseteq 1 .. (nextId - 1))'
  BY SeenKnown
<1>4. \A x \in Runs :
        (pc[x] = "activating" \/ (x \in Detected /\ pc[x] = "reserving") => AllUp(x))'
  BY DEF ControlInv, AllUp
<1>5. pc' \in [Runs -> Steps] /\ ready' \in [Runs -> SUBSET Nat]
  BY DEF ControlInv
<1>. QED  BY <1>1, <1>2, <1>3, <1>4, <1>5 DEF ControlInv

\* Actions that move one run.
LEMMA ControlMoves ==
  ASSUME ControlInv, nextId' \in Nat, nextId \in Nat, nextId <= nextId',
         NEW r \in Runs, NEW step \in Steps, Goto(r, step),
         UNCHANGED <<ready, seen>>,
         pc[r] \notin Ended, step # "start",
         (step = "activating" \/ (r \in Detected /\ step = "reserving")) => AllUp(r),
         (step = "reserving" \/ (r \in Detected /\ step = "starting")) => Unreserved(r),
         \A q \in late' :
            \/ q \in late
            \/ /\ q.run = r
               /\ q.op = "activate" => AllUp(r)
               /\ q.op = "reserve" => /\ q = Request("reserve", r, {})
                                      /\ step \in Ended /\ Unreserved(r)
  PROVE  ControlInv' /\ Onwards
<1>1. /\ pc' \in [Runs -> Steps] /\ pc'[r] = step
      /\ \A x \in Runs : x # r => pc'[x] = pc[x]
  BY DEF ControlInv, Goto
<1>2. LateInv'
  BY <1>1 DEF ControlInv, LateInv, AllUp
<1>3. Onwards
  <2>1. ASSUME NEW x \in Runs, Unreserved(x)'
        PROVE  Unreserved(x)
    <3>1. CASE Request("reserve", x, {}) \in late'
      BY <3>1 DEF Unreserved, Request
    <3>2. CASE Request("reserve", x, {}) \notin late'
      BY <1>1, <2>1, <3>2 DEF Unreserved
    <3>. QED  BY <3>1, <3>2
  <2>. QED  BY <2>1 DEF Onwards, AllUp
<1>4. \A x \in Runs :
        (pc[x] = "activating" \/ (x \in Detected /\ pc[x] = "reserving") => AllUp(x))'
  BY <1>1 DEF ControlInv, AllUp
<1>5. (seen \subseteq 1 .. (nextId - 1))'
  BY SeenKnown DEF ControlInv
<1>6. ready' \in [Runs -> SUBSET Nat]
  BY DEF ControlInv
<1>. QED  BY <1>1, <1>2, <1>3, <1>4, <1>5, <1>6 DEF ControlInv

\* An operation on the table and a change of the rest make a step.
LEMMA Together ==
  ASSUME IInv, [Store!Next]_(Store!vars), ControlInv', Onwards,
         \/ Keeps
         \/ \E r \in Runs : Adds(r) /\ Unreserved(r) /\ ~Unreserved(r)'
         \/ \E r \in Runs : Activates(r) /\ AllUp(r)
  PROVE  IInv'
<1>1. \A s \in routes' : s.id # NoId /\ s.run \in Runs
  BY DEF IInv, TableInv, Tabled, Keeps, Adds, Activates, Alike
<1>2. TableInv'
  BY <1>1, TableKept DEF IInv
<1>3. RoutesInv'
  BY KeepsTogether, AddsTogether, ActivatesTogether DEF IInv
<1>. QED  BY <1>2, <1>3 DEF IInv

-----------------------------------------------------------------------------
(* The actions *)

\* Actions that leave the table alone.
LEMMA Aside ==
  ASSUME IInv, UNCHANGED storeVars
  PROVE  [Store!Next]_(Store!vars) /\ Keeps /\ nextId' = nextId /\ nextId \in Nat
  BY StoredIsRoutes DEF IInv, storeVars, Store!vars, Keeps, Alike

\* What becomes late when a run stops waiting.
LEMMA Abandoned ==
  ASSUME NEW requests, Abandon(requests), NEW q \in late'
  PROVE  q \in late \/ q \in requests
  BY DEF Abandon

\* A run up to its activation.
LEMMA Startup ==
  ASSUME IInv, NEW r \in Runs,
         Start(r) \/ Reserve(r) \/ AllReady(r) \/ Activate(r) \/ Announce(r)
            \/ \E i \in DOMAIN Services[r] : ServiceReady(r, i)
  PROVE  [Store!Next]_(Store!vars) /\ IInv'
<1>1. /\ ControlInv /\ TableInv
      /\ nextId \in Nat /\ nextId <= nextId
      /\ pc[r] \in Steps
  BY StoredIsRoutes DEF IInv, ControlInv
<1>2. CASE Start(r)
  <2> DEFINE step == IF r \in Detected THEN "starting" ELSE "reserving"
  <2>1. /\ pc[r] = "start" /\ Goto(r, step) /\ UNCHANGED storeVars
        /\ UNCHANGED <<ready, late, seen>>
    BY <1>2 DEF Start, otherVars
  <2>2. ControlInv' /\ Onwards
    <3>1. step \in Steps /\ pc[r] \notin Ended /\ Unreserved(r) /\ step # "start"
      BY <2>1 DEF Steps, Ended, Unreserved
    <3>2. ~(step = "activating" \/ (r \in Detected /\ step = "reserving"))
      OBVIOUS
    <3> HIDE DEF step
    <3>. QED  BY <1>1, <2>1, <3>1, <3>2, Aside, ControlMoves
  <2>. QED  BY <2>1, <2>2, Aside, Together
<1>3. CASE Reserve(r)
  <2> DEFINE step == IF r \in Detected THEN "activating" ELSE "starting"
  <2>1. /\ pc[r] = "reserving" /\ Goto(r, step)
        /\ Store!Reserve(r, Services[r])
        /\ UNCHANGED <<ready, late, seen>>
    BY <1>3 DEF Reserve, otherVars
  <2>2. Store!Next /\ nextId' \in Nat /\ nextId <= nextId' /\ Adds(r)
    BY <1>1, <2>1, Reserving
  <2>3. ControlInv' /\ Onwards
    <3>1. step \in Steps /\ pc[r] \notin Ended /\ step # "start" /\ step # "reserving"
      BY <2>1 DEF Steps, Ended
    <3>2. step = "activating" => AllUp(r)
      BY <1>1, <2>1 DEF ControlInv
    <3>3. ~(r \in Detected /\ step = "starting")
      OBVIOUS
    <3> HIDE DEF step
    <3>. QED  BY <1>1, <2>1, <2>2, <3>1, <3>2, <3>3, ControlMoves
  <2>4. Unreserved(r) /\ ~Unreserved(r)'
    <3>1. pc'[r] = step
      BY <1>1, <2>1 DEF ControlInv, Goto
    <3>2. Request("reserve", r, {}) \notin late
      BY <1>1, <2>1 DEF ControlInv, LateInv, Request, Ended
    <3>. QED  BY <2>1, <3>1, <3>2 DEF Unreserved
  <2>. QED  BY <2>2, <2>3, <2>4, Together
<1>4. CASE AllReady(r)
  <2> DEFINE step == IF r \in Detected THEN "reserving" ELSE "activating"
  <2>1. /\ pc[r] = "starting" /\ AllUp(r) /\ Goto(r, step) /\ UNCHANGED storeVars
        /\ UNCHANGED <<ready, late, seen>>
    BY <1>4 DEF AllReady, AllUp, otherVars
  <2>2. ControlInv' /\ Onwards
    <3>1. step \in Steps /\ pc[r] \notin Ended /\ step # "start" /\ step # "starting"
      BY <2>1 DEF Steps, Ended
    <3>2. step = "reserving" => Unreserved(r)
      BY <2>1 DEF Unreserved
    <3> HIDE DEF step
    <3>. QED  BY <1>1, <2>1, <3>1, <3>2, Aside, ControlMoves
  <2>. QED  BY <2>1, <2>2, Aside, Together
<1>5. CASE Activate(r)
  <2>1. /\ pc[r] = "activating" /\ Goto(r, "sharing")
        /\ Store!Activate(r, refs[r])
        /\ UNCHANGED <<ready, late, seen>>
    BY <1>5 DEF Activate, otherVars
  <2>2. Store!Next /\ nextId' = nextId /\ Activates(r)
    BY <1>1, <2>1, Activating
  <2>3. ControlInv' /\ Onwards
    <3>1. "sharing" \in Steps /\ pc[r] \notin Ended
      BY <2>1 DEF Steps, Leased, Ended
    <3>. QED  BY <1>1, <2>1, <2>2, <3>1, ControlMoves
  <2>4. AllUp(r)
    BY <1>1, <2>1 DEF ControlInv
  <2>. QED  BY <2>2, <2>3, <2>4, Together
<1>6. CASE Announce(r)
  <2>1. /\ pc[r] = "sharing" /\ Goto(r, "running") /\ UNCHANGED storeVars
        /\ UNCHANGED <<ready, late, seen>>
    BY <1>6 DEF Announce, otherVars
  <2>2. ControlInv' /\ Onwards
    <3>1. "running" \in Steps /\ pc[r] \notin Ended
      BY <2>1 DEF Steps, Leased, Ended
    <3>. QED  BY <1>1, <2>1, <3>1, Aside, ControlMoves
  <2>. QED  BY <2>1, <2>2, Aside, Together
<1>7. ASSUME NEW i \in DOMAIN Services[r], ServiceReady(r, i)
      PROVE  [Store!Next]_(Store!vars) /\ IInv'
  <2>1. /\ UNCHANGED <<pc, late, seen>> /\ UNCHANGED storeVars
        /\ ready' = [ready EXCEPT ![r] = @ \cup {i}]
    BY <1>7 DEF ServiceReady, otherVars
  <2>2. i \in Nat
    BY ServicesAssumption
  <2>3. ready' \in [Runs -> SUBSET Nat]
    BY <1>1, <2>1, <2>2 DEF ControlInv
  <2>4. \A x \in Runs : (AllUp(x) => AllUp(x)')
    BY <1>1, <1>7, <2>1 DEF ControlInv, AllUp
  <2>5. Onwards
    BY <2>1, <2>4 DEF Onwards, Unreserved
  <2>6. LateInv'
    BY <1>1, <2>1, <2>4 DEF ControlInv, LateInv
  <2>7. ControlInv'
    BY <1>1, <2>1, <2>3, <2>4, <2>6, Aside DEF ControlInv
  <2>. QED  BY <2>1, <2>5, <2>7, Aside, Together
<1>. QED  BY <1>2, <1>3, <1>4, <1>5, <1>6, <1>7

\* A run that renews its leases.
LEMMA Renewing ==
  ASSUME IInv, NEW r \in Runs, NEW id,
         Renew(r, id) \/ RenewConflicts(r, id) \/ MissRenewal(r, id)
  PROVE  [Store!Next]_(Store!vars) /\ IInv'
<1>1. ControlInv /\ TableInv /\ nextId \in Nat /\ nextId <= nextId
  BY StoredIsRoutes DEF IInv
<1>2. UNCHANGED <<pc, ready, seen>>
  BY DEF Renew, RenewConflicts, MissRenewal, otherVars
<1>3. seen' \subseteq 1 .. (nextId - 1)
  BY <1>1, <1>2 DEF ControlInv
<1>4. \A q \in late' :
        \/ q \in late
        \/ q.run \in Runs /\ q.op \notin {"reserve", "activate"}
  BY Abandoned DEF Renew, RenewConflicts, MissRenewal, Request
<1>5. [Store!Next]_(Store!vars) /\ Keeps /\ nextId' = nextId
  <2>1. CASE Renew(r, id)
    BY <1>1, <2>1, Keeping DEF Renew
  <2>2. CASE RenewConflicts(r, id) \/ MissRenewal(r, id)
    BY <2>2, Aside DEF RenewConflicts, MissRenewal
  <2>. QED  BY <2>1, <2>2
<1>6. ControlInv' /\ Onwards
  BY <1>1, <1>2, <1>3, <1>4, <1>5, ControlStays
<1>. QED  BY <1>5, <1>6, Together

\* A run that fails, is interrupted or crashes, whatever it asked for meanwhile.
LEMMA Ending ==
  ASSUME IInv, NEW r \in Runs,
         Fail(r) \/ TimeOut(r) \/ Interrupt(r) \/ Crash(r)
  PROVE  [Store!Next]_(Store!vars) /\ IInv'
<1>1. /\ ControlInv /\ TableInv
      /\ nextId \in Nat /\ nextId <= nextId
      /\ pc[r] \in Steps
  BY StoredIsRoutes DEF IInv, ControlInv
<1>2. /\ UNCHANGED <<ready, seen>> /\ UNCHANGED storeVars
      /\ pc[r] \notin Ended
  BY DEF Fail, TimeOut, Interrupt, Crash, otherVars, Leased, Ended
<1>3. PICK step : /\ Goto(r, step)
                  /\ step \in {"releasing", "deleting"} \cup Ended
                  /\ pc[r] = "reserving" => step \in Ended
  <2>1. CASE Fail(r) \/ TimeOut(r)
    BY <2>1 DEF Fail, TimeOut, CleanUp, AfterFailure, Leased, Ended
  <2>2. CASE Interrupt(r)
    BY <2>2 DEF Interrupt, CleanUp, AfterInterrupt, AfterFailure, Leased, Ended
  <2>3. CASE Crash(r)
    BY <1>1, <2>3 DEF Crash, CleanUp, Ended
  <2>. QED  BY <2>1, <2>2, <2>3
<1>4. ASSUME NEW q \in late'
      PROVE  \/ q \in late
             \/ q \in Asked(r)
  BY <1>4, Abandoned DEF Fail, TimeOut, Interrupt, Crash
<1>5. ControlInv' /\ Onwards
  <2>1. \A q \in late' :
          \/ q \in late
          \/ /\ q.run = r
             /\ q.op = "activate" => AllUp(r)
             /\ q.op = "reserve" => /\ q = Request("reserve", r, {})
                                    /\ step \in Ended /\ Unreserved(r)
    BY <1>1, <1>3, <1>4, AskedFor DEF Unreserved
  <2>2. /\ step \in Steps
        /\ step \notin {"start", "activating", "reserving", "starting"}
    BY <1>3 DEF Steps, Ended
  <2>. QED  BY <1>1, <1>2, <1>3, <2>1, <2>2, Aside, ControlMoves
<1>. QED  BY <1>2, <1>5, Aside, Together

\* A run that cleans up.
LEMMA CleaningUp ==
  ASSUME IInv, NEW r \in Runs, Cleaning(r)
  PROVE  [Store!Next]_(Store!vars) /\ IInv'
<1>1. /\ ControlInv /\ TableInv
      /\ nextId \in Nat /\ nextId <= nextId
  BY StoredIsRoutes DEF IInv
<1>2. "done" \in Steps
  BY DEF Steps, Ended
<1>3. CASE Release(r)
  <2>1. /\ pc[r] = "releasing" /\ Goto(r, "done") /\ UNCHANGED <<ready, late, seen>>
        /\ Store!Release(r, refs[r]) \/ UNCHANGED storeVars
    BY <1>3 DEF Release, otherVars
  <2>2. [Store!Next]_(Store!vars) /\ Keeps /\ nextId' = nextId
    BY <1>1, <2>1, Keeping, Aside
  <2>3. ControlInv' /\ Onwards
    <3>1. pc[r] \notin Ended
      BY <2>1 DEF Ended
    <3>. QED  BY <1>1, <1>2, <2>1, <2>2, <3>1, ControlMoves
  <2>. QED  BY <2>2, <2>3, Together
<1>4. CASE GiveUpRelease(r) \/ Finish(r)
  <2>1. /\ Goto(r, "done") /\ UNCHANGED <<ready, seen>> /\ UNCHANGED storeVars
        /\ pc[r] \in {"releasing", "deleting"}
    BY <1>4 DEF GiveUpRelease, Finish, otherVars
  <2>2. \A q \in late' : q \in late \/ q \in Asked(r)
    BY <1>4, Abandoned DEF GiveUpRelease, Finish
  <2>3. ControlInv' /\ Onwards
    <3>1. pc[r] \notin Ended /\ pc[r] # "reserving"
      BY <2>1 DEF Ended
    <3>2. \A q \in late' :
            \/ q \in late
            \/ /\ q.run = r
               /\ q.op = "activate" => AllUp(r)
               /\ q.op # "reserve"
      BY <1>1, <2>2, <3>1, AskedFor
    <3>. QED  BY <1>1, <1>2, <2>1, <3>1, <3>2, Aside, ControlMoves
  <2>. QED  BY <2>1, <2>3, Aside, Together
<1>5. ASSUME NEW id, Delete(r, id) \/ GiveUpDelete(r, id)
      PROVE  [Store!Next]_(Store!vars) /\ IInv'
  <2>1. UNCHANGED <<pc, ready, seen>>
    BY <1>5 DEF Delete, GiveUpDelete, otherVars
  <2>2. \A q \in late' :
          \/ q \in late
          \/ q.run \in Runs /\ q.op \notin {"reserve", "activate"}
    BY <1>5, Abandoned DEF Delete, GiveUpDelete, Request
  <2>3. [Store!Next]_(Store!vars) /\ Keeps /\ nextId' = nextId
    BY <1>1, <1>5, Keeping, Aside DEF Delete, GiveUpDelete, Gone
  <2>4. seen' \subseteq 1 .. (nextId - 1)
    BY <1>1, <2>1 DEF ControlInv
  <2>5. ControlInv' /\ Onwards
    BY <1>1, <2>1, <2>2, <2>3, <2>4, ControlStays
  <2>. QED  BY <2>3, <2>5, Together
<1>. QED  BY <1>3, <1>4, <1>5 DEF Cleaning

\* The router, serving a request long after it was sent.
LEMMA ServingLate ==
  ASSUME IInv, NEW q \in late, ServeLate(q)
  PROVE  [Store!Next]_(Store!vars) /\ IInv'
<1>1. /\ ControlInv /\ TableInv
      /\ nextId \in Nat /\ nextId <= nextId
      /\ q.run \in Runs
  BY StoredIsRoutes DEF IInv, ControlInv, LateInv
<1>2. UNCHANGED <<pc, ready, seen>> /\ late' = late \ {q}
  BY DEF ServeLate, runVars, otherVars
<1>3. ASSUME nextId' \in Nat, nextId <= nextId'
      PROVE  ControlInv' /\ Onwards
  <2>1. seen' \subseteq 1 .. (nextId - 1)
    BY <1>1, <1>2 DEF ControlInv
  <2>. QED  BY <1>1, <1>2, <1>3, <2>1, ControlStays
<1>4. CASE q.op = "reserve" /\ Store!Reserve(q.run, Services[q.run])
  <2>1. Store!Next /\ nextId' \in Nat /\ nextId <= nextId' /\ Adds(q.run)
    BY <1>1, <1>4, Reserving
  <2>2. q = Request("reserve", q.run, {}) /\ pc[q.run] \in Ended
    BY <1>1, <1>4 DEF ControlInv, LateInv
  <2>3. Unreserved(q.run) /\ ~Unreserved(q.run)'
    BY <1>2, <2>2 DEF Unreserved, Ended
  <2>. QED  BY <1>1, <1>3, <2>1, <2>3, Together
<1>5. CASE q.op = "activate" /\ Store!Activate(q.run, q.refs)
  <2>1. Store!Next /\ nextId' = nextId /\ Activates(q.run)
    BY <1>1, <1>5, Activating
  <2>2. AllUp(q.run)
    BY <1>1, <1>5 DEF ControlInv, LateInv
  <2>. QED  BY <1>1, <1>3, <2>1, <2>2, Together
<1>6. CASE \/ Store!Renew(q.run, q.refs) \/ Store!Release(q.run, q.refs)
           \/ \E id \in q.refs : Store!DeleteRouteRef(id)
           \/ UNCHANGED storeVars
  <2>1. [Store!Next]_(Store!vars) /\ Keeps /\ nextId' = nextId
    BY <1>1, <1>6, Keeping, Aside
  <2>. QED  BY <1>1, <1>3, <2>1, Together
<1>. QED  BY <1>4, <1>5, <1>6 DEF ServeLate, Served

\* gohere prune, gohere stop and time.
LEMMA Others ==
  ASSUME IInv,
         \/ LookAround \/ PruneAll \/ Tick
         \/ \E id \in seen : PruneOne(id)
         \/ \E id \in IdsOf(routes) : Stop(id)
  PROVE  [Store!Next]_(Store!vars) /\ IInv'
<1>1. /\ ControlInv /\ TableInv
      /\ nextId \in Nat /\ nextId <= nextId
      /\ IdsOf(routes) \subseteq 1 .. (nextId - 1)
      /\ seen \subseteq 1 .. (nextId - 1)
  BY StoredIsRoutes DEF IInv, ControlInv
<1>2. UNCHANGED <<pc, ready, late>>
  BY DEF LookAround, PruneAll, PruneOne, Stop, Tick, runVars
<1>3. seen' \subseteq 1 .. (nextId - 1)
  <2>1. CASE LookAround
    BY <1>1, <2>1 DEF LookAround, IdsOf
  <2>2. CASE ~LookAround
    BY <1>1, <2>2 DEF PruneAll, PruneOne, Stop, Tick, otherVars
  <2>. QED  BY <2>1, <2>2
<1>4. [Store!Next]_(Store!vars) /\ Keeps /\ nextId' = nextId
  <2>1. CASE LookAround
    BY <2>1, Aside DEF LookAround
  <2>2. CASE PruneAll
    BY <1>1, <2>2, Keeping DEF PruneAll
  <2>3. CASE Tick
    BY <1>1, <2>3, Keeping DEF Tick
  <2>4. CASE \E id \in seen : PruneOne(id)
    BY <1>1, <2>4, Keeping, Aside DEF PruneOne, Gone
  <2>5. CASE \E id \in IdsOf(routes) : Stop(id)
    BY <1>1, <2>5, Keeping DEF Stop
  <2>. QED  BY <2>1, <2>2, <2>3, <2>4, <2>5
<1>5. ControlInv' /\ Onwards
  BY <1>1, <1>2, <1>3, <1>4, ControlStays
<1>. QED  BY <1>4, <1>5, Together

-----------------------------------------------------------------------------

\* At first there is nothing.
LEMMA InitIInv == Init => Store!Init /\ IInv
<1> SUFFICES ASSUME Init PROVE Store!Init /\ IInv
  OBVIOUS
<1>1. Store!Init /\ routes = {} /\ nextId = 1
  BY DEF Init, Store!Init
<1>2. TableInv
  BY <1>1 DEF TableInv, Tabled, SP!WellFormed
<1>3. ControlInv
  BY <1>1 DEF Init, ControlInv, LateInv, Steps, Ended
<1>4. RoutesInv
  BY <1>1 DEF RoutesInv, GroupTogether, OfRun
<1>. QED  BY <1>1, <1>2, <1>3, <1>4 DEF IInv

\* Every step is one of the store, and keeps the invariant.
LEMMA EveryStep == IInv /\ [Next]_vars => [Store!Next]_(Store!vars) /\ IInv'
<1> SUFFICES ASSUME IInv, [Next]_vars
             PROVE  [Store!Next]_(Store!vars) /\ IInv'
  OBVIOUS
<1>1. ASSUME NEW r \in Runs, RunStep(r)
      PROVE  [Store!Next]_(Store!vars) /\ IInv'
  BY <1>1, Startup, Renewing, Ending, CleaningUp DEF RunStep, Renewal
<1>2. CASE UNCHANGED vars
  <2>1. /\ UNCHANGED <<pc, ready, late>> /\ UNCHANGED storeVars
        /\ seen' \subseteq 1 .. (nextId - 1)
    BY <1>2 DEF vars, storeVars, IInv, ControlInv
  <2>2. ControlInv' /\ Onwards
    BY <2>1, Aside, ControlStays DEF IInv
  <2>. QED  BY <2>1, <2>2, Aside, Together
<1>. QED  BY <1>1, <1>2, ServingLate, Others DEF Next

\* Runs that start, renew, time out, crash and clean up, with gohere prune and
\* gohere stop beside them, use the store as RouteStore says: RouteStore is the
\* abstract specification of what RunLifecycle does to the routes.
THEOREM Composes == Spec => UsesStore
<1>. QED  BY InitIInv, EveryStep, PTL DEF Spec, UsesStore, Store!Spec

\* Two stored routes never share a host, an identity or a target, whatever the
\* runs go through.
THEOREM RoutesStaySafe == Spec => []Store!SafetyInv
<1>1. IInv => Store!SafetyInv
  BY DEF IInv, TableInv, Tabled, SP!WellFormed, Store!SafetyInv, Store!TypeOK, Store!HostsUnique,
     Store!IdsUnique, Store!TargetsUnique, Store!OneWSLOwner, SP!Route, Store!Route,
     SP!States, Store!States, SP!ShareStates, Store!ShareStates, SP!NoExpiry, Store!NoExpiry
<1>. QED  BY InitIInv, EveryStep, <1>1, PTL DEF Spec

\* The services of a run appear together.
THEOREM GroupsAppearTogether == Spec => []GroupTogether
<1>1. IInv => GroupTogether
  BY DEF IInv, RoutesInv
<1>. QED  BY InitIInv, EveryStep, <1>1, PTL DEF Spec

-----------------------------------------------------------------------------
(* A live run keeps the routes it announced, and a run that saw all its    *)
(* routes removed leaves none behind, whatever the other runs, their late  *)
(* requests, gohere prune and gohere stop do meanwhile.                    *)
(*                                                                         *)
(* Every run owns identities, the ones it refers to and the ones its late  *)
(* requests name, and nobody else's operation touches the routes that bear *)
(* them (Owners and Requests).  A lease loses a unit each time a renewal   *)
(* is due or has been missed, and no more (Lease): with MaxMissed + 1      *)
(* units to lose it never runs out, so that no prune that looks at it      *)
(* finds it dead, and none that has looked already named it (LeasedInv).   *)

After == {"releasing", "deleting"} \cup Ended

\* The identities were handed out, and to nobody but the run.
Own(ids, r) ==
    /\ ids \subseteq 0 .. (nextId - 1)
    /\ \A t \in routes : t.id \in ids => t.run = r

OwnersInv ==
    /\ refs \in [Runs -> SUBSET Nat] /\ todo \in [Runs -> SUBSET Nat]
    /\ \A r \in Runs :
          /\ Own(refs[r], r)
          /\ NoId \in refs[r] => pc[r] \in Ended
          /\ todo[r] \subseteq refs[r] \ {NoId}
          /\ pc[r] \notin Leased \cup {"deleting"} => todo[r] = {}
    /\ \A r, s \in Runs : r # s => refs[r] \cap refs[s] \subseteq {NoId}

\* Only a run that ends, or misses a renewal, leaves a request behind.
RequestsInv ==
    \A q \in late :
        /\ Own(q.refs, q.run) /\ NoId \notin q.refs
        /\ pc[q.run] \in After \/ (q.op = "renew" /\ pc[q.run] \in Leased)
        /\ q.op = "reserve" => pc[q.run] = "dead" \/ NoId \in refs[q.run]

\* A run that has not crashed knows all of its routes, or knows that it does not.
Known(r) ==
    pc[r] = "dead" \/ NoId \in refs[r] \/ IdsOf(OfRun(routes, r)) \subseteq refs[r]

BoundsInv ==
    /\ nextId <= MaxId + 1
    /\ stopped \subseteq 1 .. (nextId - 1)
    /\ missed \in [1 .. MaxId -> 0 .. MaxMissed]
    /\ \A id \in nextId .. MaxId : missed[id] = 0

\* Reserved and not yet activated.
Begun(r) == pc[r] = "activating" \/ (pc[r] = "starting" /\ r \notin Detected)

PendingInv(r) ==
    Begun(r) => \A id \in refs[r] :
        /\ missed[id] = 0
        /\ \A t \in routes : t.id = id =>
              t.state = "pending" /\ (id \in seen => Expired(t))

\* What a lease may have lost: a unit for each renewal missed and one for the
\* renewal that is due.
Slack(r, id) == missed[id] + (IF id \in todo[r] THEN 1 ELSE 0)

Lease(r, id) ==
    \E t \in routes :
        /\ t.id = id /\ t.run = r /\ t.state = "active"
        /\ LeaseTTL <= t.ttl + Slack(r, id)

LeasedInv(r) ==
    pc[r] \in Leased => \A id \in refs[r] \ stopped : id \notin seen /\ Lease(r, id)

\* What holds whatever the lease is, and what needs one that is long enough.
OwnInv == OwnersInv /\ RequestsInv /\ BoundsInv /\ \A r \in Runs : Known(r)
LeaseInv == \A r \in Runs : PendingInv(r) /\ LeasedInv(r)

-----------------------------------------------------------------------------
(* What an operation does to routes that are not its own *)

Same(s, t) == Alike(s, t) /\ s.ttl = t.ttl

\* Identities are not given to another run.
Traced ==
    \A s \in routes' :
        \/ s.id >= nextId
        \/ \E t \in routes : s.id = t.id /\ s.run = t.run

\* The run gets no route it did not have.
NoneFor(r) ==
    \A s \in routes' : s.run = r => \E t \in routes : s.id = t.id /\ t.run = r

\* The named routes change in no way but that they may go,
Rests(ids) == \A s \in routes' : s.id \in ids => \E t \in routes : Same(s, t)

\* and do not go, although they may get a new lease.
Holds(ids) ==
    \A t \in routes : (t.id \in ids /\ ~Expired(t)) =>
        \E s \in routes' : Alike(s, t) /\ s.ttl \in {t.ttl, LeaseTTL}

\* Identities that were given stay given.
LEMMA StillGiven ==
  ASSUME NEW m \in Nat, NEW n \in Nat, m <= n
  PROVE  \A id \in 0 .. (m - 1) : id \in 0 .. (n - 1) /\ ~(id >= m)
  OBVIOUS

LEMMA UnchangedEffect ==
  ASSUME UNCHANGED routes
  PROVE  Traced /\ (\A x : NoneFor(x)) /\ (\A ids : Rests(ids) /\ Holds(ids))
  BY DEF Traced, NoneFor, Rests, Holds, Same, Alike

\* Release, deletion and removal.
LEMMA WithoutEffect ==
  ASSUME NEW gone, routes' = Without(routes, gone)
  PROVE  /\ Traced /\ (\A x : NoneFor(x)) /\ (\A ids : Rests(ids))
         /\ \A ids : ids \cap gone = {} => Holds(ids)
<1>1. \A t \in routes' : t \in routes /\ t.id \notin gone
  BY DEF Without
<1>2. ASSUME NEW ids, ids \cap gone = {} PROVE Holds(ids)
  BY <1>2 DEF Without, Holds, Alike
<1>. QED  BY <1>1, <1>2 DEF Traced, NoneFor, Rests, Same, Alike

LEMMA ReserveEffect ==
  ASSUME IInv, NEW r \in Runs, Store!Reserve(r, Services[r])
  PROVE  /\ Traced /\ (\A x : x # r => NoneFor(x))
         /\ \A ids : ids \subseteq 0 .. (nextId - 1) => Rests(ids)
         /\ \A ids : Holds(ids)
         /\ \A s \in routes' : s.run = r =>
              \/ \E t \in routes : s.id = t.id /\ t.run = r
              \/ s.id >= nextId /\ s.state = "pending"
         /\ nextId' \in Nat /\ nextId <= nextId' /\ nextId' <= MaxId
<1>1. TableInv /\ nextId \in Nat \ {0} /\ routes \subseteq Route
  BY StoredIsRoutes DEF IInv
<1>2. Len(Services[r]) \in Nat /\ DOMAIN Services[r] = 1 .. Len(Services[r])
  BY ServicesAssumption
<1> DEFINE base == Store!Unexpired(routes)
           batch == Services[r]
<1>3. PICK given : Store!Update(Store!Reserved(base, r, batch, given, nextId - 1), Len(batch))
  BY <1>1, StoredIsRoutes DEF Store!Reserve
<1>4. /\ routes' = Store!Reserved(base, r, batch, given, nextId - 1)
      /\ nextId' = nextId + Len(batch) /\ nextId' <= MaxId
  BY <1>1, <1>3, StoredIsRoutes DEF Store!Update
<1>5. \A s \in Store!ShareReused(base, batch) : \E t \in routes : Same(s, t)
  BY <1>1 DEF Store!ShareReused, Store!Unexpired, Same, Alike, Route
<1>6. \A t \in routes : ~Expired(t) =>
         \E s \in Store!ShareReused(base, batch) : Same(s, t)
  <2>1. ASSUME NEW t \in routes, ~Expired(t)
        PROVE  \E s \in Store!ShareReused(base, batch) : Same(s, t)
    <3>1. t \in base
      BY <2>1 DEF Store!Unexpired, Store!Expired, Expired
    <3>2. \A x : Same([t EXCEPT !.share = x], t)
      BY <1>1 DEF Same, Alike, Route
    <3>. QED  BY <3>1, <3>2 DEF Store!ShareReused
  <2>. QED  BY <2>1
<1>7. \A i \in Store!NewEntries(batch) :
        LET s == Store!PendingRoute(r, batch[i], given[i], nextId - 1 + i)
        IN  s.id >= nextId /\ s.run = r /\ s.state = "pending"
  BY <1>1, <1>2 DEF Store!PendingRoute, Store!NewEntries
<1>8. \A s \in routes' :
        \/ \E t \in routes : Same(s, t)
        \/ s.id >= nextId /\ s.run = r /\ s.state = "pending"
  BY <1>4, <1>5, <1>7 DEF Store!Reserved
<1>9. \A t \in routes : ~Expired(t) => \E s \in routes' : Same(s, t)
  BY <1>4, <1>6 DEF Store!Reserved
<1>10. ASSUME NEW ids, ids \subseteq 0 .. (nextId - 1) PROVE Rests(ids)
  <2>1. \A id \in ids : ~(id >= nextId)
    <3>1. nextId <= nextId
      BY <1>1
    <3>. QED  BY <1>1, <1>10, <3>1, StillGiven
  <2>. QED  BY <1>8, <2>1 DEF Rests
<1>. QED  BY <1>1, <1>2, <1>4, <1>8, <1>9, <1>10 DEF Traced, NoneFor, Holds, Same, Alike

\* Activation and renewal: the routes they name belong to the run.
LEMMA ActivateEffect ==
  ASSUME IInv, NEW r \in Runs, NEW named, Store!Activate(r, named)
  PROVE  /\ Traced /\ (\A x : NoneFor(x))
         /\ \A x \in Runs : \A ids : x # r /\ Own(ids, x) => Rests(ids) /\ Holds(ids)
         /\ \A id \in named : \E t \in routes : t.id = id /\ t.run = r /\ ~Expired(t)
         /\ \A id \in named : \E s \in routes' :
              s.id = id /\ s.run = r /\ s.state = "active" /\ s.ttl = LeaseTTL
<1>1. TableInv /\ routes \subseteq Route
      /\ \A s, t \in routes : s.id = t.id => s = t
  BY StoredIsRoutes DEF IInv
<1>2. /\ named = IdsOf({t \in OfRun(routes, r) : t.state = "pending"})
      /\ \A t \in OfRun(routes, r) : t.state = "pending" => ~Expired(t)
      /\ routes' = Activated(routes, named)
  BY <1>1, StoredIsRoutes DEF Store!Activate, Store!CanActivate, Store!Update,
     Store!IdsOf, Store!OfRun, Store!Expired, Store!Activated,
     IdsOf, OfRun, Expired, Activated
<1>3. \A id \in named : \E t \in routes : t.id = id /\ t.run = r /\ ~Expired(t)
  BY <1>2 DEF IdsOf, OfRun
<1> DEFINE new(t) == IF t.id \in named THEN [t EXCEPT !.state = "active", !.ttl = LeaseTTL] ELSE t
<1>4. \A t \in routes :
        /\ new(t).id = t.id /\ new(t).run = t.run
        /\ t.id \notin named => new(t) = t
        /\ t.id \in named => new(t).state = "active" /\ new(t).ttl = LeaseTTL
  BY <1>1 DEF Route
<1>5. routes' = {new(t) : t \in routes}
  BY <1>2 DEF Activated
<1> HIDE DEF new
<1>6. Traced /\ \A x : NoneFor(x)
  BY <1>4, <1>5 DEF Traced, NoneFor
<1>7. ASSUME NEW x \in Runs, NEW ids, x # r, Own(ids, x)
      PROVE  Rests(ids) /\ Holds(ids)
  <2>1. \A t \in routes : t.id \in ids => t.id \notin named
    BY <1>1, <1>3, <1>7 DEF Own
  <2>. QED  BY <1>4, <1>5, <2>1 DEF Rests, Holds, Same, Alike
<1>8. \A id \in named : \E s \in routes' :
        s.id = id /\ s.run = r /\ s.state = "active" /\ s.ttl = LeaseTTL
  BY <1>3, <1>4, <1>5
<1>. QED  BY <1>3, <1>6, <1>7, <1>8

LEMMA RenewEffect ==
  ASSUME IInv, NEW r \in Runs, NEW named, Store!Renew(r, named)
  PROVE  /\ Traced /\ (\A x : NoneFor(x)) /\ (\A ids : Holds(ids))
         /\ \A x \in Runs : \A ids : x # r /\ Own(ids, x) => Rests(ids)
         /\ \A t \in routes : t.id \in named =>
              \E s \in routes' : Alike(s, t) /\ s.ttl = LeaseTTL
<1>1. TableInv /\ routes \subseteq Route
      /\ \A s, t \in routes : s.id = t.id => s = t
  BY StoredIsRoutes DEF IInv
<1>2. named \subseteq IdsOf(OfRun(routes, r)) /\ routes' = Renewed(routes, named)
  BY <1>1, StoredIsRoutes DEF Store!Renew, Store!CanRenew, Store!Update,
     Store!IdsOf, Store!OfRun, Store!Renewed, IdsOf, OfRun, Renewed
<1> DEFINE new(t) == IF t.id \in named THEN [t EXCEPT !.ttl = LeaseTTL] ELSE t
<1>3. \A t \in routes :
        /\ Alike(new(t), t)
        /\ t.id \notin named => new(t) = t
        /\ t.id \in named => new(t).ttl = LeaseTTL
  BY <1>1 DEF Route, Alike
<1>4. routes' = {new(t) : t \in routes}
  BY <1>2 DEF Renewed
<1> HIDE DEF new
<1>5. Traced /\ \A x : NoneFor(x)
  BY <1>3, <1>4 DEF Traced, NoneFor, Alike
<1>6. \A ids : Holds(ids)
  BY <1>3, <1>4 DEF Holds
<1>7. ASSUME NEW x \in Runs, NEW ids, x # r, Own(ids, x)
      PROVE  Rests(ids)
  <2>1. \A t \in routes : t.id \in ids => t.id \notin named
    BY <1>1, <1>2, <1>7 DEF Own, IdsOf, OfRun
  <2>. QED  BY <1>3, <1>4, <2>1 DEF Rests, Same, Alike
<1>8. \A t \in routes : t.id \in named =>
        \E s \in routes' : Alike(s, t) /\ s.ttl = LeaseTTL
  BY <1>3, <1>4
<1>. QED  BY <1>5, <1>6, <1>7, <1>8

-----------------------------------------------------------------------------
(* What an action does to the invariant *)

\* At most one run moves.
OthersRest(r) ==
    \A x \in Runs \ {r} :
        pc'[x] = pc[x] /\ refs'[x] = refs[x] /\ todo'[x] = todo[x]

\* What the store and the bounds make of an operation.
Spent ==
    /\ nextId' \in Nat /\ nextId <= nextId' /\ nextId' <= MaxId + 1
    /\ stopped' \subseteq 1 .. (nextId - 1)
    /\ missed' \in [1 .. MaxId -> 0 .. MaxMissed]
    /\ \A id \in nextId .. MaxId : missed'[id] = 0

\* Identities have the owner they had.
LEMMA OwnKept ==
  ASSUME Traced, nextId \in Nat, nextId' \in Nat, nextId <= nextId',
         NEW ids, NEW r, Own(ids, r)
  PROVE  ids \subseteq 0 .. (nextId' - 1) /\ \A s \in routes' : s.id \in ids => s.run = r
<1>1. \A id \in 0 .. (nextId - 1) : id \in 0 .. (nextId' - 1) /\ ~(id >= nextId)
  BY StillGiven
<1>2. \A id \in ids : id \in 0 .. (nextId' - 1) /\ ~(id >= nextId)
  BY <1>1 DEF Own
<1>. QED  BY <1>2 DEF Own, Traced

\* Identities stay with their owners.
LEMMA OwnMoves ==
  ASSUME IInv, OwnInv, Traced, Spent,
         NEW r \in Runs, OthersRest(r),
         refs' \in [Runs -> SUBSET Nat], todo' \in [Runs -> SUBSET Nat],
         \A x \in Runs \ {r} : NoneFor(x),
         pc[r] \in After => pc'[r] \in After,
         pc[r] \in Leased => pc'[r] \in Leased \cup After,
         pc[r] = "dead" \/ NoId \in refs[r] => pc'[r] = "dead" \/ NoId \in refs'[r],
         Own(refs[r], r)', Known(r)',
         NoId \in refs'[r] => pc'[r] \in Ended,
         \A x \in Runs \ {r} : refs'[r] \cap refs[x] \subseteq {NoId},
         todo'[r] \subseteq refs'[r] \ {NoId},
         pc'[r] \notin Leased \cup {"deleting"} => todo'[r] = {},
         \A q \in late' :
            \/ q \in late
            \/ /\ q.run = r /\ Own(q.refs, r) /\ NoId \notin q.refs
               /\ pc'[r] \in After \/ (q.op = "renew" /\ pc'[r] \in Leased)
               /\ q.op = "reserve" => pc'[r] = "dead" \/ NoId \in refs'[r]
  PROVE  OwnInv'
<1>1. nextId \in Nat
  BY StoredIsRoutes DEF IInv
<1>2. ASSUME NEW x \in Runs
      PROVE  /\ Own(refs[x], x)'
             /\ (NoId \in refs[x] => pc[x] \in Ended)'
             /\ (todo[x] \subseteq refs[x] \ {NoId})'
             /\ (pc[x] \notin Leased \cup {"deleting"} => todo[x] = {})'
  <2>1. CASE x # r
    <3>1. Own(refs[x], x)
      BY DEF OwnInv, OwnersInv
    <3>2. Own(refs[x], x)'
      BY <1>1, <2>1, <3>1, OwnKept DEF Spent, OthersRest, Own
    <3>. QED  BY <2>1, <3>2 DEF OthersRest, OwnInv, OwnersInv
  <2>2. CASE x = r
    BY <2>2
  <2>. QED  BY <2>1, <2>2
<1>3. ASSUME NEW x \in Runs, NEW y \in Runs, x # y
      PROVE  refs'[x] \cap refs'[y] \subseteq {NoId}
  <2>1. CASE x # r /\ y # r
    BY <1>3, <2>1 DEF OthersRest, OwnInv, OwnersInv
  <2>2. CASE x = r
    BY <1>3, <2>2 DEF OthersRest
  <2>3. CASE y = r
    BY <1>3, <2>3 DEF OthersRest
  <2>. QED  BY <2>1, <2>2, <2>3
<1>4. OwnersInv'
  BY <1>2, <1>3 DEF OwnersInv
<1>5. \A x \in Runs :
        /\ pc[x] \in After => pc'[x] \in After
        /\ pc[x] \in Leased => pc'[x] \in Leased \cup After
        /\ pc[x] = "dead" \/ NoId \in refs[x] => pc'[x] = "dead" \/ NoId \in refs'[x]
  BY DEF OthersRest
<1>6. ASSUME NEW q \in late'
      PROVE  /\ Own(q.refs, q.run)' /\ NoId \notin q.refs
             /\ pc'[q.run] \in After \/ (q.op = "renew" /\ pc'[q.run] \in Leased)
             /\ q.op = "reserve" => pc'[q.run] = "dead" \/ NoId \in refs'[q.run]
  <2>1. CASE q \in late
    <3>1. /\ q.run \in Runs /\ Own(q.refs, q.run) /\ NoId \notin q.refs
          /\ pc[q.run] \in After \/ (q.op = "renew" /\ pc[q.run] \in Leased)
          /\ q.op = "reserve" => pc[q.run] = "dead" \/ NoId \in refs[q.run]
      BY <2>1 DEF OwnInv, RequestsInv, IInv, ControlInv, LateInv
    <3>2. Own(q.refs, q.run)'
      BY <1>1, <3>1, OwnKept DEF Spent, Own
    <3>. QED  BY <1>5, <3>1, <3>2
  <2>2. CASE q \notin late
    <3>1. Own(q.refs, q.run)
      BY <2>2
    <3>2. Own(q.refs, q.run)'
      BY <1>1, <3>1, OwnKept DEF Spent, Own
    <3>. QED  BY <2>2, <3>2
  <2>. QED  BY <2>1, <2>2
<1>7. RequestsInv'
  BY <1>6 DEF RequestsInv
<1>8. ASSUME NEW x \in Runs PROVE Known(x)'
  <2>1. CASE x # r
    <3>1. Known(x) /\ NoneFor(x)
      BY <2>1 DEF OwnInv
    <3>2. pc'[x] = pc[x] /\ refs'[x] = refs[x]
      BY <2>1 DEF OthersRest
    <3>. QED  BY <3>1, <3>2 DEF Known, NoneFor, IdsOf, OfRun
  <2>. QED  BY <2>1
<1>9. BoundsInv'
  <2>1. (nextId' .. MaxId) \subseteq (nextId .. MaxId)
    BY <1>1, BoundsAssumption DEF Spent
  <2>2. stopped' \subseteq 1 .. (nextId' - 1)
    BY <1>1, SeenKnown DEF Spent
  <2>. QED  BY <2>1, <2>2 DEF Spent, BoundsInv
<1>. QED  BY <1>4, <1>7, <1>8, <1>9 DEF OwnInv

\* A route that is to be activated waits for it.
LEMMA PendingKept ==
  ASSUME NEW x \in Runs, PendingInv(x),
         Begun(x)' => Begun(x), refs'[x] = refs[x], Begun(x) => Rests(refs[x]),
         Begun(x) => \A id \in refs[x] : missed'[id] = missed[id] /\ (id \in seen' => id \in seen)
  PROVE  PendingInv(x)'
<1>1. ASSUME Begun(x)', NEW id \in refs[x]
      PROVE  /\ missed'[id] = 0
             /\ \A s \in routes' : s.id = id =>
                   s.state = "pending" /\ (id \in seen' => Expired(s))
  <2>1. Begun(x)
    BY <1>1
  <2>2. ASSUME NEW s \in routes', s.id = id
        PROVE  s.state = "pending" /\ (id \in seen' => Expired(s))
    <3>1. PICK t \in routes : Same(s, t)
      BY <2>1, <2>2 DEF Rests
    <3>2. t.state = "pending" /\ (id \in seen => Expired(t))
      BY <2>1, <2>2, <3>1 DEF PendingInv, Same, Alike
    <3>. QED  BY <2>1, <3>1, <3>2 DEF Same, Alike, Expired
  <2>. QED  BY <2>1, <2>2 DEF PendingInv
<1>. QED  BY <1>1 DEF PendingInv, Expired

\* A lease that is kept up does not run out.
LEMMA LeaseLasts ==
  ASSUME MaxMissed + 1 < LeaseTTL, IInv, OwnInv,
         NEW x \in Runs, NEW id \in refs[x], pc[x] \in Leased,
         NEW t \in routes, LeaseTTL <= t.ttl + Slack(x, id)
  PROVE  /\ id \in 1 .. MaxId /\ Slack(x, id) \in Nat /\ t.ttl \in Nat /\ t.ttl > 0
         /\ ~Expired(t)
<1>1. id # NoId
  BY DEF OwnInv, OwnersInv, Leased, Ended
<1>2. id \in 0 .. (nextId - 1) /\ nextId \in Nat /\ nextId <= MaxId + 1
  BY StoredIsRoutes DEF OwnInv, OwnersInv, Own, BoundsInv, IInv
<1>3. id \in 1 .. MaxId
  BY <1>1, <1>2, BoundsAssumption DEF NoId
<1>4. missed[id] \in 0 .. MaxMissed
  BY <1>3 DEF OwnInv, BoundsInv
<1>5. Slack(x, id) \in Nat /\ Slack(x, id) <= MaxMissed + 1
  BY <1>4, BoundsAssumption DEF Slack
<1>6. t.ttl \in Nat \cup {-1}
  BY StoredIsRoutes DEF IInv, Route, NoExpiry
<1>. QED  BY <1>3, <1>5, <1>6, BoundsAssumption, TTLAssumption DEF Expired

LEMMA LeaseKept ==
  ASSUME MaxMissed + 1 < LeaseTTL, IInv, OwnInv,
         NEW x \in Runs, NEW id \in refs[x], pc[x] \in Leased, Lease(x, id),
         Holds({id}), Slack(x, id)' \in Nat, Slack(x, id) <= Slack(x, id)'
  PROVE  Lease(x, id)'
<1>1. PICK t \in routes : /\ t.id = id /\ t.run = x /\ t.state = "active"
                          /\ LeaseTTL <= t.ttl + Slack(x, id)
  BY DEF Lease
<1>2. ~Expired(t) /\ Slack(x, id) \in Nat /\ t.ttl \in Nat
  BY <1>1, LeaseLasts
<1>3. PICK s \in routes' : Alike(s, t) /\ s.ttl \in {t.ttl, LeaseTTL}
  BY <1>1, <1>2 DEF Holds
<1>4. LeaseTTL <= s.ttl + Slack(x, id)'
  BY <1>1, <1>2, <1>3, TTLAssumption
<1>. QED  BY <1>1, <1>3, <1>4 DEF Lease, Alike

LEMMA LeasedKept ==
  ASSUME MaxMissed + 1 < LeaseTTL, IInv, OwnInv, NEW x \in Runs, LeasedInv(x),
         pc'[x] \in Leased => pc[x] \in Leased, refs'[x] = refs[x],
         stopped \subseteq stopped',
         pc[x] \in Leased =>
            \A id \in refs[x] \ stopped' :
               /\ Holds({id}) /\ (id \in seen' => id \in seen)
               /\ Slack(x, id)' \in Nat /\ Slack(x, id) <= Slack(x, id)'
  PROVE  LeasedInv(x)'
<1>1. ASSUME pc[x] \in Leased, NEW id \in refs[x] \ stopped'
      PROVE  id \notin seen' /\ Lease(x, id)'
  <2>1. id \notin seen /\ Lease(x, id)
    BY <1>1 DEF LeasedInv
  <2>. QED  BY <1>1, <2>1, LeaseKept
<1>. QED  BY <1>1 DEF LeasedInv

\* The slack of a lease, and where it is written.
LEMMA SlackIs ==
  ASSUME IInv, OwnInv, NEW x \in Runs, pc[x] \notin Ended, NEW id \in refs[x]
  PROVE  id \in 1 .. MaxId /\ id \in 1 .. (nextId - 1) /\ Slack(x, id) \in Nat
<1>1. id # NoId
  BY DEF OwnInv, OwnersInv
<1>2. id \in 0 .. (nextId - 1) /\ nextId \in Nat /\ nextId <= MaxId + 1
  BY StoredIsRoutes DEF OwnInv, OwnersInv, Own, BoundsInv, IInv
<1>3. id \in 1 .. MaxId /\ id \in 1 .. (nextId - 1)
  BY <1>1, <1>2, BoundsAssumption DEF NoId
<1>4. missed[id] \in Nat
  BY <1>3, BoundsAssumption DEF OwnInv, BoundsInv
<1>. QED  BY <1>3, <1>4 DEF Slack

\* A step of one run leaves the others their leases.
LEMMA LeaseMoves ==
  ASSUME MaxMissed + 1 < LeaseTTL, IInv, OwnInv, LeaseInv,
         NEW r \in Runs, OthersRest(r), UNCHANGED <<seen, stopped>>,
         \A x \in Runs \ {r} : Rests(refs[x]) /\ Holds(refs[x]),
         \A id \in (1 .. MaxId) \ refs[r] : missed'[id] = missed[id],
         PendingInv(r)', LeasedInv(r)'
  PROVE  LeaseInv'
<1> SUFFICES ASSUME NEW x \in Runs, x # r PROVE PendingInv(x)' /\ LeasedInv(x)'
  BY DEF LeaseInv
<1>1. pc'[x] = pc[x] /\ refs'[x] = refs[x] /\ todo'[x] = todo[x]
  BY DEF OthersRest
<1>2. ASSUME pc[x] \notin Ended, NEW id \in refs[x]
      PROVE  missed'[id] = missed[id] /\ Slack(x, id) \in Nat /\ Slack(x, id)' = Slack(x, id)
  <2>1. id \in 1 .. MaxId /\ Slack(x, id) \in Nat
    BY <1>2, SlackIs
  <2>2. id \notin refs[r]
    BY <1>2 DEF OwnInv, OwnersInv
  <2>. QED  BY <1>1, <2>1, <2>2 DEF Slack
<1>3. PendingInv(x)'
  BY <1>1, <1>2, PendingKept DEF LeaseInv, Begun, Ended
<1>4. \A id \in refs[x] : Holds({id})
  BY DEF Holds
<1>5. LeasedInv(x)'
  <2>1. ASSUME pc[x] \in Leased, NEW id \in refs[x]
        PROVE  Slack(x, id)' \in Nat /\ Slack(x, id) <= Slack(x, id)'
    BY <1>2, <2>1 DEF Leased, Ended
  <2>. QED  BY <1>1, <1>4, <2>1, LeasedKept DEF LeaseInv
<1>. QED  BY <1>3, <1>5

-----------------------------------------------------------------------------
(* The actions of a run that leave the table alone *)

LEMMA SpentSame ==
  ASSUME IInv, OwnInv, UNCHANGED <<nextId, missed, stopped>>
  PROVE  Spent
  BY StoredIsRoutes DEF IInv, OwnInv, BoundsInv, Spent

\* What a run asks for names its own routes.
LEMMA AskedOwn ==
  ASSUME IInv, OwnInv, NEW r \in Runs, pc[r] \notin Ended, NEW q \in Asked(r)
  PROVE  /\ q.run = r /\ Own(q.refs, r) /\ NoId \notin q.refs
         /\ q.op = "reserve" => pc[r] = "reserving"
<1>1. /\ Own(refs[r], r) /\ NoId \notin refs[r] /\ todo[r] \subseteq refs[r]
      /\ Own({}, r)
  BY DEF OwnInv, OwnersInv, Own
<1>2. CASE pc[r] = "reserving"
  BY <1>1, <1>2 DEF Asked, Request, Leased
<1>3. CASE pc[r] \in {"activating", "releasing"}
  BY <1>1, <1>3 DEF Asked, Request, Leased
<1>4. CASE pc[r] \in Leased \cup {"deleting"}
  <2>1. PICK id \in todo[r] : q \in {Request("renew", r, {id}), Request("delete", r, {id})}
    BY <1>4 DEF Asked, Each, Leased
  <2>. QED  BY <1>1, <2>1 DEF Request, Own
<1>5. CASE pc[r] \in {"start", "starting"}
  BY <1>5 DEF Asked, Leased
<1>. QED  BY <1>2, <1>3, <1>4, <1>5 DEF IInv, ControlInv, Steps

LEMMA OwnAside ==
  ASSUME IInv, OwnInv, UNCHANGED storeVars, Spent,
         NEW r \in Runs, pc[r] \notin Ended, OthersRest(r),
         refs' \in [Runs -> SUBSET Nat], todo' \in [Runs -> SUBSET Nat],
         pc[r] \in After => pc'[r] \in After,
         pc[r] \in Leased => pc'[r] \in Leased \cup After,
         refs'[r] = refs[r] \/ (refs'[r] = {NoId} /\ pc'[r] \in Ended),
         todo'[r] \subseteq refs[r],
         pc'[r] \notin Leased \cup {"deleting"} => todo'[r] = {},
         \A q \in late' :
            \/ q \in late
            \/ /\ q \in Asked(r)
               /\ pc'[r] \in After \/ (q.op = "renew" /\ pc'[r] \in Leased)
               /\ q.op = "reserve" => pc'[r] = "dead" \/ NoId \in refs'[r]
  PROVE  OwnInv'
<1>1. Traced /\ \A x : NoneFor(x)
  BY UnchangedEffect DEF storeVars
<1>2. /\ Own(refs[r], r) /\ NoId \notin refs[r]
      /\ nextId \in Nat \ {0} /\ \A t \in routes : t.id # NoId
  BY StoredIsRoutes DEF OwnInv, OwnersInv, IInv, TableInv, Tabled
<1>3. Own(refs[r], r)'
  BY <1>2 DEF storeVars, Own, NoId
<1>4. Known(r)'
  BY DEF OwnInv, Known, storeVars, Ended
<1>5. \A x \in Runs \ {r} : refs'[r] \cap refs[x] \subseteq {NoId}
  BY DEF OwnInv, OwnersInv
<1>6. todo'[r] \subseteq refs'[r] \ {NoId}
  BY <1>2 DEF Ended, Leased
<1>7. \A q \in late' :
        \/ q \in late
        \/ /\ q.run = r /\ Own(q.refs, r) /\ NoId \notin q.refs
           /\ pc'[r] \in After \/ (q.op = "renew" /\ pc'[r] \in Leased)
           /\ q.op = "reserve" => pc'[r] = "dead" \/ NoId \in refs'[r]
  BY AskedOwn
<1>8. /\ NoId \in refs'[r] => pc'[r] \in Ended
      /\ ~(pc[r] = "dead" \/ NoId \in refs[r])
  BY <1>2 DEF Ended
<1>. QED  BY <1>1, <1>3, <1>4, <1>5, <1>6, <1>7, <1>8, OwnMoves

\* A run that only moves on.
LEMMA OwnWalks ==
  ASSUME IInv, OwnInv, UNCHANGED <<storeVars, refs, todo, missed, stopped>>,
         NEW r \in Runs, pc[r] \notin Ended, NEW step, Goto(r, step),
         pc[r] \in After => step \in After,
         pc[r] \in Leased => step \in Leased \cup After,
         step \notin Leased \cup {"deleting"} => todo[r] = {},
         \A q \in late' : q \in late \/ (q \in Asked(r) /\ step \in After /\ q.op # "reserve")
  PROVE  OwnInv' /\ OthersRest(r) /\ pc'[r] = step
<1>1. OthersRest(r) /\ pc'[r] = step
  BY DEF Goto, OthersRest, IInv, ControlInv
<1>2. Spent
  BY SpentSame DEF storeVars
<1>3. /\ refs \in [Runs -> SUBSET Nat] /\ todo \in [Runs -> SUBSET Nat]
      /\ todo[r] \subseteq refs[r]
  BY DEF OwnInv, OwnersInv
<1>. QED  BY <1>1, <1>2, <1>3, OwnAside

\* On the way from the reservation to the leases,
LEMMA LeaseWalks ==
  ASSUME MaxMissed + 1 < LeaseTTL, IInv, OwnInv, LeaseInv,
         UNCHANGED <<storeVars, refs, todo, missed, seen, stopped>>,
         NEW r \in Runs, OthersRest(r),
         Begun(r)' => Begun(r), pc'[r] \in Leased => pc[r] \in Leased
  PROVE  LeaseInv'
<1>1. \A ids : Rests(ids) /\ Holds(ids)
  BY UnchangedEffect DEF storeVars
<1>2. PendingInv(r)'
  BY <1>1, PendingKept DEF LeaseInv
<1>3. LeasedInv(r)'
  <2>1. ASSUME pc[r] \in Leased, NEW id \in refs[r]
        PROVE  Slack(r, id)' \in Nat /\ Slack(r, id) <= Slack(r, id)'
    BY <2>1, SlackIs DEF Slack, Leased, Ended
  <2>. QED  BY <1>1, <2>1, LeasedKept DEF LeaseInv
<1>. QED  BY <1>1, <1>2, <1>3, LeaseMoves

\* and out of them.
LEMMA LeaseEnds ==
  ASSUME MaxMissed + 1 < LeaseTTL, IInv, OwnInv, LeaseInv,
         UNCHANGED <<seen, stopped, missed>>,
         NEW r \in Runs, OthersRest(r), pc'[r] \in After,
         \A x \in Runs \ {r} : Rests(refs[x]) /\ Holds(refs[x])
  PROVE  LeaseInv'
<1>1. PendingInv(r)' /\ LeasedInv(r)'
  BY DEF PendingInv, LeasedInv, Begun, After, Leased, Ended
<1>. QED  BY <1>1, LeaseMoves

LEMMA StartupOwn ==
  ASSUME IInv, OwnInv, NEW r \in Runs,
         Start(r) \/ AllReady(r) \/ Announce(r)
            \/ \E i \in DOMAIN Services[r] : ServiceReady(r, i)
  PROVE  OwnInv' /\ (MaxMissed + 1 < LeaseTTL /\ LeaseInv => LeaseInv')
<1>1. UNCHANGED <<storeVars, refs, todo, missed, late, seen, stopped>>
  BY DEF Start, AllReady, Announce, ServiceReady, otherVars
<1>2. pc[r] \notin Ended /\ pc[r] \notin After \cup {"deleting"}
  BY DEF Start, AllReady, Announce, ServiceReady, Ended, After
<1>3. PICK step : /\ Goto(r, step)
                  /\ pc[r] \in Leased <=> step \in Leased
                  /\ step # "deleting"
                  /\ step = "activating" => pc[r] = "starting" /\ r \notin Detected
                  /\ step = "starting" => r \in Detected \/ pc[r] = "starting"
  <2>1. CASE Start(r) \/ AllReady(r) \/ Announce(r)
    BY <2>1 DEF Start, AllReady, Announce, Leased
  <2>2. CASE \E i \in DOMAIN Services[r] : ServiceReady(r, i)
    <3>1. pc[r] = "starting" /\ Goto(r, "starting")
      BY <2>2 DEF ServiceReady, Goto, IInv, ControlInv
    <3>. QED  BY <3>1 DEF Leased
  <2>. QED  BY <2>1, <2>2
<1>4. step \notin Leased \cup {"deleting"} => todo[r] = {}
  BY <1>2, <1>3 DEF OwnInv, OwnersInv, After
<1>5. OwnInv' /\ OthersRest(r) /\ pc'[r] = step
  BY <1>1, <1>2, <1>3, <1>4, OwnWalks
<1>6. (Begun(r)' => Begun(r)) /\ (pc'[r] \in Leased => pc[r] \in Leased)
  BY <1>3, <1>5 DEF Begun
<1>. QED  BY <1>1, <1>5, <1>6, LeaseWalks

\* A renewal that fails or is missed.
LEMMA MissingOwn ==
  ASSUME IInv, OwnInv, NEW r \in Runs, NEW id \in todo[r],
         MissRenewal(r, id) \/ RenewConflicts(r, id)
  PROVE  OwnInv' /\ OthersRest(r) /\ todo'[r] = todo[r] \ {id}
         /\ UNCHANGED <<storeVars, pc, refs, seen, stopped>>
         /\ missed' = IF MissRenewal(r, id) THEN [missed EXCEPT ![id] = @ + 1] ELSE missed
<1>1. /\ UNCHANGED <<storeVars, pc, refs, seen, stopped>>
      /\ pc[r] \in Leased /\ todo' = [todo EXCEPT ![r] = @ \ {id}]
  BY DEF MissRenewal, RenewConflicts, otherVars
<1>2. pc[r] \notin Ended
  BY <1>1 DEF Leased, Ended
<1>3. /\ refs \in [Runs -> SUBSET Nat] /\ todo \in [Runs -> SUBSET Nat]
      /\ todo[r] \subseteq refs[r] /\ id \in refs[r]
  BY DEF OwnInv, OwnersInv
<1>4. OthersRest(r) /\ todo'[r] = todo[r] \ {id} /\ todo' \in [Runs -> SUBSET Nat]
  BY <1>1, <1>3 DEF OthersRest
<1>5. id \in 1 .. MaxId /\ id \in 1 .. (nextId - 1) /\ nextId \in Nat
  BY <1>2, <1>3, SlackIs, StoredIsRoutes DEF IInv
<1>6. missed' = IF MissRenewal(r, id) THEN [missed EXCEPT ![id] = @ + 1] ELSE missed
  BY DEF MissRenewal, RenewConflicts
<1>7. Spent
  <2>1. CASE MissRenewal(r, id)
    <3>1. /\ missed' = [missed EXCEPT ![id] = @ + 1] /\ missed[id] < MaxMissed
          /\ missed \in [1 .. MaxId -> 0 .. MaxMissed]
          /\ \A k \in nextId .. MaxId : missed[k] = 0
      BY <2>1 DEF MissRenewal, OwnInv, BoundsInv
    <3>2. missed[id] + 1 \in 0 .. MaxMissed
      BY <1>5, <3>1, BoundsAssumption
    <3>3. missed' \in [1 .. MaxId -> 0 .. MaxMissed]
      BY <3>1, <3>2
    <3>4. \A k \in nextId .. MaxId : k \in 1 .. MaxId /\ k # id
      <4>1. nextId >= 1 /\ id <= nextId - 1
        BY <1>5
      <4>. QED  BY <1>5, <4>1, BoundsAssumption
    <3>5. \A k \in 1 .. MaxId : k # id => missed'[k] = missed[k]
      BY <3>1
    <3>6. \A k \in nextId .. MaxId : missed'[k] = 0
      BY <3>1, <3>4, <3>5
    <3>. QED  BY <1>1, <1>5, <3>3, <3>6 DEF Spent, OwnInv, BoundsInv, storeVars
  <2>2. CASE ~MissRenewal(r, id)
    BY <1>1, <1>6, <2>2, SpentSame DEF storeVars
  <2>. QED  BY <2>1, <2>2
<1>8. \A q \in late' : q \in late \/ (q \in Asked(r) /\ q.op = "renew")
  BY <1>1, Abandoned DEF MissRenewal, RenewConflicts, Asked, Each, Request, Leased
<1>9. OwnInv'
  BY <1>1, <1>2, <1>3, <1>4, <1>7, <1>8, OwnAside
<1>. QED  BY <1>1, <1>4, <1>6, <1>9

\* A lease that is held is renewed: no conflict is taken for success.
LEMMA LeaseRenews ==
  ASSUME IInv, OwnInv, NEW r \in Runs, pc[r] \in Leased, NEW id \in refs[r], Lease(r, id)
  PROVE  CanRenew(Store!Stored, r, {id})
<1>1. PICK t \in routes : t.id = id /\ t.run = r /\ t.state = "active"
  BY DEF Lease
<1>2. Store!Stored = routes /\ \A s, t2 \in routes : s.id = t2.id => s = t2
  BY StoredIsRoutes DEF IInv
<1>3. {id} \subseteq IdsOf(OfRun(routes, r))
  BY <1>1 DEF IdsOf, OfRun
<1>4. \A s \in Named(routes, {id}) : s = t
  BY <1>1, <1>2 DEF Named
<1>. QED  BY <1>1, <1>2, <1>3, <1>4 DEF CanRenew

LEMMA MissingLease ==
  ASSUME MaxMissed + 1 < LeaseTTL, IInv, OwnInv, LeaseInv,
         NEW r \in Runs, NEW id \in todo[r],
         MissRenewal(r, id) \/ RenewConflicts(r, id)
  PROVE  LeaseInv'
<1>1. /\ OthersRest(r) /\ todo'[r] = todo[r] \ {id}
      /\ UNCHANGED <<storeVars, pc, refs, seen, stopped>>
      /\ missed' = IF MissRenewal(r, id) THEN [missed EXCEPT ![id] = @ + 1] ELSE missed
  BY MissingOwn
<1>2. pc[r] \in Leased /\ pc[r] \notin Ended /\ id \in refs[r]
  BY DEF MissRenewal, RenewConflicts, Leased, Ended, OwnInv, OwnersInv
<1>3. \A ids : Rests(ids) /\ Holds(ids)
  BY <1>1, UnchangedEffect DEF storeVars
<1>4. missed \in [1 .. MaxId -> 0 .. MaxMissed] /\ id \in 1 .. MaxId
  BY <1>2, SlackIs DEF OwnInv, BoundsInv
<1>5. \A k \in (1 .. MaxId) \ {id} : missed'[k] = missed[k]
  BY <1>1, <1>4
<1>6. PendingInv(r)'
  BY <1>1, <1>2 DEF PendingInv, Begun, Leased
<1>7. ASSUME NEW k \in refs[r] \ stopped
      PROVE  Slack(r, k)' \in Nat /\ Slack(r, k) <= Slack(r, k)'
  <2>1. k \in 1 .. MaxId /\ Slack(r, k) \in Nat
    BY <1>2, <1>7, SlackIs
  <2>2. CASE k # id
    BY <1>1, <1>5, <2>1, <2>2 DEF Slack
  <2>3. CASE k = id /\ MissRenewal(r, id)
    <3>1. missed'[id] = missed[id] + 1 /\ missed[id] \in Nat
      BY <1>1, <1>4, <2>3, BoundsAssumption
    <3>2. Slack(r, id)' = missed[id] + 1 /\ Slack(r, id) = missed[id] + 1
      BY <1>1, <3>1 DEF Slack
    <3>. QED  BY <2>3, <3>1, <3>2
  <2>4. CASE k = id /\ RenewConflicts(r, id)
    BY <1>2, <1>7, <2>4, LeaseRenews DEF LeaseInv, LeasedInv, RenewConflicts
  <2>. QED  BY <2>2, <2>3, <2>4
<1>8. LeasedInv(r)'
  BY <1>1, <1>3, <1>7, LeasedKept DEF LeaseInv
<1>9. \A k \in (1 .. MaxId) \ refs[r] : missed'[k] = missed[k]
  BY <1>2, <1>5
<1>. QED  BY <1>1, <1>3, <1>6, <1>8, <1>9, LeaseMoves

\* A run that fails, is interrupted or crashes.
LEMMA EndingOwn ==
  ASSUME IInv, OwnInv, NEW r \in Runs,
         Fail(r) \/ TimeOut(r) \/ Interrupt(r) \/ Crash(r)
  PROVE  OwnInv' /\ (MaxMissed + 1 < LeaseTTL /\ LeaseInv => LeaseInv')
<1>1. /\ UNCHANGED <<storeVars, missed, seen, stopped>>
      /\ pc[r] \notin Ended
  BY DEF Fail, TimeOut, Interrupt, Crash, otherVars, Leased, Ended
<1>2. PICK step : /\ CleanUp(r, step)
                  /\ step \in After
                  /\ step = "deleting" => pc[r] \in Leased
                  /\ pc[r] \in After => step = "dead"
                  /\ refs' = refs \/ (refs' = [refs EXCEPT ![r] = {NoId}] /\ step \in Ended)
                  /\ \/ UNCHANGED late \/ pc[r] # "reserving"
                     \/ step = "dead" \/ refs' = [refs EXCEPT ![r] = {NoId}]
  <2>1. CASE Fail(r)
    BY <2>1 DEF Fail, AfterFailure, Leased, Ended, After
  <2>2. CASE TimeOut(r)
    BY <2>2 DEF TimeOut, AfterFailure, Unknown, Leased, Ended, After
  <2>3. CASE Interrupt(r)
    BY <2>3 DEF Interrupt, AfterInterrupt, AfterFailure, Unknown, Leased, Ended, After
  <2>4. CASE Crash(r)
    BY <2>4 DEF Crash, Ended, After
  <2>. QED  BY <2>1, <2>2, <2>3, <2>4
<1>3. /\ refs \in [Runs -> SUBSET Nat] /\ todo \in [Runs -> SUBSET Nat]
      /\ pc \in [Runs -> Steps]
  BY DEF OwnInv, OwnersInv, IInv, ControlInv
<1>4. /\ pc'[r] = step
      /\ refs' \in [Runs -> SUBSET Nat] /\ todo' \in [Runs -> SUBSET Nat]
      /\ refs'[r] = refs[r] \/ (refs'[r] = {NoId} /\ step \in Ended)
      /\ todo'[r] = IF step = "deleting" THEN refs[r] ELSE {}
      /\ OthersRest(r)
  BY <1>2, <1>3 DEF CleanUp, Goto, OthersRest, NoId
<1>5. \A q \in late' :
        \/ q \in late
        \/ /\ q \in Asked(r)
           /\ q.op = "reserve" => step = "dead" \/ NoId \in refs'[r]
  <2>1. \A q \in late' : q \in late \/ q \in Asked(r)
    BY Abandoned DEF Fail, TimeOut, Interrupt, Crash
  <2>2. \A q \in Asked(r) : q.op = "reserve" => pc[r] = "reserving"
    BY <1>1, AskedOwn
  <2>3. refs' = [refs EXCEPT ![r] = {NoId}] => NoId \in refs'[r]
    BY <1>3
  <2>. QED  BY <1>2, <2>1, <2>2, <2>3
<1>6. OwnInv'
  <2>1. step \notin Leased
    BY <1>2 DEF After, Leased, Ended
  <2>2. Spent
    BY <1>1, SpentSame DEF storeVars
  <2>. QED  BY <1>1, <1>2, <1>4, <1>5, <2>1, <2>2, OwnAside
<1>7. \A ids : Rests(ids) /\ Holds(ids)
  BY <1>1, UnchangedEffect DEF storeVars
<1>. QED  BY <1>1, <1>2, <1>4, <1>6, <1>7, LeaseEnds

-----------------------------------------------------------------------------
(* The actions of a run that use the table *)

\* Activation: what was pending gets a whole lease.
LEMMA ActivateOwn ==
  ASSUME IInv, OwnInv, NEW r \in Runs, Activate(r)
  PROVE  OwnInv' /\ (MaxMissed + 1 < LeaseTTL /\ LeaseInv => LeaseInv')
<1>1. /\ pc[r] = "activating" /\ Goto(r, "sharing") /\ Store!Activate(r, refs[r])
      /\ UNCHANGED <<refs, todo, missed, late, seen, stopped>>
  BY DEF Activate, otherVars
<1>2. nextId' = nextId /\ TableInv
  BY <1>1, Activating DEF IInv
<1>3. pc'[r] = "sharing" /\ OthersRest(r)
  BY <1>1 DEF IInv, ControlInv, Goto, OthersRest
<1>4. Spent
  BY <1>1, <1>2, SpentSame
<1>5. /\ Traced /\ (\A x : NoneFor(x))
      /\ \A x \in Runs : \A ids : x # r /\ Own(ids, x) => Rests(ids) /\ Holds(ids)
      /\ \A id \in refs[r] : \E t \in routes : t.id = id /\ t.run = r /\ ~Expired(t)
      /\ \A id \in refs[r] : \E s \in routes' :
           s.id = id /\ s.run = r /\ s.state = "active" /\ s.ttl = LeaseTTL
  BY <1>1, ActivateEffect
<1>6. /\ refs \in [Runs -> SUBSET Nat] /\ todo \in [Runs -> SUBSET Nat]
      /\ Own(refs[r], r) /\ NoId \notin refs[r] /\ todo[r] = {} /\ Known(r)
      /\ \A x \in Runs \ {r} : refs[r] \cap refs[x] \subseteq {NoId}
      /\ \A x \in Runs : Own(refs[x], x)
  BY <1>1 DEF OwnInv, OwnersInv, Ended, Leased
<1>7. Own(refs[r], r)'
  <2>1. nextId \in Nat /\ nextId' \in Nat /\ nextId <= nextId'
    BY <1>2, <1>4, StoredIsRoutes DEF Spent
  <2>2. refs[r] \subseteq 0 .. (nextId' - 1) /\ \A s \in routes' : s.id \in refs[r] => s.run = r
    BY <1>5, <1>6, <2>1, OwnKept
  <2>. QED  BY <1>1, <2>2 DEF Own
<1>8. Known(r)'
  BY <1>1, <1>5, <1>6 DEF Known, NoneFor, IdsOf, OfRun
<1>9. OwnInv'
  <2>1. pc[r] \notin After \cup Leased /\ pc'[r] \in Leased
    BY <1>1, <1>3 DEF After, Leased, Ended
  <2>. QED  BY <1>1, <1>3, <1>4, <1>5, <1>6, <1>7, <1>8, <2>1, OwnMoves
<1>10. ASSUME MaxMissed + 1 < LeaseTTL, LeaseInv
       PROVE  LeaseInv'
  <2>1. PendingInv(r)'
    BY <1>3 DEF PendingInv, Begun
  <2>2. ASSUME NEW id \in refs[r] PROVE id \notin seen /\ Lease(r, id)'
    <3>1. pc[r] \notin Ended
      BY <1>1 DEF Ended
    <3>2. Slack(r, id) \in Nat
      BY <2>2, <3>1, SlackIs
    <3>3. Slack(r, id)' \in Nat
      BY <1>1, <3>2 DEF Slack
    <3>4. Lease(r, id)'
      BY <1>5, <2>2, <3>3, TTLAssumption DEF Lease
    <3>5. PendingInv(r) /\ Begun(r)
      BY <1>1, <1>10 DEF LeaseInv, Begun
    <3>6. id \notin seen
      BY <1>5, <2>2, <3>5 DEF PendingInv
    <3>. QED  BY <3>4, <3>6
  <2>3. LeasedInv(r)'
    BY <1>1, <2>2 DEF LeasedInv
  <2>4. \A x \in Runs \ {r} : Rests(refs[x]) /\ Holds(refs[x])
    BY <1>5, <1>6
  <2>. QED  BY <1>1, <1>3, <1>10, <2>1, <2>3, <2>4, LeaseMoves
<1>. QED  BY <1>9, <1>10

\* Reservation: a run that had no route owns those it is given, and no other.
LEMMA ReserveOwn ==
  ASSUME IInv, OwnInv, NEW r \in Runs, Reserve(r)
  PROVE  OwnInv' /\ (MaxMissed + 1 < LeaseTTL /\ LeaseInv => LeaseInv')
<1> DEFINE step == IF r \in Detected THEN "activating" ELSE "starting"
           new == IdsOf(OfRun(routes', r))
<1>1. /\ pc[r] = "reserving" /\ Goto(r, step) /\ Store!Reserve(r, Services[r])
      /\ refs' = [refs EXCEPT ![r] = new]
      /\ UNCHANGED <<todo, missed, late, seen, stopped>>
  BY DEF Reserve, otherVars
<1>2. /\ Traced /\ (\A x : x # r => NoneFor(x))
      /\ \A ids : ids \subseteq 0 .. (nextId - 1) => Rests(ids)
      /\ \A ids : Holds(ids)
      /\ \A s \in routes' : s.run = r =>
           \/ \E t \in routes : s.id = t.id /\ t.run = r
           \/ s.id >= nextId /\ s.state = "pending"
      /\ nextId' \in Nat /\ nextId <= nextId' /\ nextId' <= MaxId
  BY <1>1, ReserveEffect
<1>3. TableInv' /\ TableInv /\ nextId \in Nat \ {0}
  BY Startup, StoredIsRoutes DEF IInv
<1>4. OfRun(routes, r) = {}
  BY <1>1 DEF IInv, RoutesInv, Unreserved
<1>5. \A s \in routes' : s.run = r => s.id >= nextId /\ s.state = "pending"
  BY <1>2, <1>4 DEF OfRun
<1>6. /\ \A s \in routes' : s.id \in Nat /\ s.id < nextId'
      /\ \A s, t \in routes' : s.id = t.id => s = t
  BY <1>3 DEF TableInv, Tabled, SP!WellFormed, SP!Route
<1>7. \A id \in new : /\ id \in Nat /\ id >= nextId /\ id < nextId'
                      /\ \E s \in routes' : s.id = id /\ s.run = r
  BY <1>5, <1>6 DEF IdsOf, OfRun
<1>8. new \in SUBSET Nat /\ new \subseteq 0 .. (nextId' - 1) /\ NoId \notin new
  BY <1>2, <1>3, <1>7 DEF NoId
<1>9. \A s \in routes' : s.id \in new => s.run = r
  BY <1>6, <1>7
<1> HIDE DEF new
<1>10. /\ refs \in [Runs -> SUBSET Nat] /\ todo \in [Runs -> SUBSET Nat] /\ todo[r] = {}
       /\ \A x \in Runs : refs[x] \subseteq 0 .. (nextId - 1)
       /\ pc \in [Runs -> Steps] /\ NoId \notin refs[r]
  BY <1>1 DEF OwnInv, OwnersInv, Own, IInv, ControlInv, Leased, Ended
<1>11. /\ refs'[r] = new /\ refs' \in [Runs -> SUBSET Nat] /\ pc'[r] = step
       /\ OthersRest(r)
  BY <1>1, <1>8, <1>10 DEF Goto, OthersRest
<1>12. Own(refs[r], r)'
  BY <1>8, <1>9, <1>11 DEF Own
<1>13. Known(r)'
  BY <1>1, <1>11 DEF Known, new
<1>14. \A x \in Runs : new \cap refs[x] = {}
  <2>1. \A id \in 0 .. (nextId - 1) : ~(id >= nextId)
    <3>1. nextId <= nextId
      BY <1>3
    <3>. QED  BY <1>3, <3>1, StillGiven
  <2>. QED  BY <1>7, <1>10, <2>1
<1>15. Spent
  BY <1>1, <1>2, BoundsAssumption DEF Spent, OwnInv, BoundsInv
<1>16. OwnInv'
  <2>1. pc[r] \notin After \cup Leased \cup Ended
    BY <1>1 DEF After, Leased, Ended
  <2>2. /\ todo' \in [Runs -> SUBSET Nat] /\ todo'[r] = {}
        /\ \A x \in Runs \ {r} : NoneFor(x)
        /\ \A x \in Runs \ {r} : refs'[r] \cap refs[x] \subseteq {NoId}
        /\ NoId \notin refs'[r]
    BY <1>1, <1>2, <1>8, <1>10, <1>11, <1>14
  <2>3. ~(pc[r] = "dead" \/ NoId \in refs[r])
    BY <1>1, <1>10
  <2>. QED  BY <1>1, <1>2, <1>11, <1>12, <1>13, <1>15, <2>1, <2>2, <2>3, OwnMoves
<1>17. ASSUME MaxMissed + 1 < LeaseTTL, LeaseInv
       PROVE  LeaseInv'
  <2>1. LeasedInv(r)'
    BY <1>11 DEF LeasedInv, Leased
  <2>2. ASSUME NEW id \in new
        PROVE  missed'[id] = 0 /\ id \notin seen
               /\ \A s \in routes' : s.id = id => s.state = "pending"
    <3>1. id \in nextId .. MaxId
      BY <1>2, <1>3, <1>7, <2>2, BoundsAssumption
    <3>2. missed'[id] = 0
      BY <1>15, <3>1 DEF Spent
    <3>3. id \notin seen
      <4>1. id \notin 1 .. (nextId - 1)
        BY <1>3, <1>7, <2>2
      <4>. QED  BY <4>1 DEF IInv, ControlInv
    <3>. QED  BY <1>5, <1>9, <2>2, <3>2, <3>3
  <2>3. PendingInv(r)'
    BY <1>1, <1>11, <2>2 DEF PendingInv
  <2>4. \A x \in Runs \ {r} : Rests(refs[x]) /\ Holds(refs[x])
    BY <1>2, <1>10
  <2>. QED  BY <1>1, <1>11, <1>17, <2>1, <2>3, <2>4, LeaseMoves
<1>. QED  BY <1>16, <1>17

\* Renewal: the lease is whole again.
LEMMA RenewOwn ==
  ASSUME IInv, OwnInv, NEW r \in Runs, NEW id \in todo[r], Renew(r, id)
  PROVE  OwnInv' /\ (MaxMissed + 1 < LeaseTTL /\ LeaseInv => LeaseInv')
<1>1. /\ pc[r] \in Leased /\ pc[r] \notin Ended /\ Store!Renew(r, {id})
      /\ todo' = [todo EXCEPT ![r] = @ \ {id}]
      /\ missed' = [missed EXCEPT ![id] = 0]
      /\ UNCHANGED <<pc, refs, late, seen, stopped>>
  BY DEF Renew, otherVars, Leased, Ended
<1>2. nextId' = nextId /\ TableInv /\ nextId \in Nat
  BY <1>1, Keeping, StoredIsRoutes DEF IInv
<1>3. /\ Traced /\ (\A x : NoneFor(x)) /\ (\A ids : Holds(ids))
      /\ \A x \in Runs : \A ids : x # r /\ Own(ids, x) => Rests(ids)
      /\ \A t \in routes : t.id \in {id} =>
           \E s \in routes' : Alike(s, t) /\ s.ttl = LeaseTTL
  BY <1>1, RenewEffect
<1>4. /\ refs \in [Runs -> SUBSET Nat] /\ todo \in [Runs -> SUBSET Nat]
      /\ NoId \notin refs[r] /\ todo[r] \subseteq refs[r] /\ id \in refs[r] /\ Known(r)
      /\ \A x \in Runs \ {r} : refs[r] \cap refs[x] \subseteq {NoId}
      /\ \A x \in Runs : Own(refs[x], x)
      /\ missed \in [1 .. MaxId -> 0 .. MaxMissed]
      /\ \A k \in nextId .. MaxId : missed[k] = 0
  BY <1>1 DEF OwnInv, OwnersInv, BoundsInv
<1>5. id \in 1 .. MaxId
  BY <1>1, <1>4, SlackIs
<1>6. OthersRest(r) /\ todo'[r] = todo[r] \ {id} /\ todo' \in [Runs -> SUBSET Nat]
  BY <1>1, <1>4 DEF OthersRest
<1>7. Spent
  <2>1. \A k \in 1 .. MaxId : missed'[k] = IF k = id THEN 0 ELSE missed[k]
    BY <1>1, <1>4
  <2>2. missed' \in [1 .. MaxId -> 0 .. MaxMissed]
    <3>1. 0 \in 0 .. MaxMissed
      BY BoundsAssumption
    <3>. QED  BY <1>1, <1>4, <3>1
  <2>3. \A k \in nextId .. MaxId : missed'[k] = 0
    BY <1>1, <1>4
  <2>. QED  BY <1>1, <1>2, <2>2, <2>3 DEF Spent, OwnInv, BoundsInv
<1>8. Own(refs[r], r)'
  <2>1. refs[r] \subseteq 0 .. (nextId' - 1) /\ \A s \in routes' : s.id \in refs[r] => s.run = r
    BY <1>2, <1>3, <1>4, <1>7, OwnKept DEF Spent
  <2>. QED  BY <1>1, <2>1 DEF Own
<1>9. Known(r)'
  BY <1>1, <1>3, <1>4 DEF Known, NoneFor, IdsOf, OfRun
<1>10. OwnInv'
  BY <1>1, <1>3, <1>4, <1>6, <1>7, <1>8, <1>9, OwnMoves
<1>11. ASSUME MaxMissed + 1 < LeaseTTL, LeaseInv
       PROVE  LeaseInv'
  <2>1. PendingInv(r)'
    BY <1>1 DEF PendingInv, Begun, Leased
  <2>2. ASSUME NEW k \in refs[r] \ stopped
        PROVE  k \notin seen /\ Lease(r, k)'
    <3>1. k \in 1 .. MaxId /\ Slack(r, k) \in Nat /\ k \notin seen /\ Lease(r, k)
      BY <1>1, <1>11, <2>2, SlackIs DEF LeaseInv, LeasedInv
    <3>2. CASE k # id
      <4>1. Slack(r, k)' = Slack(r, k)
        BY <1>1, <1>4, <1>6, <3>1, <3>2 DEF Slack
      <4>2. Holds({k}) /\ Slack(r, k)' \in Nat /\ Slack(r, k) <= Slack(r, k)'
        BY <1>3, <3>1, <4>1
      <4>. QED  BY <1>1, <1>11, <2>2, <3>1, <4>2, LeaseKept
    <3>3. CASE k = id
      <4>1. PICK t \in routes : t.id = k /\ t.run = r /\ t.state = "active"
        BY <3>1 DEF Lease
      <4>2. PICK s \in routes' : Alike(s, t) /\ s.ttl = LeaseTTL
        BY <1>3, <3>3, <4>1
      <4>3. missed'[k] = 0
        BY <1>1, <1>4, <3>1, <3>3
      <4>4. Slack(r, k)' \in Nat
        BY <4>3 DEF Slack
      <4>5. LeaseTTL <= s.ttl + Slack(r, k)'
        BY <4>2, <4>4, TTLAssumption
      <4>. QED  BY <3>1, <4>1, <4>2, <4>5 DEF Lease, Alike
    <3>. QED  BY <3>2, <3>3
  <2>3. LeasedInv(r)'
    BY <1>1, <2>2 DEF LeasedInv
  <2>4. \A x \in Runs \ {r} : Rests(refs[x]) /\ Holds(refs[x])
    BY <1>3, <1>4
  <2>5. \A k \in (1 .. MaxId) \ refs[r] : missed'[k] = missed[k]
    BY <1>1, <1>4
  <2>. QED  BY <1>1, <1>6, <1>11, <2>1, <2>3, <2>4, <2>5, LeaseMoves
<1>. QED  BY <1>10, <1>11

\* Release and deletion, answered or not.
LEMMA ReleaseOwn ==
  ASSUME IInv, OwnInv, NEW r \in Runs, Release(r)
  PROVE  OwnInv' /\ (MaxMissed + 1 < LeaseTTL /\ LeaseInv => LeaseInv')
<1>1. /\ pc[r] = "releasing" /\ Goto(r, "done")
      /\ \/ Store!Release(r, refs[r]) /\ refs' = [refs EXCEPT ![r] = {}]
         \/ UNCHANGED <<storeVars, refs>>
      /\ UNCHANGED <<todo, missed, late, seen, stopped>>
  BY DEF Release, otherVars
<1>2. /\ refs \in [Runs -> SUBSET Nat] /\ todo \in [Runs -> SUBSET Nat]
      /\ NoId \notin refs[r] /\ todo[r] = {}
      /\ pc \in [Runs -> Steps] /\ pc[r] \notin Ended
      /\ pc[r] \in After /\ "done" \in After \cap Ended /\ "done" \notin Leased
  BY <1>1 DEF OwnInv, OwnersInv, IInv, ControlInv, Ended, Leased, After
<1>3. CASE UNCHANGED <<storeVars, refs>>
  <2>1. OwnInv' /\ OthersRest(r) /\ pc'[r] = "done"
    BY <1>1, <1>2, <1>3, OwnWalks
  <2>2. \A ids : Rests(ids) /\ Holds(ids)
    BY <1>3, UnchangedEffect DEF storeVars
  <2>. QED  BY <1>1, <1>2, <2>1, <2>2, LeaseEnds
<1>4. CASE Store!Release(r, refs[r]) /\ refs' = [refs EXCEPT ![r] = {}]
  <2>1. /\ refs[r] = IdsOf(OfRun(routes, r)) /\ routes' = Without(routes, refs[r])
        /\ nextId' = nextId
    BY <1>4, StoredIsRoutes DEF IInv, Store!Release, Store!CanRelease, Store!Update,
       Store!IdsOf, Store!OfRun, Store!Without, IdsOf, OfRun, Without
  <2>2. /\ Traced /\ (\A x : NoneFor(x)) /\ (\A ids : Rests(ids))
        /\ \A ids : ids \cap refs[r] = {} => Holds(ids)
    BY <2>1, WithoutEffect
  <2>3. refs'[r] = {} /\ refs' \in [Runs -> SUBSET Nat] /\ OthersRest(r) /\ pc'[r] = "done"
    BY <1>1, <1>2, <1>4 DEF Goto, OthersRest
  <2>4. Own(refs[r], r)'
    BY <2>3 DEF Own
  <2>5. Known(r)'
    BY <2>1, <2>3 DEF Known, Without, IdsOf, OfRun
  <2>6. Spent
    BY <1>1, <2>1, SpentSame
  <2>7. OwnInv'
    BY <1>1, <1>2, <2>2, <2>3, <2>4, <2>5, <2>6, OwnMoves
  <2>8. \A x \in Runs \ {r} : Holds(refs[x])
    <3>1. \A t \in routes : t.id # NoId
      BY DEF IInv, TableInv, Tabled
    <3>2. \A x \in Runs \ {r} : \A t \in routes : t.id \in refs[x] => t.id \notin refs[r]
      BY <3>1 DEF OwnInv, OwnersInv
    <3>. QED  BY <2>1, <3>2 DEF Holds, Without, Alike
  <2>. QED  BY <1>1, <1>2, <2>2, <2>3, <2>7, <2>8, LeaseEnds
<1>. QED  BY <1>1, <1>3, <1>4

LEMMA DeleteOwn ==
  ASSUME IInv, OwnInv, NEW r \in Runs, NEW id \in todo[r], Delete(r, id)
  PROVE  OwnInv' /\ (MaxMissed + 1 < LeaseTTL /\ LeaseInv => LeaseInv')
<1>1. /\ pc[r] = "deleting"
      /\ refs' = [refs EXCEPT ![r] = @ \ {id}]
      /\ todo' = [todo EXCEPT ![r] = @ \ {id}]
      /\ UNCHANGED <<pc, missed, late, seen, stopped>>
  BY DEF Delete, otherVars
<1>2. /\ refs \in [Runs -> SUBSET Nat] /\ todo \in [Runs -> SUBSET Nat]
      /\ Own(refs[r], r) /\ Known(r)
      /\ NoId \notin refs[r] /\ todo[r] \subseteq refs[r] /\ id \in refs[r]
      /\ pc[r] \notin Ended \cup Leased /\ pc[r] \in After
      /\ \A x \in Runs \ {r} : refs[r] \cap refs[x] \subseteq {NoId}
  BY <1>1 DEF OwnInv, OwnersInv, Ended, Leased, After
<1>3. Store!Stored = routes /\ Store!NextFresh = nextId /\ nextId \in Nat
  BY StoredIsRoutes DEF IInv
<1>4. routes' = Without(routes, {id}) /\ nextId' = nextId
  <2>1. CASE Store!DeleteRouteRef(id)
    BY <1>3, <2>1 DEF Store!DeleteRouteRef, Store!Update, Store!Without, Without
  <2>2. CASE Gone(id)
    BY <1>3, <2>2 DEF Gone, storeVars, Without, IdsOf
  <2>. QED  BY <2>1, <2>2 DEF Delete
<1>5. /\ Traced /\ (\A x : NoneFor(x)) /\ (\A ids : Rests(ids))
      /\ \A ids : ids \cap {id} = {} => Holds(ids)
  BY <1>4, WithoutEffect
<1>6. /\ refs'[r] = refs[r] \ {id} /\ todo'[r] = todo[r] \ {id}
      /\ refs' \in [Runs -> SUBSET Nat] /\ todo' \in [Runs -> SUBSET Nat]
      /\ OthersRest(r)
  BY <1>1, <1>2 DEF OthersRest
<1>7. Spent
  BY <1>1, <1>4, SpentSame
<1>8. Own(refs[r], r)'
  <2>1. refs[r] \subseteq 0 .. (nextId' - 1) /\ \A s \in routes' : s.id \in refs[r] => s.run = r
    BY <1>2, <1>3, <1>5, <1>7, OwnKept DEF Spent
  <2>. QED  BY <1>6, <2>1 DEF Own
<1>9. Known(r)'
  BY <1>1, <1>2, <1>4, <1>6 DEF Known, Without, IdsOf, OfRun, Ended
<1>10. OwnInv'
  BY <1>1, <1>2, <1>5, <1>6, <1>7, <1>8, <1>9, OwnMoves
<1>11. \A x \in Runs \ {r} : Holds(refs[x])
  <2>1. \A t \in routes : t.id # NoId
    BY DEF IInv, TableInv, Tabled
  <2>2. \A x \in Runs \ {r} : \A t \in routes : t.id \in refs[x] => t.id # id
    BY <1>2, <2>1 DEF NoId
  <2>. QED  BY <1>4, <2>2 DEF Holds, Without, Alike
<1>. QED  BY <1>1, <1>2, <1>5, <1>6, <1>10, <1>11, LeaseEnds

LEMMA GivingUpOwn ==
  ASSUME IInv, OwnInv, NEW r \in Runs,
         GiveUpRelease(r) \/ Finish(r) \/ \E id \in todo[r] : GiveUpDelete(r, id)
  PROVE  OwnInv' /\ (MaxMissed + 1 < LeaseTTL /\ LeaseInv => LeaseInv')
<1>1. /\ UNCHANGED <<storeVars, refs, missed, seen, stopped>>
      /\ pc[r] \in {"releasing", "deleting"}
  BY DEF GiveUpRelease, Finish, GiveUpDelete, otherVars
<1>2. pc[r] \in After /\ pc[r] \notin Ended \cup Leased /\ "done" \in After /\ "done" \notin Leased
  BY <1>1 DEF After, Ended, Leased
<1>3. \A ids : Rests(ids) /\ Holds(ids)
  BY <1>1, UnchangedEffect DEF storeVars
<1>4. CASE GiveUpRelease(r) \/ Finish(r)
  <2>1. Goto(r, "done") /\ todo[r] = {} /\ todo' = todo
    BY <1>4 DEF GiveUpRelease, Finish, OwnInv, OwnersInv, Leased
  <2>2. \A q \in late' : q \in late \/ (q \in Asked(r) /\ q.op # "reserve")
    <3>1. \A q \in late' : q \in late \/ q \in Asked(r)
      BY <1>4, Abandoned DEF GiveUpRelease, Finish
    <3>. QED  BY <1>1, <1>2, <3>1, AskedOwn
  <2>3. OwnInv' /\ OthersRest(r) /\ pc'[r] = "done"
    BY <1>1, <1>2, <2>1, <2>2, OwnWalks
  <2>. QED  BY <1>1, <1>2, <1>3, <2>3, LeaseEnds
<1>5. ASSUME NEW id \in todo[r], GiveUpDelete(r, id)
      PROVE  OwnInv' /\ (MaxMissed + 1 < LeaseTTL /\ LeaseInv => LeaseInv')
  <2>1. /\ todo' = [todo EXCEPT ![r] = @ \ {id}] /\ UNCHANGED pc /\ pc[r] = "deleting"
    BY <1>5 DEF GiveUpDelete
  <2>2. /\ refs \in [Runs -> SUBSET Nat] /\ todo \in [Runs -> SUBSET Nat]
        /\ todo[r] \subseteq refs[r]
    BY DEF OwnInv, OwnersInv
  <2>3. todo'[r] \subseteq refs[r] /\ todo' \in [Runs -> SUBSET Nat] /\ OthersRest(r)
    BY <1>1, <2>1, <2>2 DEF OthersRest
  <2>4. \A q \in late' : q \in late \/ (q \in Asked(r) /\ q.op = "delete")
    BY <1>5, <2>1, Abandoned DEF GiveUpDelete, Asked, Each, Request, Leased
  <2>5. Spent
    BY <1>1, SpentSame DEF storeVars
  <2>6. OwnInv'
    BY <1>1, <1>2, <2>1, <2>2, <2>3, <2>4, <2>5, OwnAside
  <2>. QED  BY <1>1, <1>2, <1>3, <2>1, <2>3, <2>6, LeaseEnds
<1>. QED  BY <1>4, <1>5

-----------------------------------------------------------------------------
(* The actions of no run: late requests, gohere prune, gohere stop and time *)

LEMMA OwnStays ==
  ASSUME IInv, OwnInv, Traced, Spent, UNCHANGED <<pc, refs>>, late' \subseteq late,
         todo' \in [Runs -> SUBSET Nat],
         \A x \in Runs : /\ todo'[x] \subseteq refs[x] \ {NoId}
                         /\ pc[x] \notin Leased \cup {"deleting"} => todo'[x] = {}
                         /\ NoneFor(x) \/ pc[x] = "dead" \/ NoId \in refs[x]
  PROVE  OwnInv'
<1>1. nextId \in Nat
  BY StoredIsRoutes DEF IInv
<1>2. ASSUME NEW x \in Runs
      PROVE  Own(refs[x], x)' /\ Known(x)'
  <2>1. Own(refs[x], x) /\ Known(x)
    BY DEF OwnInv, OwnersInv
  <2>2. refs[x] \subseteq 0 .. (nextId' - 1) /\ \A s \in routes' : s.id \in refs[x] => s.run = x
    BY <1>1, <2>1, OwnKept DEF Spent
  <2>3. Known(x)'
    BY <2>1 DEF Known, NoneFor, IdsOf, OfRun
  <2>. QED  BY <2>2, <2>3 DEF Own
<1>3. OwnersInv'
  BY <1>2 DEF OwnInv, OwnersInv
<1>4. ASSUME NEW q \in late'
      PROVE  /\ Own(q.refs, q.run)' /\ NoId \notin q.refs
             /\ pc'[q.run] \in After \/ (q.op = "renew" /\ pc'[q.run] \in Leased)
             /\ q.op = "reserve" => pc'[q.run] = "dead" \/ NoId \in refs'[q.run]
  <2>1. /\ Own(q.refs, q.run) /\ NoId \notin q.refs
        /\ pc[q.run] \in After \/ (q.op = "renew" /\ pc[q.run] \in Leased)
        /\ q.op = "reserve" => pc[q.run] = "dead" \/ NoId \in refs[q.run]
    BY <1>4 DEF OwnInv, RequestsInv
  <2>2. Own(q.refs, q.run)'
    BY <1>1, <2>1, OwnKept DEF Spent, Own
  <2>. QED  BY <2>1, <2>2
<1>5. RequestsInv'
  BY <1>4 DEF RequestsInv
<1>6. BoundsInv'
  <2>1. (nextId' .. MaxId) \subseteq (nextId .. MaxId)
    BY <1>1, BoundsAssumption DEF Spent
  <2>2. stopped' \subseteq 1 .. (nextId' - 1)
    BY <1>1, SeenKnown DEF Spent
  <2>. QED  BY <2>1, <2>2 DEF Spent, BoundsInv
<1>. QED  BY <1>2, <1>3, <1>5, <1>6 DEF OwnInv

LEMMA LeaseStays ==
  ASSUME MaxMissed + 1 < LeaseTTL, IInv, OwnInv, LeaseInv,
         UNCHANGED <<pc, refs, todo, missed>>, seen' \subseteq seen, stopped \subseteq stopped',
         \A x \in Runs : Begun(x) => Rests(refs[x]),
         \A x \in Runs : pc[x] \in Leased =>
            \A id \in refs[x] \ stopped' : id \notin seen => Holds({id})
  PROVE  LeaseInv'
<1> SUFFICES ASSUME NEW x \in Runs PROVE PendingInv(x)' /\ LeasedInv(x)'
  BY DEF LeaseInv
<1>1. PendingInv(x)'
  BY PendingKept DEF LeaseInv, Begun
<1>2. ASSUME pc[x] \in Leased, NEW id \in refs[x] \ stopped'
      PROVE  /\ Holds({id}) /\ (id \in seen' => id \in seen)
             /\ Slack(x, id)' \in Nat /\ Slack(x, id) <= Slack(x, id)'
  <2>1. Slack(x, id) \in Nat
    BY <1>2, SlackIs DEF Leased, Ended
  <2>2. id \notin seen
    BY <1>2 DEF LeaseInv, LeasedInv
  <2>. QED  BY <1>2, <2>1, <2>2 DEF Slack
<1>3. LeasedInv(x)'
  BY <1>2, LeasedKept DEF LeaseInv
<1>. QED  BY <1>1, <1>3

\* A request that is late renews a lease or comes from a run that has ended.
LEMMA ServingLateOwn ==
  ASSUME IInv, OwnInv, NEW q \in late, ServeLate(q)
  PROVE  OwnInv' /\ (MaxMissed + 1 < LeaseTTL /\ LeaseInv => LeaseInv')
<1>1. /\ UNCHANGED <<pc, refs, todo, missed, seen, stopped>> /\ late' = late \ {q}
      /\ Served(q) \/ UNCHANGED storeVars
  BY DEF ServeLate, runVars, otherVars
<1>2. /\ q.run \in Runs /\ Own(q.refs, q.run) /\ NoId \notin q.refs
      /\ pc[q.run] \in After \/ (q.op = "renew" /\ pc[q.run] \in Leased)
      /\ q.op = "reserve" => pc[q.run] = "dead" \/ NoId \in refs[q.run]
  BY DEF OwnInv, RequestsInv, IInv, ControlInv, LateInv
<1>3. /\ \A x \in Runs : Own(refs[x], x) /\ refs[x] \subseteq 0 .. (nextId - 1)
      /\ todo \in [Runs -> SUBSET Nat]
      /\ \A x \in Runs : /\ todo[x] \subseteq refs[x] \ {NoId}
                         /\ pc[x] \notin Leased \cup {"deleting"} => todo[x] = {}
  BY DEF OwnInv, OwnersInv, Own
<1>4. ASSUME Traced, nextId' \in Nat, nextId <= nextId', nextId' <= MaxId + 1,
             \A x \in Runs : NoneFor(x) \/ pc[x] = "dead" \/ NoId \in refs[x]
      PROVE  OwnInv'
  <2>1. Spent
    BY <1>1, <1>4 DEF Spent, OwnInv, BoundsInv
  <2>. QED  BY <1>1, <1>3, <1>4, <2>1, OwnStays
<1>5. ASSUME \A x \in Runs : pc[x] \notin After => /\ x # q.run => Rests(refs[x])
                                                   /\ Holds(refs[x]),
             pc[q.run] \notin After => q.op = "renew"
      PROVE  MaxMissed + 1 < LeaseTTL /\ LeaseInv => LeaseInv'
  <2>1. \A x \in Runs : pc[x] \in Leased => pc[x] \notin After /\ ~Begun(x)
    BY DEF Leased, After, Ended, Begun
  <2>2. \A x \in Runs : Begun(x) => pc[x] \notin After /\ x # q.run
    BY <1>2, <2>1 DEF After, Ended, Begun
  <2>3. \A x \in Runs : Begun(x) => Rests(refs[x])
    BY <1>5, <2>2
  <2>4. \A x \in Runs : pc[x] \in Leased => \A id \in refs[x] \ stopped' : Holds({id})
    BY <1>5, <2>1 DEF Holds
  <2>. QED  BY <1>1, <2>3, <2>4, LeaseStays
<1>6. nextId \in Nat /\ nextId <= MaxId + 1 /\ MaxId \in Nat
  BY StoredIsRoutes, BoundsAssumption DEF IInv, OwnInv, BoundsInv
<1>7. CASE q.op = "reserve" /\ Store!Reserve(q.run, Services[q.run])
  <2>1. /\ Traced /\ (\A x : x # q.run => NoneFor(x))
        /\ \A ids : ids \subseteq 0 .. (nextId - 1) => Rests(ids)
        /\ \A ids : Holds(ids)
        /\ nextId' \in Nat /\ nextId <= nextId' /\ nextId' <= MaxId
    BY <1>2, <1>7, ReserveEffect
  <2>2. pc[q.run] \in After
    BY <1>2, <1>7
  <2>. QED  BY <1>2, <1>3, <1>4, <1>5, <1>6, <1>7, <2>1, <2>2
<1>8. CASE q.op = "activate" /\ Store!Activate(q.run, q.refs)
  <2>1. /\ Traced /\ (\A x : NoneFor(x))
        /\ \A x \in Runs : \A ids : x # q.run /\ Own(ids, x) => Rests(ids) /\ Holds(ids)
    BY <1>2, <1>8, ActivateEffect
  <2>2. nextId' = nextId
    BY <1>2, <1>8, Activating DEF IInv
  <2>3. pc[q.run] \in After
    BY <1>2, <1>8
  <2>. QED  BY <1>3, <1>4, <1>5, <1>6, <2>1, <2>2, <2>3
<1>9. CASE q.op = "renew" /\ Store!Renew(q.run, q.refs)
  <2>1. /\ Traced /\ (\A x : NoneFor(x)) /\ (\A ids : Holds(ids))
        /\ \A x \in Runs : \A ids : x # q.run /\ Own(ids, x) => Rests(ids)
    BY <1>2, <1>9, RenewEffect
  <2>2. nextId' = nextId
    BY <1>2, <1>9, Keeping DEF IInv
  <2>. QED  BY <1>3, <1>4, <1>5, <1>6, <1>9, <2>1, <2>2
<1>10. ASSUME NEW gone, routes' = Without(routes, gone), nextId' = nextId,
              \A t \in routes : t.id \in gone => t.run = q.run, q.op # "renew"
       PROVE  OwnInv' /\ (MaxMissed + 1 < LeaseTTL /\ LeaseInv => LeaseInv')
  <2>1. Traced /\ (\A x : NoneFor(x)) /\ (\A ids : Rests(ids))
    BY <1>10, WithoutEffect
  <2>2. pc[q.run] \in After
    BY <1>2, <1>10
  <2>3. \A x \in Runs \ {q.run} : Holds(refs[x])
    BY <1>3, <1>10 DEF Holds, Without, Own, Alike
  <2>. QED  BY <1>4, <1>5, <1>6, <1>10, <2>1, <2>2, <2>3
<1>11. CASE q.op = "release" /\ Store!Release(q.run, q.refs)
  <2>1. routes' = Without(routes, q.refs) /\ nextId' = nextId
    BY <1>11, StoredIsRoutes DEF IInv, Store!Release, Store!Update, Store!Without, Without
  <2>. QED  BY <1>2, <1>10, <1>11, <2>1 DEF Own
<1>12. CASE q.op = "delete" /\ \E id \in q.refs : Store!DeleteRouteRef(id)
  <2>1. PICK id \in q.refs : Store!DeleteRouteRef(id)
    BY <1>12
  <2>2. routes' = Without(routes, {id}) /\ nextId' = nextId
    BY <2>1, StoredIsRoutes DEF IInv, Store!DeleteRouteRef, Store!Update, Store!Without, Without
  <2>. QED  BY <1>2, <1>10, <1>12, <2>2 DEF Own
<1>13. CASE UNCHANGED storeVars
  <2>1. Traced /\ (\A x : NoneFor(x)) /\ (\A ids : Rests(ids) /\ Holds(ids)) /\ nextId' = nextId
    BY <1>13, UnchangedEffect DEF storeVars
  <2>2. \A x \in Runs : Begun(x) => Rests(refs[x])
    BY <2>1
  <2>3. \A x \in Runs : pc[x] \in Leased =>
          \A id \in refs[x] \ stopped' : id \notin seen => Holds({id})
    BY <2>1
  <2>. QED  BY <1>1, <1>4, <1>6, <2>1, <2>2, <2>3, LeaseStays
<1>. QED  BY <1>1, <1>7, <1>8, <1>9, <1>11, <1>12, <1>13 DEF Served

\* A prune that looks around finds no lease that is held.
LEMMA LookingOwn ==
  ASSUME IInv, OwnInv, LookAround
  PROVE  OwnInv' /\ (MaxMissed + 1 < LeaseTTL /\ LeaseInv => LeaseInv')
<1>1. UNCHANGED <<storeVars, pc, refs, todo, missed, late, stopped>>
  BY DEF LookAround, runVars
<1>2. Traced /\ (\A x : NoneFor(x)) /\ (\A ids : Rests(ids) /\ Holds(ids))
  BY <1>1, UnchangedEffect DEF storeVars
<1>3. OwnInv'
  BY <1>1, <1>2, OwnStays, SpentSame DEF storeVars, OwnInv, OwnersInv
<1>4. PICK found \in SUBSET {t \in routes : Prunable(t)} : seen' = IdsOf(found)
  BY DEF LookAround
<1>5. \A id \in seen' : \E t \in routes : t.id = id /\ Prunable(t)
  BY <1>4 DEF IdsOf
<1>6. \A s, t \in routes : s.id = t.id => s = t
  BY StoredIsRoutes DEF IInv
<1>7. ASSUME MaxMissed + 1 < LeaseTTL, LeaseInv, NEW x \in Runs
      PROVE  PendingInv(x)' /\ LeasedInv(x)'
  <2>1. ASSUME Begun(x), NEW id \in refs[x], NEW t \in routes, t.id = id, id \in seen'
        PROVE  Expired(t)
    <3>1. Prunable(t)
      BY <1>5, <1>6, <2>1
    <3>2. t.state = "pending"
      BY <1>7, <2>1 DEF LeaseInv, PendingInv
    <3>. QED  BY <3>1, <3>2 DEF Prunable, MayBeDead
  <2>2. PendingInv(x)'
    BY <1>1, <1>7, <2>1 DEF PendingInv, LeaseInv, Begun, storeVars, Expired
  <2>3. ASSUME pc[x] \in Leased, NEW id \in refs[x] \ stopped
        PROVE  id \notin seen' /\ Lease(x, id)
    <3>1. Lease(x, id)
      BY <1>7, <2>3 DEF LeaseInv, LeasedInv
    <3>2. PICK t \in routes : /\ t.id = id /\ t.run = x /\ t.state = "active"
                              /\ LeaseTTL <= t.ttl + Slack(x, id)
      BY <3>1 DEF Lease
    <3>3. ~Expired(t)
      BY <1>7, <2>3, <3>2, LeaseLasts
    <3>4. ~Prunable(t)
      BY <2>3, <3>2, <3>3 DEF Prunable, MayBeDead
    <3>. QED  BY <1>5, <1>6, <3>1, <3>2, <3>4
  <2>4. LeasedInv(x)'
    BY <1>1, <2>3 DEF LeasedInv, Lease, Slack, storeVars
  <2>. QED  BY <2>2, <2>4
<1>. QED  BY <1>3, <1>7 DEF LeaseInv

\* What it found dead it removes, and gohere stop what it was told to.
LEMMA RemovingOwn ==
  ASSUME IInv, OwnInv,
         PruneAll \/ (\E id \in seen : PruneOne(id)) \/ \E id \in IdsOf(routes) : Stop(id)
  PROVE  OwnInv' /\ (MaxMissed + 1 < LeaseTTL /\ LeaseInv => LeaseInv')
<1>1. /\ UNCHANGED <<pc, refs, todo, missed, late>>
      /\ seen' \subseteq seen /\ stopped \subseteq stopped'
  BY DEF PruneAll, PruneOne, Stop, runVars
<1>2. Store!Stored = routes /\ Store!NextFresh = nextId /\ nextId \in Nat
      /\ IdsOf(routes) \subseteq 1 .. (nextId - 1)
  BY StoredIsRoutes DEF IInv
<1>3. PICK gone : /\ routes' = Without(routes, gone) /\ nextId' = nextId
                  /\ gone \subseteq seen \cup stopped'
                  /\ stopped' \subseteq stopped \cup IdsOf(routes)
  <2>1. CASE PruneAll
    BY <1>2, <2>1 DEF PruneAll, Store!RemoveRefs, Store!Update, Store!Without, Without
  <2>2. ASSUME NEW id \in seen, PruneOne(id)
        PROVE  /\ routes' = Without(routes, {id}) /\ nextId' = nextId /\ stopped' = stopped
    <3>1. CASE Store!DeleteRouteRef(id)
      BY <1>2, <2>2, <3>1 DEF PruneOne, Store!DeleteRouteRef, Store!Update, Store!Without, Without
    <3>2. CASE Gone(id)
      BY <1>2, <2>2, <3>2 DEF PruneOne, Gone, storeVars, Without, IdsOf
    <3>. QED  BY <2>2, <3>1, <3>2 DEF PruneOne
  <2>3. ASSUME NEW id \in IdsOf(routes), Stop(id)
        PROVE  /\ routes' = Without(routes, {id}) /\ nextId' = nextId
               /\ stopped' = stopped \cup {id}
    BY <1>2, <2>3 DEF Stop, Store!DeleteRouteRef, Store!Update, Store!Without, Without
  <2>4. CASE \E id \in seen : PruneOne(id)
    BY <2>2, <2>4
  <2>5. CASE \E id \in IdsOf(routes) : Stop(id)
    BY <2>3, <2>5
  <2>. QED  BY <2>1, <2>4, <2>5
<1>4. /\ Traced /\ (\A x : NoneFor(x)) /\ (\A ids : Rests(ids))
      /\ \A ids : ids \cap gone = {} => Holds(ids)
  BY <1>3, WithoutEffect
<1>5. Spent
  BY <1>1, <1>2, <1>3 DEF Spent, OwnInv, BoundsInv
<1>6. OwnInv'
  BY <1>1, <1>4, <1>5, OwnStays DEF OwnInv, OwnersInv
<1>7. \A id : id \notin seen /\ id \notin stopped' => Holds({id})
  BY <1>3, <1>4
<1>. QED  BY <1>1, <1>4, <1>6, <1>7, LeaseStays

\* Time takes a unit from each lease, and each becomes due.
LEMMA TickOwn ==
  ASSUME IInv, OwnInv, Tick
  PROVE  OwnInv' /\ (MaxMissed + 1 < LeaseTTL /\ LeaseInv => LeaseInv')
<1>1. /\ UNCHANGED <<nextId, pc, refs, missed, late, seen, stopped>>
      /\ todo' = [r \in Runs |-> IF pc[r] \in Leased THEN refs[r] ELSE todo[r]]
      /\ \A r \in Runs : pc[r] \in Leased => todo[r] = {}
      /\ routes' = {Aged(t) : t \in routes}
  BY DEF Tick, Store!Tick, Store!Aged, Aged, otherVars
<1>2. routes \subseteq Route /\ LeaseTTL \in Nat
  BY StoredIsRoutes, TTLAssumption DEF IInv
<1>3. \A t \in routes : /\ Alike(Aged(t), t)
                        /\ t.ttl \in Nat \cup {-1}
                        /\ Aged(t).ttl = IF t.ttl > 0 THEN t.ttl - 1 ELSE t.ttl
  BY <1>2 DEF Aged, Alike, Route, NoExpiry
<1>4. Traced /\ \A x : NoneFor(x)
  BY <1>1, <1>3 DEF Traced, NoneFor, Alike
<1>5. Spent
  BY <1>1, SpentSame
<1>6. /\ todo' \in [Runs -> SUBSET Nat]
      /\ \A x \in Runs : /\ todo'[x] \subseteq refs[x] \ {NoId}
                         /\ pc[x] \notin Leased \cup {"deleting"} => todo'[x] = {}
  BY <1>1 DEF OwnInv, OwnersInv, Leased, Ended
<1>7. OwnInv'
  BY <1>1, <1>4, <1>5, <1>6, OwnStays
<1>8. ASSUME MaxMissed + 1 < LeaseTTL, LeaseInv, NEW x \in Runs
      PROVE  PendingInv(x)' /\ LeasedInv(x)'
  <2>1. ASSUME Begun(x), NEW id \in refs[x], NEW s \in routes', s.id = id
        PROVE  s.state = "pending" /\ (id \in seen => Expired(s))
    <3>1. PICK t \in routes : s = Aged(t)
      BY <1>1
    <3>2. t.state = "pending" /\ (id \in seen => Expired(t))
      BY <1>3, <1>8, <2>1, <3>1 DEF LeaseInv, PendingInv, Alike
    <3>. QED  BY <1>3, <3>1, <3>2 DEF Expired, Alike
  <2>2. PendingInv(x)'
    BY <1>1, <1>8, <2>1 DEF PendingInv, LeaseInv, Begun, Expired
  <2>3. ASSUME pc[x] \in Leased, NEW id \in refs[x] \ stopped
        PROVE  id \notin seen /\ Lease(x, id)'
    <3>1. id \notin seen /\ Lease(x, id)
      BY <1>8, <2>3 DEF LeaseInv, LeasedInv
    <3>2. PICK t \in routes : /\ t.id = id /\ t.run = x /\ t.state = "active"
                              /\ LeaseTTL <= t.ttl + Slack(x, id)
      BY <3>1 DEF Lease
    <3>3. t.ttl \in Nat /\ t.ttl > 0 /\ id \in 1 .. MaxId
      BY <1>8, <2>3, <3>2, LeaseLasts
    <3>4. missed[id] \in Nat
      BY <3>3, BoundsAssumption DEF OwnInv, BoundsInv
    <3>5. Slack(x, id) = missed[id] /\ Slack(x, id)' = missed[id] + 1
      BY <1>1, <2>3, <3>4 DEF Slack
    <3>6. LeaseTTL <= Aged(t).ttl + Slack(x, id)'
      BY <1>2, <1>3, <3>2, <3>3, <3>4, <3>5
    <3>. QED  BY <1>1, <1>3, <3>1, <3>2, <3>6 DEF Lease, Alike
  <2>4. LeasedInv(x)'
    BY <1>1, <2>3 DEF LeasedInv
  <2>. QED  BY <2>2, <2>4
<1>. QED  BY <1>7, <1>8 DEF LeaseInv

-----------------------------------------------------------------------------

LEMMA InitOwn == Init => OwnInv /\ LeaseInv
<1> SUFFICES ASSUME Init PROVE OwnInv /\ LeaseInv
  OBVIOUS
<1>1. /\ routes = {} /\ nextId = 1 /\ late = {} /\ seen = {} /\ stopped = {}
      /\ refs = [r \in Runs |-> {}] /\ todo = [r \in Runs |-> {}]
      /\ pc = [r \in Runs |-> "start"] /\ missed = [id \in 1 .. MaxId |-> 0]
  BY DEF Init, Store!Init
<1>2. OwnersInv /\ RequestsInv
  BY <1>1 DEF OwnersInv, RequestsInv, Own, Leased
<1>3. \A r \in Runs : Known(r)
  BY <1>1 DEF Known, OfRun, IdsOf
<1>4. BoundsInv
  BY <1>1, BoundsAssumption DEF BoundsInv
<1>5. LeaseInv
  BY <1>1 DEF LeaseInv, PendingInv, LeasedInv, Begun, Leased
<1>. QED  BY <1>2, <1>3, <1>4, <1>5 DEF OwnInv

\* Every step keeps the owners, and the leases if they are long enough.
LEMMA EveryStepOwn ==
  IInv /\ OwnInv /\ [Next]_vars
      => OwnInv' /\ (MaxMissed + 1 < LeaseTTL /\ LeaseInv => LeaseInv')
<1> SUFFICES ASSUME IInv, OwnInv, [Next]_vars
             PROVE  OwnInv' /\ (MaxMissed + 1 < LeaseTTL /\ LeaseInv => LeaseInv')
  OBVIOUS
<1>1. ASSUME NEW r \in Runs, RunStep(r)
      PROVE  OwnInv' /\ (MaxMissed + 1 < LeaseTTL /\ LeaseInv => LeaseInv')
  <2>1. CASE \E id \in todo[r] : RenewConflicts(r, id) \/ MissRenewal(r, id)
    BY <2>1, MissingOwn, MissingLease
  <2>2. CASE \E id \in todo[r] : Renew(r, id)
    BY <2>2, RenewOwn
  <2>3. CASE Cleaning(r)
    BY <2>3, ReleaseOwn, DeleteOwn, GivingUpOwn DEF Cleaning
  <2>. QED  BY <1>1, <2>1, <2>2, <2>3, StartupOwn, ReserveOwn, ActivateOwn, EndingOwn
            DEF RunStep, Renewal
<1>2. CASE UNCHANGED vars
  BY <1>2 DEF vars, OwnInv, OwnersInv, RequestsInv, BoundsInv, Known, Own,
     LeaseInv, PendingInv, LeasedInv, Begun, Lease, Slack, OfRun, IdsOf, Expired
<1>. QED  BY <1>1, <1>2, ServingLateOwn, LookingOwn, RemovingOwn, TickOwn DEF Next

\* A run that ended having seen all its routes removed leaves none behind: its
\* cleanup in planned.go, group.go and detected.go need not look again, for no
\* late activation or renewal brings a route back.
THEOREM CleanExits == Spec => []CleanExit
<1>1. OwnInv => CleanExit
  BY DEF OwnInv, Known, CleanExit, OfRun, IdsOf
<1>. QED  BY InitIInv, InitOwn, EveryStep, EveryStepOwn, <1>1, PTL DEF Spec

\* If a lease outlasts the renewals that may be missed in a row, by one unit for
\* the one that is due (startReservationLease renews at a third of it), a live
\* run keeps every route it announced, as long as nobody stops it.
THEOREM LiveRunsKeepRoutes ==
  ASSUME MaxMissed + 1 < LeaseTTL
  PROVE  Spec => []LiveRunKeepsRoutes
<1>1. IInv /\ OwnInv => TypeOK
  <2> SUFFICES ASSUME IInv, OwnInv PROVE TypeOK
    OBVIOUS
  <2>1. Store!TypeOK
    BY DEF IInv, TableInv, Tabled, SP!WellFormed, Store!TypeOK, SP!Route, Store!Route,
       SP!States, Store!States, SP!ShareStates, Store!ShareStates, SP!NoExpiry, Store!NoExpiry
  <2>2. nextId \in Nat /\ nextId <= MaxId + 1
    BY <2>1 DEF Store!TypeOK, OwnInv, BoundsInv
  <2>3. (0 .. (nextId - 1)) \subseteq (0 .. MaxId) /\ (1 .. (nextId - 1)) \subseteq (1 .. MaxId)
    BY <2>2, BoundsAssumption
  <2>4. (0 .. MaxId) \ {NoId} \subseteq 1 .. MaxId
    BY BoundsAssumption DEF NoId
  <2>5. \A r \in Runs : refs[r] \subseteq 0 .. MaxId /\ todo[r] \subseteq 1 .. MaxId
    BY <2>3, <2>4 DEF OwnInv, OwnersInv, Own
  <2>6. refs \in [Runs -> SUBSET (0 .. MaxId)] /\ todo \in [Runs -> SUBSET (1 .. MaxId)]
    BY <2>5 DEF OwnInv, OwnersInv
  <2>7. \A q \in late : q.run \in Runs /\ q.refs \subseteq 1 .. MaxId
    BY <2>3, <2>4 DEF OwnInv, RequestsInv, Own, IInv, ControlInv, LateInv
  <2>8. seen \cup stopped \subseteq 1 .. MaxId
    BY <2>3 DEF OwnInv, BoundsInv, IInv, ControlInv
  <2>. QED  BY <2>1, <2>6, <2>7, <2>8 DEF TypeOK, OwnInv, BoundsInv, IInv, ControlInv
<1>2. IInv /\ OwnInv /\ LeaseInv => LiveRunKeepsRoutes
  <2> SUFFICES ASSUME IInv, OwnInv, LeaseInv, NEW r \in Runs, pc[r] \in Leased,
                      NEW id \in refs[r] \ stopped
               PROVE  \E t \in routes : /\ t.id = id /\ t.run = r
                                        /\ t.state = "active" /\ ~Expired(t)
    BY <1>1 DEF LiveRunKeepsRoutes
  <2>. QED  BY LeaseLasts DEF LeaseInv, LeasedInv, Lease
<1>3. MaxMissed + 1 < LeaseTTL
  OBVIOUS
<1>4. IInv /\ OwnInv /\ LeaseInv /\ [Next]_vars => OwnInv' /\ LeaseInv'
  BY <1>3, EveryStepOwn
<1>. QED  BY InitIInv, InitOwn, EveryStep, <1>2, <1>4, PTL DEF Spec

=============================================================================
