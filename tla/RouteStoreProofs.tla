-------------------------- MODULE RouteStoreProofs --------------------------
(***************************************************************************)
(* The invariants of RouteStore hold for any number of runs, hosts,        *)
(* targets and owners and for any requests.                                *)
(*                                                                         *)
(* Every update is one of three shapes: it keeps some routes of the table  *)
(* it is given, it changes fields of a route that no invariant looks at,   *)
(* or it adds routes (Reserve, UpsertRoute).  The first two shapes are one *)
(* lemma each, KeepsSome and KeepsKeys; the other two are RESERVE and      *)
(* UPSERT.                                                                 *)
(***************************************************************************)
EXTENDS RouteStore, TLAPS

(* What is invariant, said of any table and any bound of its identities. *)
WellFormed(table, next) ==
    /\ table \subseteq Route
    /\ next \in Nat \ {0}
    /\ \A r \in table : r.id < next
    /\ \A r, s \in table : r.host = s.host => r = s
    /\ \A r, s \in table : r.id = s.id => r = s
    /\ \A r, s \in table :
          (r.run # NoRun /\ s.run # NoRun /\ r.target = s.target) => r = s
    /\ \A r, s \in table :
          (/\ r.run # NoRun /\ s.run # NoRun
           /\ r.wsl # Native /\ s.wsl # Native) => r.wsl = s.wsl

Inv == SafetyInv

(* The fields that the invariants relate. *)
SameKeys(r, s) ==
    /\ s.host = r.host
    /\ s.id = r.id
    /\ s.run = r.run
    /\ s.target = r.target
    /\ s.wsl = r.wsl

\* The invariant of the specification is WellFormed of its variables.
LEMMA InvIsWellFormed == Inv <=> WellFormed(routes, nextId)
  BY DEF Inv, TypeOK, SafetyInv, HostsUnique, IdsUnique, TargetsUnique,
         OneWSLOwner, WellFormed

\* Removing routes keeps a table well formed, and so does handing out further
\* identities: releases, deletions, expiry.
LEMMA KeepsSome ==
  ASSUME NEW table, NEW next, WellFormed(table, next),
         NEW kept, kept \subseteq table,
         NEW later \in Nat, next <= later
  PROVE  WellFormed(kept, later)
  BY DEF WellFormed, Route

\* Changing the other fields route by route keeps a table well formed:
\* activation, renewal, share transitions, the passing of time.
LEMMA KeepsKeys ==
  ASSUME NEW table, NEW next, WellFormed(table, next),
         NEW f \in [table -> Route], \A r \in table : SameKeys(r, f[r])
  PROVE  WellFormed({f[r] : r \in table}, next)
<1> DEFINE S == {f[r] : r \in table}
<1>1. S \subseteq Route /\ next \in Nat \ {0}
  BY DEF WellFormed
<1>2. \A s \in S : \E r \in table : s = f[r] /\ SameKeys(r, s)
  OBVIOUS
<1>3. \A s \in S : s.id < next
  BY <1>2 DEF WellFormed, SameKeys
<1>4. ASSUME NEW s \in S, NEW t \in S
      PROVE  /\ s.host = t.host => s = t
             /\ s.id = t.id => s = t
             /\ (s.run # NoRun /\ t.run # NoRun /\ s.target = t.target) => s = t
             /\ (/\ s.run # NoRun /\ t.run # NoRun
                 /\ s.wsl # Native /\ t.wsl # Native) => s.wsl = t.wsl
  <2>1. PICK r \in table : s = f[r] /\ SameKeys(r, s)
    BY <1>2
  <2>2. PICK q \in table : t = f[q] /\ SameKeys(q, t)
    BY <1>2
  <2>. QED  BY <2>1, <2>2 DEF WellFormed, SameKeys
<1>. QED  BY <1>1, <1>3, <1>4 DEF WellFormed

-----------------------------------------------------------------------------

\* What an update function is called with is well formed, every route in it has
\* an identity, and those handed out next are fresh.
LEMMA StoredWellFormed ==
  ASSUME WellFormed(routes, nextId)
  PROVE  /\ WellFormed(Stored, NextFresh)
         /\ \A r \in Stored : r.id # NoId
         /\ NextFresh \in Nat \ {0}
<1> DEFINE f == [r \in routes |-> [r EXCEPT !.id = IF @ = NoId THEN nextId ELSE @]]
<1>1. routes \subseteq Route /\ nextId \in Nat \ {0} /\ \A r \in routes : r.id \in Nat /\ r.id < nextId
  BY DEF WellFormed, Route
<1>2. Stored = {f[r] : r \in routes}
  BY DEF Stored, WithIdentities
<1>3. /\ NextFresh \in Nat \ {0}
      /\ nextId <= NextFresh
      /\ (\E r \in routes : r.id = NoId) => nextId < NextFresh
  BY <1>1 DEF NextFresh, Unidentified
<1>4. \A r \in routes :
        /\ f[r] \in Route
        /\ f[r].id = IF r.id = NoId THEN nextId ELSE r.id
        /\ f[r].host = r.host /\ f[r].run = r.run
        /\ f[r].target = r.target /\ f[r].wsl = r.wsl
  BY <1>1 DEF Route
<1>5. Stored \subseteq Route
  BY <1>2, <1>4
<1>6. \A s \in Stored : s.id < NextFresh /\ s.id # NoId
  BY <1>1, <1>2, <1>3, <1>4 DEF NoId
<1>7. ASSUME NEW s \in Stored, NEW t \in Stored
      PROVE  /\ s.host = t.host => s = t
             /\ s.id = t.id => s = t
             /\ (s.run # NoRun /\ t.run # NoRun /\ s.target = t.target) => s = t
             /\ (/\ s.run # NoRun /\ t.run # NoRun
                 /\ s.wsl # Native /\ t.wsl # Native) => s.wsl = t.wsl
  <2>1. PICK r \in routes : s = f[r]
    BY <1>2
  <2>2. PICK q \in routes : t = f[q]
    BY <1>2
  <2>3. s.id = t.id => r.id = q.id
    BY <2>1, <2>2, <1>1, <1>4
  <2> HIDE DEF f
  <2>. QED  BY <2>1, <2>2, <2>3, <1>4 DEF WellFormed
<1>. QED  BY <1>3, <1>5, <1>6, <1>7 DEF WellFormed

\* A reservation adds pending routes with fresh identities, hosts that nobody
\* has, targets that nobody leads to and at most one WSL owner.
LEMMA RESERVE ==
  ASSUME WellFormed(routes, nextId),
         NEW run \in Runs, NEW batch \in Batches, Reserve(run, batch)
  PROVE  WellFormed(routes', nextId')
<1> DEFINE base == Unexpired(Stored)
<1>1. PICK given \in Assignments(base, batch) :
        Update(Reserved(base, run, batch, given, NextFresh - 1), Len(batch))
  BY DEF Reserve
<1>2. CanReserve(base, batch)
  BY DEF Reserve
<1>3. /\ WellFormed(base, NextFresh)
      /\ NextFresh \in Nat \ {0}
      /\ \A r \in base : r.id # NoId
  BY StoredWellFormed, KeepsSome, \A n \in Nat : n <= n DEF Unexpired
<1>4. /\ batch \in Seq(Candidate)
      /\ DOMAIN batch = 1 .. Len(batch)
      /\ Len(batch) \in Nat
      /\ \A i \in DOMAIN batch : batch[i] \in Candidate
  BY BatchesAssumption
<1>5. given \in [NewEntries(batch) -> Hosts] /\ IsAssignment(given, base, batch)
  BY <1>1 DEF Assignments
<1> DEFINE shared == ShareReused(base, batch)
           new(i) == PendingRoute(run, batch[i], given[i], NextFresh - 1 + i)
           added == {new(i) : i \in NewEntries(batch)}
           last == NextFresh + Len(batch)
<1>6. routes' = shared \cup added /\ nextId' = last
  BY <1>1 DEF Update, Reserved
<1>7. WellFormed(shared, NextFresh)
  <2> DEFINE f == [r \in base |->
                     [r EXCEPT !.share =
                        IF /\ @ = "none"
                           /\ \E i \in DOMAIN batch : batch[i].lan /\ batch[i].reuse = r.id
                           /\ r.id # NoId
                        THEN "requested" ELSE @]]
  <2>1. shared = {f[r] : r \in base}
    BY DEF ShareReused
  <2>2. f \in [base -> Route] /\ \A r \in base : SameKeys(r, f[r])
    BY <1>3 DEF WellFormed, Route, SameKeys, ShareStates
  <2> HIDE DEF f, base, shared
  <2>3. WellFormed({f[r] : r \in base}, NextFresh)
    BY <1>3, <2>2, KeepsKeys
  <2>. QED  BY <2>1, <2>3
<1>8. \A s \in shared : \E r \in base : SameKeys(r, s)
  BY <1>3 DEF ShareReused, WellFormed, Route, SameKeys
<1>9. ASSUME NEW i \in NewEntries(batch)
      PROVE  /\ new(i) \in Route
             /\ new(i).id = NextFresh - 1 + i
             /\ new(i).id >= NextFresh /\ new(i).id < last
             /\ new(i).host = given[i] /\ new(i).run = run
             /\ new(i).target = batch[i].target /\ new(i).wsl = batch[i].wsl
  <2>1. i \in 1 .. Len(batch) /\ batch[i] \in Candidate /\ given[i] \in Hosts
    BY <1>4, <1>5 DEF NewEntries
  <2>. QED  BY <2>1, <1>3, <1>4, TTLAssumption
            DEF PendingRoute, Route, Candidate, States, ShareStates
<1>10. ASSUME NEW i \in NewEntries(batch), NEW j \in NewEntries(batch), i # j
       PROVE  new(i).host # new(j).host /\ new(i).target # new(j).target
  <2>1. batch[j].target # batch[i].target
    BY <1>2, <1>10 DEF CanReserve, TargetsFree
  <2>2. i \in Int /\ j \in Int
    BY <1>4 DEF NewEntries
  <2>3. given[i] # given[j]
    <3>1. ASSUME NEW a \in NewEntries(batch), NEW b \in NewEntries(batch), a < b
          PROVE  given[a] # given[b]
      <4>1. PICK taken : /\ taken = {given[k] : k \in {l \in NewEntries(batch) : l < b}}
                         /\ Resolves(given[b], batch[b], HostsOf(base) \cup taken)
        BY <1>5 DEF IsAssignment
      <4>2. given[b] \notin taken
        BY <4>1 DEF Resolves
      <4>. QED  BY <3>1, <4>1, <4>2
    <3>. QED  BY <3>1, <2>2, <1>10
  <2>. QED  BY <2>1, <2>3, <1>9
<1>11. ASSUME NEW i \in NewEntries(batch), NEW r \in base
       PROVE  new(i).host # r.host /\ new(i).target # r.target
  <2>1. r.target # batch[i].target
    BY <1>2 DEF CanReserve, TargetsFree
  <2>2. r.host # given[i]
    BY <1>5 DEF IsAssignment, Resolves, HostsOf
  <2>. QED  BY <2>1, <2>2, <1>9
<1>12. ASSUME NEW i \in NewEntries(batch), batch[i].wsl # Native
       PROVE  /\ \A j \in NewEntries(batch) : batch[j].wsl \in {Native, batch[i].wsl}
              /\ \A r \in base : r.wsl \in {Native, batch[i].wsl}
  BY <1>2, <1>12 DEF CanReserve, SingleWSLOwner, NewEntries
<1>13. /\ routes' \subseteq Route
       /\ last \in Nat \ {0}
       /\ \A s \in routes' : s.id < last
  <2>1. last \in Nat \ {0} /\ NextFresh <= last
    BY <1>3, <1>4
  <2>2. \A s \in shared : s \in Route /\ s.id \in Nat /\ s.id < NextFresh
    BY <1>7 DEF WellFormed, Route
  <2> HIDE DEF last, shared, new
  <2>. QED  BY <2>1, <2>2, <1>3, <1>6, <1>9
<1>14. ASSUME NEW s \in routes', NEW t \in routes'
       PROVE  /\ s.host = t.host => s = t
              /\ s.id = t.id => s = t
              /\ (s.run # NoRun /\ t.run # NoRun /\ s.target = t.target) => s = t
              /\ (/\ s.run # NoRun /\ t.run # NoRun
                  /\ s.wsl # Native /\ t.wsl # Native) => s.wsl = t.wsl
  <2>1. CASE s \in shared /\ t \in shared
    BY <1>7, <2>1 DEF WellFormed
  <2>2. ASSUME NEW i \in NewEntries(batch), NEW q \in shared
        PROVE  /\ new(i).host # q.host /\ new(i).id # q.id /\ new(i).target # q.target
               /\ (new(i).wsl # Native /\ q.wsl # Native) => new(i).wsl = q.wsl
    <3>1. PICK r \in base : SameKeys(r, q)
      BY <1>8
    <3>2. q.id \in Nat /\ q.id < NextFresh
      BY <1>7 DEF WellFormed, Route
    <3> HIDE DEF base, shared, new
    <3>3. new(i).host # q.host /\ new(i).target # q.target
      BY <3>1, <1>11 DEF SameKeys
    <3>4. new(i).id # q.id
      BY <3>2, <1>3, <1>4, <1>9 DEF NewEntries
    <3>5. (new(i).wsl # Native /\ q.wsl # Native) => new(i).wsl = q.wsl
      BY <3>1, <1>12, <1>9 DEF SameKeys
    <3>. QED  BY <3>3, <3>4, <3>5
  <2>3. ASSUME NEW i \in NewEntries(batch), NEW j \in NewEntries(batch), i # j
        PROVE  /\ new(i).host # new(j).host /\ new(i).id # new(j).id
               /\ new(i).target # new(j).target
               /\ (new(i).wsl # Native /\ new(j).wsl # Native) => new(i).wsl = new(j).wsl
    <3>1. i \in Int /\ j \in Int
      BY <1>4 DEF NewEntries
    <3> HIDE DEF new
    <3>2. new(i).id # new(j).id
      BY <3>1, <2>3, <1>3, <1>9
    <3>. QED  BY <3>2, <2>3, <1>9, <1>10, <1>12
  <2> HIDE DEF shared, new
  <2>4. CASE s \in shared /\ t \in added
    BY <2>2, <2>4
  <2>5. CASE s \in added /\ t \in shared
    BY <2>2, <2>5
  <2>6. CASE s \in added /\ t \in added
    BY <2>3, <2>6
  <2>. QED  BY <1>6, <2>1, <2>4, <2>5, <2>6
<1> HIDE DEF last
<1>. QED  BY <1>6, <1>13, <1>14 DEF WellFormed

\* A legacy post takes the place of the route of its host, or adds one; it has no
\* run, so it takes part in no reservation, and it is the only route without
\* an identity.
LEMMA UPSERT ==
  ASSUME WellFormed(routes, nextId),
         NEW runner \in Runs, NEW host \in Hosts, NEW owner \in Owners,
         NEW wsl \in WSLOwners \cup {Native}, NEW target \in Targets,
         NEW scheme \in Schemes,
         UpsertRoute(LegacyRoute(runner, host, owner, wsl, target, scheme))
  PROVE  WellFormed(routes', nextId')
<1> DEFINE post == LegacyRoute(runner, host, owner, wsl, target, scheme)
<1>1. /\ WellFormed(Stored, NextFresh)
      /\ \A r \in Stored : r.id # NoId
      /\ NextFresh \in Nat \ {0}
  BY StoredWellFormed
<1>2. /\ routes' = {r \in Stored : r.host # post.host} \cup {post}
      /\ nextId' = NextFresh
  BY <1>1 DEF UpsertRoute, Update, Upserted
<1>3. post \in Route /\ post.id = NoId /\ post.run = NoRun
  BY TTLAssumption DEF LegacyRoute, Route, NoId, NoExpiry, States, ShareStates
<1> HIDE DEF post
<1>. QED  BY <1>1, <1>2, <1>3 DEF WellFormed, NoId

-----------------------------------------------------------------------------

\* The empty table is well formed.
LEMMA InitWellFormed == Init => Inv
  BY DEF Init, Inv, TypeOK, SafetyInv, HostsUnique, IdsUnique, TargetsUnique, OneWSLOwner

\* Every step keeps the invariant.
LEMMA NextWellFormed ==
  ASSUME WellFormed(routes, nextId), [Next]_vars
  PROVE  WellFormed(routes', nextId')
<1>1. /\ WellFormed(Stored, NextFresh)
      /\ NextFresh \in Nat \ {0}
      /\ NextFresh <= NextFresh + 0
  BY StoredWellFormed
<1>2. Stored \subseteq Route
  BY <1>1 DEF WellFormed
<1>3. ASSUME NEW kept, kept \subseteq Stored, Update(kept, 0)
      PROVE  WellFormed(routes', nextId')
  BY <1>1, <1>3, KeepsSome DEF Update
<1>4. ASSUME NEW f \in [Stored -> Route], \A r \in Stored : SameKeys(r, f[r]),
             Update({f[r] : r \in Stored}, 0)
      PROVE  WellFormed(routes', nextId')
  BY <1>1, <1>4, KeepsKeys DEF Update
<1>5. ASSUME NEW run \in Runs, NEW batch \in Batches, Reserve(run, batch)
      PROVE  WellFormed(routes', nextId')
  BY <1>5, RESERVE
<1>6. ASSUME NEW run \in Runs, NEW refs \in Refs, Activate(run, refs)
      PROVE  WellFormed(routes', nextId')
  <2> DEFINE f == [r \in Stored |->
        IF r.id \in refs THEN [r EXCEPT !.state = "active", !.ttl = LeaseTTL] ELSE r]
  <2>1. ASSUME NEW r \in Route
        PROVE  LET s == [r EXCEPT !.state = "active", !.ttl = LeaseTTL]
               IN  s \in Route /\ SameKeys(r, s) /\ SameKeys(r, r)
    BY TTLAssumption DEF Route, States, SameKeys
  <2>2. f \in [Stored -> Route] /\ \A r \in Stored : SameKeys(r, f[r])
    BY <1>2, <2>1
  <2>3. Update({f[r] : r \in Stored}, 0)
    BY <1>6 DEF Activate, Activated
  <2> HIDE DEF f
  <2>. QED  BY <1>4, <2>2, <2>3
<1>7. ASSUME NEW run \in Runs, NEW refs \in Refs, Release(run, refs)
      PROVE  WellFormed(routes', nextId')
  BY <1>7, <1>3 DEF Release, Without
<1>8. ASSUME NEW run \in Runs, NEW refs \in Refs, Renew(run, refs)
      PROVE  WellFormed(routes', nextId')
  <2> DEFINE f == [r \in Stored |->
        IF r.id \in refs THEN [r EXCEPT !.ttl = LeaseTTL] ELSE r]
  <2>1. f \in [Stored -> Route] /\ \A r \in Stored : SameKeys(r, f[r])
    BY <1>2, TTLAssumption DEF Route, SameKeys
  <2>2. Update({f[r] : r \in Stored}, 0)
    BY <1>8 DEF Renew, Renewed
  <2> HIDE DEF f
  <2>. QED  BY <1>4, <2>1, <2>2
<1>9. ASSUME NEW id \in 1 .. (nextId - 1), DeleteRouteRef(id)
      PROVE  WellFormed(routes', nextId')
  BY <1>9, <1>3 DEF DeleteRouteRef, Without
<1>10. ASSUME NEW refs \in Refs, RemoveRefs(refs)
       PROVE  WellFormed(routes', nextId')
  BY <1>10, <1>3 DEF RemoveRefs, Without
<1>11. CASE LegacyStep
  <2>1. ASSUME NEW host \in Hosts, DeleteRoute(host)
        PROVE  WellFormed(routes', nextId')
    BY <2>1, <1>3 DEF DeleteRoute
  <2>. QED  BY <1>11, <2>1, UPSERT DEF LegacyStep
<1>12. CASE ShareStep
  <2>1. ASSUME NEW id \in 1 .. (nextId - 1), RequestLANShare(id)
        PROVE  WellFormed(routes', nextId')
    <3> DEFINE f == [r \in Stored |->
          IF r.id = id /\ r.share = "none" THEN [r EXCEPT !.share = "requested"] ELSE r]
    <3>1. f \in [Stored -> Route] /\ \A r \in Stored : SameKeys(r, f[r])
      BY <1>2 DEF Route, ShareStates, SameKeys
    <3>2. Update({f[r] : r \in Stored}, 0)
      BY <2>1 DEF RequestLANShare, ShareRequested
    <3> HIDE DEF f
    <3>. QED  BY <1>4, <3>1, <3>2
  <2>2. ASSUME NEW id \in 1 .. (nextId - 1), NEW next \in ShareStates,
               Update(ShareMoved(Stored, id, next), 0)
        PROVE  WellFormed(routes', nextId')
    <3> DEFINE f == [r \in Stored |->
          IF r.id = id THEN [r EXCEPT !.share = next] ELSE r]
    <3>1. f \in [Stored -> Route] /\ \A r \in Stored : SameKeys(r, f[r])
      BY <1>2 DEF Route, SameKeys
    <3>2. Update({f[r] : r \in Stored}, 0)
      BY <2>2 DEF ShareMoved
    <3> HIDE DEF f
    <3>. QED  BY <1>4, <3>1, <3>2
  <2>. QED  BY <1>12, <2>1, <2>2 DEF ShareStep, MoveLANShare, RemoveLANShare, ShareStates
<1>13. CASE StartRouter
  BY <1>13, <1>3 DEF StartRouter
<1>14. CASE Tick
  <2> DEFINE f == [r \in routes |-> Aged(r)]
  <2>1. routes \subseteq Route
    BY DEF WellFormed
  <2>2. f \in [routes -> Route] /\ \A r \in routes : SameKeys(r, f[r])
    BY <2>1 DEF Aged, Route, SameKeys, NoExpiry
  <2>3. routes' = {f[r] : r \in routes} /\ nextId' = nextId
    BY <1>14 DEF Tick
  <2> HIDE DEF f
  <2>4. WellFormed({f[r] : r \in routes}, nextId)
    BY <2>2, KeepsKeys
  <2>. QED  BY <2>3, <2>4
<1>15. CASE UNCHANGED vars
  BY <1>15 DEF vars, WellFormed
<1>. QED
  BY <1>5, <1>6, <1>7, <1>8, <1>9, <1>10, <1>11, <1>12, <1>13, <1>14, <1>15
  DEF Next, RunStep

\* Together, the invariants of the store hold in every reachable state.
THEOREM InvHolds == Spec => []Inv
<1>1. Inv /\ [Next]_vars => Inv'
  <2> SUFFICES ASSUME Inv, [Next]_vars PROVE Inv'
    OBVIOUS
  <2>1. WellFormed(routes', nextId')
    BY InvIsWellFormed, NextWellFormed
  <2>. QED
    BY <2>1 DEF Inv, TypeOK, SafetyInv, HostsUnique, IdsUnique, TargetsUnique,
                OneWSLOwner, WellFormed
<1>. QED  BY InitWellFormed, <1>1, PTL DEF Spec

\* Every stored route is well formed and its identity has been handed out.
THEOREM TypeCorrect == Spec => []TypeOK
<1>1. Inv => TypeOK
  BY DEF Inv, SafetyInv
<1>. QED  BY InvHolds, <1>1, PTL

\* Two routes never answer for one host.
THEOREM OneRoutePerHost == Spec => []HostsUnique
<1>1. Inv => HostsUnique
  BY DEF Inv, SafetyInv
<1>. QED  BY InvHolds, <1>1, PTL

\* An identity names one route and at most one route has none.
THEOREM OneRoutePerIdentity == Spec => []IdsUnique
<1>1. Inv => IdsUnique
  BY DEF Inv, SafetyInv
<1>. QED  BY InvHolds, <1>1, PTL

\* Two reserved routes never lead to one upstream.
THEOREM OneRoutePerTarget == Spec => []TargetsUnique
<1>1. Inv => TargetsUnique
  BY DEF Inv, SafetyInv
<1>. QED  BY InvHolds, <1>1, PTL

\* All reserved WSL routes have one owner.
THEOREM OneOwnerOfWSL == Spec => []OneWSLOwner
<1>1. Inv => OneWSLOwner
  BY DEF Inv, SafetyInv
<1>. QED  BY InvHolds, <1>1, PTL

\* All of it at once.
THEOREM RoutesSafe == Spec => []SafetyInv
<1>1. Inv => SafetyInv
  BY DEF Inv
<1>. QED  BY InvHolds, <1>1, PTL

-----------------------------------------------------------------------------
(***************************************************************************)
(* What no step of RouteStore does: hand over a host that is held, push    *)
(* out a route that has not expired, revive a share, or activate a run in  *)
(* part.  Each of these is about where the routes of the next table come   *)
(* from: a route of this one, with fields that a step of this kind may     *)
(* change, a reservation, or a legacy post.                                *)
(***************************************************************************)

\* The same route before and after it was given an identity.
Was(r, t) ==
  /\ t.id = IF r.id = NoId THEN nextId ELSE r.id
  /\ t.host = r.host /\ t.run = r.run /\ t.runner = r.runner /\ t.target = r.target
  /\ t.owner = r.owner /\ t.wsl = r.wsl
  /\ t.state = r.state /\ t.share = r.share /\ t.ttl = r.ttl

\* What a step keeps of a route that it does not remove.
SameHolder(t, s) ==
  /\ s.host = t.host /\ s.run = t.run /\ s.runner = t.runner /\ s.target = t.target
  /\ s.owner = t.owner /\ s.wsl = t.wsl
  /\ t.share = "none" => s.share \in {"none", "requested"}

\* Only an activation changes the state.
Activating(id) == \E run \in Runs, refs \in Refs : Activate(run, refs) /\ id \in refs

Stays(r, s) ==
  /\ SameHolder(r, s)
  /\ s.id = r.id \/ (r.id = NoId /\ s.id = nextId)
  /\ s.state = r.state \/ Activating(r.id)

\* A route that a reservation adds, and one that a legacy post adds.
Reserves(s) ==
  /\ s.id >= nextId /\ s.state = "pending"
  /\ \A r \in routes : r.host = s.host => Expired(r)

Posts(s) ==
  /\ s.id = NoId /\ s.run = NoRun /\ s.state = "active" /\ s.share = "none"
  /\ \A r \in routes : r.host = s.host => SameRouteOwner(r, s)

Origin(s) == (\E r \in routes : Stays(r, s)) \/ Reserves(s) \/ Posts(s)

\* Every route that a step does not remove is still there, but for those that
\* have expired and that of the host of a post.
Spares(s) ==
  \A r \in routes :
    \/ Expired(r)
    \/ r.host = s.host /\ s.run = NoRun
    \/ \E q \in routes' : SameRoute(r, q)

\* Routes without an identity are those of a legacy post.
PostsActive == \A r \in routes : r.id = NoId => r.state = "active"

HandInv == Inv /\ PostsActive

-----------------------------------------------------------------------------
(* Where routes come from *)

LEMMA RoutesTyped ==
  ASSUME Inv
  PROVE  /\ routes \subseteq Route /\ nextId \in Nat \ {0}
         /\ \A r \in routes : r.id \in Nat /\ r.id < nextId
         /\ \A r, s \in routes : r.host = s.host => r = s
         /\ \A r, s \in routes : r.id = s.id => r = s
BY DEF Inv, TypeOK, SafetyInv, HostsUnique, IdsUnique, Route

LEMMA StoredWas ==
  ASSUME Inv
  PROVE  /\ \A t \in Stored : t \in Route /\ \E r \in routes : Was(r, t)
         /\ \A r \in routes : \E t \in Stored : Was(r, t)
<1> DEFINE f(r) == [r EXCEPT !.id = IF @ = NoId THEN nextId ELSE @]
<1>1. Stored = {f(r) : r \in routes}
  BY DEF Stored, WithIdentities
<1>2. \A r \in routes : f(r) \in Route /\ Was(r, f(r))
  BY RoutesTyped DEF Was, Route
<1> HIDE DEF f
<1>. QED  BY <1>1, <1>2

\* A route of the table an update is given, in the table it returns.
LEMMA StaysFrom ==
  ASSUME Inv, NEW t \in Stored, NEW s, SameHolder(t, s), s.id = t.id,
         s.state = t.state \/ Activating(t.id)
  PROVE  \E r \in routes : Stays(r, s)
<1>1. PICK r \in routes : Was(r, t)
  BY StoredWas
<1>2. SameHolder(r, s)
  BY <1>1 DEF Was, SameHolder
<1>3. s.id = r.id \/ (r.id = NoId /\ s.id = nextId)
  BY <1>1 DEF Was
<1>4. s.state = r.state \/ Activating(r.id)
  <2>1. CASE r.id = NoId
    <3>1. \A refs \in Refs : nextId \notin refs
      BY RoutesTyped DEF Refs
    <3>2. ~Activating(t.id)
      BY <1>1, <2>1, <3>1 DEF Was, Activating
    <3>. QED  BY <1>1, <3>2 DEF Was
  <2>2. CASE r.id # NoId
    BY <1>1, <2>2 DEF Was
  <2>. QED  BY <2>1, <2>2
<1>. QED  BY <1>2, <1>3, <1>4 DEF Stays

\* Removals.
LEMMA KeptStay ==
  ASSUME Inv, NEW s \in Stored
  PROVE  \E r \in routes : Stays(r, s)
BY StaysFrom DEF SameHolder

LEMMA ReserveOrigin ==
  ASSUME Inv, NEW run \in Runs, NEW batch \in Batches, Reserve(run, batch)
  PROVE  /\ \A s \in routes' : Origin(s)
         /\ \A r \in routes : Expired(r) \/ \E q \in routes' : SameRoute(r, q)
<1> DEFINE base == Unexpired(Stored)
<1>1. PICK given \in Assignments(base, batch) :
        routes' = Reserved(base, run, batch, given, NextFresh - 1)
  BY DEF Reserve, Update
<1>2. IsAssignment(given, base, batch)
  BY <1>1 DEF Assignments
<1>3. /\ batch \in Seq(Candidate) /\ DOMAIN batch = 1 .. Len(batch) /\ Len(batch) \in Nat
  BY BatchesAssumption
<1>4. NextFresh \in Nat /\ NextFresh >= nextId
  BY RoutesTyped DEF NextFresh
<1> DEFINE asked(t) == /\ t.share = "none"
                       /\ \E i \in DOMAIN batch : batch[i].lan /\ batch[i].reuse = t.id
                       /\ t.id # NoId
           shared(t) == [t EXCEPT !.share = IF asked(t) THEN "requested" ELSE @]
           new(i) == PendingRoute(run, batch[i], given[i], NextFresh - 1 + i)
<1>5. routes' = {shared(t) : t \in base} \cup {new(i) : i \in NewEntries(batch)}
  BY <1>1 DEF Reserved, ShareReused
<1>6. ASSUME NEW t \in base
      PROVE  /\ SameHolder(t, shared(t)) /\ shared(t).id = t.id /\ shared(t).state = t.state
             /\ t \in Stored
  BY StoredWas DEF Unexpired, SameHolder, Route
<1>7. ASSUME NEW i \in NewEntries(batch)
      PROVE  Reserves(new(i))
  <2>1. new(i).id = NextFresh - 1 + i /\ new(i).state = "pending" /\ new(i).host = given[i]
    BY DEF PendingRoute
  <2>2. new(i).id >= nextId
    BY <1>3, <1>4, <2>1, RoutesTyped DEF NewEntries
  <2>3. given[i] \notin HostsOf(base)
    BY <1>2 DEF IsAssignment, Resolves
  <2>4. ASSUME NEW r \in routes, r.host = given[i]
        PROVE  Expired(r)
    <3>1. PICK t \in Stored : Was(r, t)
      BY StoredWas
    <3>2. Expired(t)
      BY <2>3, <2>4, <3>1 DEF Was, HostsOf, Unexpired
    <3>. QED  BY <3>1, <3>2 DEF Was, Expired
  <2> HIDE DEF new
  <2>. QED  BY <2>1, <2>2, <2>4 DEF Reserves
<1>8. ASSUME NEW r \in routes
      PROVE  Expired(r) \/ \E q \in routes' : SameRoute(r, q)
  <2>1. PICK t \in Stored : Was(r, t)
    BY StoredWas
  <2>2. CASE Expired(t)
    BY <2>1, <2>2 DEF Was, Expired
  <2>3. CASE t \in base
    <3>1. shared(t) \in routes'
      BY <1>5, <2>3
    <3>2. SameRoute(r, shared(t))
      BY <1>6, <2>1, <2>3 DEF Was, SameHolder, SameRoute
    <3>. QED  BY <3>1, <3>2
  <2>. QED  BY <2>2, <2>3 DEF Unexpired
<1> HIDE DEF shared, new, base
<1>9. ASSUME NEW s \in routes'
      PROVE  Origin(s)
  <2>1. CASE \E t \in base : s = shared(t)
    BY <1>6, <2>1, StaysFrom DEF Origin
  <2>2. CASE \E i \in NewEntries(batch) : s = new(i)
    BY <1>7, <2>2 DEF Origin
  <2>. QED  BY <1>5, <2>1, <2>2
<1>. QED  BY <1>8, <1>9

LEMMA PostOrigin ==
  ASSUME Inv,
         NEW runner \in Runs, NEW host \in Hosts, NEW owner \in Owners,
         NEW wsl \in WSLOwners \cup {Native}, NEW target \in Targets, NEW scheme \in Schemes,
         UpsertRoute(LegacyRoute(runner, host, owner, wsl, target, scheme))
  PROVE  /\ \A s \in routes' : Origin(s)
         /\ \A s \in routes' : (\E r \in routes : Stays(r, s)) \/ Spares(s)
<1> DEFINE post == LegacyRoute(runner, host, owner, wsl, target, scheme)
<1>1. routes' = {t \in Stored : t.host # post.host} \cup {post} /\ CanUpsert(Stored, post)
  BY DEF UpsertRoute, Update, Upserted
<1>2. post.id = NoId /\ post.run = NoRun /\ post.state = "active" /\ post.share = "none"
  BY DEF LegacyRoute
<1> HIDE DEF post
<1>3. Posts(post)
  <2>1. ASSUME NEW r \in routes, r.host = post.host
        PROVE  SameRouteOwner(r, post)
    <3>1. PICK t \in Stored : Was(r, t)
      BY StoredWas
    <3>2. SameRouteOwner(t, post)
      BY <1>1, <2>1, <3>1 DEF CanUpsert, Was
    <3>. QED  BY <3>1, <3>2 DEF Was, SameRouteOwner, Expired
  <2>. QED  BY <1>2, <2>1 DEF Posts
<1>4. Spares(post)
  <2>1. ASSUME NEW r \in routes, r.host # post.host
        PROVE  \E q \in routes' : SameRoute(r, q)
    <3>1. PICK t \in Stored : Was(r, t)
      BY StoredWas
    <3>. QED  BY <1>1, <2>1, <3>1 DEF Was, SameRoute
  <2>. QED  BY <1>2, <2>1 DEF Spares
<1>. QED  BY <1>1, <1>3, <1>4, KeptStay DEF Origin

\* All other steps keep what they do not remove.
LEMMA QuietOrigin ==
  ASSUME Inv, [Next]_vars,
         ~ \E run \in Runs, batch \in Batches : Reserve(run, batch),
         ~ \E runner \in Runs, host \in Hosts, owner \in Owners,
              wsl \in WSLOwners \cup {Native}, target \in Targets, scheme \in Schemes :
              UpsertRoute(LegacyRoute(runner, host, owner, wsl, target, scheme)),
         NEW s \in routes'
  PROVE  \E r \in routes : Stays(r, s)
<1>1. CASE s \in Stored
  BY <1>1, KeptStay
<1>2. ASSUME NEW run \in Runs, NEW refs \in Refs, Activate(run, refs)
      PROVE  \E r \in routes : Stays(r, s)
  <2>1. PICK t \in Stored :
          s = IF t.id \in refs THEN [t EXCEPT !.state = "active", !.ttl = LeaseTTL] ELSE t
    BY <1>2 DEF Activate, Update, Activated
  <2>2. CASE t.id \in refs
    <3>1. SameHolder(t, s) /\ s.id = t.id
      BY <2>1, <2>2, StoredWas DEF SameHolder, Route
    <3>2. Activating(t.id)
      BY <1>2, <2>2 DEF Activating
    <3>. QED  BY <3>1, <3>2, StaysFrom
  <2>3. CASE t.id \notin refs
    BY <2>1, <2>3, KeptStay
  <2>. QED  BY <2>2, <2>3
<1>3. ASSUME NEW run \in Runs, NEW refs \in Refs, Renew(run, refs)
      PROVE  \E r \in routes : Stays(r, s)
  <2>1. PICK t \in Stored : s = IF t.id \in refs THEN [t EXCEPT !.ttl = LeaseTTL] ELSE t
    BY <1>3 DEF Renew, Update, Renewed
  <2>2. SameHolder(t, s) /\ s.id = t.id /\ s.state = t.state
    BY <2>1, StoredWas DEF SameHolder, Route
  <2>. QED  BY <2>2, StaysFrom
<1>4. ASSUME NEW id \in 1 .. (nextId - 1), RequestLANShare(id)
      PROVE  \E r \in routes : Stays(r, s)
  <2>1. PICK t \in Stored :
          s = IF t.id = id /\ t.share = "none" THEN [t EXCEPT !.share = "requested"] ELSE t
    BY <1>4 DEF RequestLANShare, Update, ShareRequested
  <2>2. SameHolder(t, s) /\ s.id = t.id /\ s.state = t.state
    BY <2>1, StoredWas DEF SameHolder, Route
  <2>. QED  BY <2>2, StaysFrom
<1>5. ASSUME NEW id \in 1 .. (nextId - 1), NEW next \in {"active", "suspended"},
             MoveLANShare(id, next)
      PROVE  \E r \in routes : Stays(r, s)
  <2>1. PICK t \in Stored : s = IF t.id = id THEN [t EXCEPT !.share = next] ELSE t
    BY <1>5 DEF MoveLANShare, Update, ShareMoved
  <2>2. t.id = id => t.share # "none"
    <3>1. PICK u \in Stored : u.id = id /\ (u.share = next \/ ValidShareTransition(u.share, next))
      BY <1>5 DEF MoveLANShare, CanMoveShare
    <3>2. t.id = id => t = u
      BY <3>1, StoredWellFormed, InvIsWellFormed DEF WellFormed
    <3>. QED  BY <3>1, <3>2 DEF ValidShareTransition
  <2>3. SameHolder(t, s) /\ s.id = t.id /\ s.state = t.state
    BY <2>1, <2>2, StoredWas DEF SameHolder, Route
  <2>. QED  BY <2>3, StaysFrom
<1>6. ASSUME NEW id \in 1 .. (nextId - 1), RemoveLANShare(id)
      PROVE  \E r \in routes : Stays(r, s)
  <2>1. PICK t \in Stored : s = IF t.id = id THEN [t EXCEPT !.share = "none"] ELSE t
    BY <1>6 DEF RemoveLANShare, Update, ShareMoved
  <2>2. SameHolder(t, s) /\ s.id = t.id /\ s.state = t.state
    BY <2>1, StoredWas DEF SameHolder, Route
  <2>. QED  BY <2>2, StaysFrom
<1>7. CASE Tick
  <2>1. PICK r \in routes : s = Aged(r)
    BY <1>7 DEF Tick
  <2>2. Stays(r, s)
    BY <2>1, RoutesTyped DEF Aged, Stays, SameHolder, Route
  <2>. QED  BY <2>2
<1>8. CASE UNCHANGED vars
  BY <1>8 DEF vars, Stays, SameHolder
<1>9. ASSUME \/ \E run \in Runs, refs \in Refs : Release(run, refs)
             \/ \E id \in 1 .. (nextId - 1) : DeleteRouteRef(id)
             \/ \E refs \in Refs : RemoveRefs(refs)
             \/ \E host \in Hosts : DeleteRoute(host)
             \/ StartRouter
      PROVE  s \in Stored
  BY <1>9 DEF Release, DeleteRouteRef, RemoveRefs, DeleteRoute, StartRouter, Update, Without
<1>10. CASE RunStep
  <2>1. PICK run \in Runs : \/ \E batch \in Batches : Reserve(run, batch)
                            \/ \E refs \in Refs : \/ Activate(run, refs)
                                                  \/ Renew(run, refs)
                                                  \/ Release(run, refs)
    BY <1>10 DEF RunStep
  <2>2. CASE \E refs \in Refs : Release(run, refs)
    BY <1>1, <1>9, <2>2
  <2>. QED  BY <1>2, <1>3, <2>1, <2>2
<1>11. CASE LegacyStep
  <2>1. CASE \E host \in Hosts : DeleteRoute(host)
    BY <1>1, <1>9, <2>1
  <2>. QED  BY <1>11, <2>1 DEF LegacyStep
<1>12. CASE ShareStep
  BY <1>4, <1>5, <1>6, <1>12 DEF ShareStep
<1>13. CASE \/ \E id \in 1 .. (nextId - 1) : DeleteRouteRef(id)
            \/ \E refs \in Refs : RemoveRefs(refs)
            \/ StartRouter
  BY <1>1, <1>9, <1>13
<1>. QED  BY <1>7, <1>8, <1>10, <1>11, <1>12, <1>13 DEF Next

LEMMA StepOrigin ==
  ASSUME Inv, [Next]_vars, NEW s \in routes'
  PROVE  Origin(s) /\ ((\E r \in routes : Stays(r, s)) \/ Spares(s))
<1>1. ASSUME NEW run \in Runs, NEW batch \in Batches, Reserve(run, batch)
      PROVE  Origin(s) /\ Spares(s)
  BY <1>1, ReserveOrigin DEF Spares
<1>. QED  BY <1>1, PostOrigin, QuietOrigin DEF Origin

-----------------------------------------------------------------------------
(* The invariant *)

LEMMA NextHandInv ==
  ASSUME HandInv, [Next]_vars
  PROVE  HandInv'
<1>1. Inv'
  <2>1. WellFormed(routes', nextId')
    BY InvIsWellFormed, NextWellFormed DEF HandInv
  <2>. QED
    BY <2>1 DEF Inv, TypeOK, SafetyInv, HostsUnique, IdsUnique, TargetsUnique, OneWSLOwner,
                WellFormed
<1>2. ASSUME NEW s \in routes', s.id = NoId
      PROVE  s.state = "active"
  <2>1. Origin(s)
    BY StepOrigin DEF HandInv
  <2>2. CASE \E r \in routes : Stays(r, s)
    <3>1. PICK r \in routes : Stays(r, s)
      BY <2>2
    <3>2. r.id = NoId
      BY <1>2, <3>1, RoutesTyped DEF Stays, HandInv, NoId
    <3>3. \A refs \in Refs : NoId \notin refs
      BY RoutesTyped DEF Refs, NoId, HandInv
    <3>. QED  BY <3>1, <3>2, <3>3 DEF Stays, Activating, HandInv, PostsActive
  <2>3. CASE Reserves(s)
    BY <1>2, <2>3, RoutesTyped DEF Reserves, HandInv, NoId
  <2>. QED  BY <2>1, <2>2, <2>3 DEF Origin, Posts
<1>. QED  BY <1>1, <1>2 DEF HandInv, PostsActive

LEMMA HandInvHolds == Spec => []HandInv
<1>1. Init => HandInv
  BY InitWellFormed DEF Init, HandInv, PostsActive
<1>2. HandInv /\ [Next]_vars => HandInv'
  BY NextHandInv
<1>. QED  BY <1>1, <1>2, PTL DEF Spec

-----------------------------------------------------------------------------
(* What a step does not do *)

\* The route that s was.
LEMMA StaysUnique ==
  ASSUME Inv, NEW r \in routes, NEW q \in routes, NEW s, Stays(q, s), r.id = s.id
  PROVE  q = r
BY RoutesTyped DEF Stays

\* A host that is held changes hands by no reservation and no legacy post.
THEOREM HostsStayHeld == Spec => HostsHandedOver
<1> DEFINE A == \A r \in routes, s \in routes' : HandsOver(r, s)
<1>1. HandInv /\ [Next]_vars => A
  <2> SUFFICES ASSUME HandInv, [Next]_vars, NEW r \in routes, NEW s \in routes', r.host = s.host,
                      r.owner # s.owner \/ (r.wsl # Native /\ r.runner # s.runner)
               PROVE  Expired(r)
    BY DEF HandsOver
  <2>1. Origin(s)
    BY StepOrigin DEF HandInv
  <2>2. ASSUME NEW q \in routes, Stays(q, s)
        PROVE  FALSE
    <3>1. q = r
      BY <2>2, RoutesTyped DEF Stays, SameHolder, HandInv
    <3>. QED  BY <2>2, <3>1 DEF Stays, SameHolder
  <2>3. CASE Posts(s)
    <3>1. SameRouteOwner(r, s)
      BY <2>3 DEF Posts
    <3>. QED  BY <3>1 DEF SameRouteOwner
  <2>. QED  BY <2>1, <2>2, <2>3 DEF Origin, Reserves
<1>2. HandInv /\ [Next]_vars => [A]_vars
  BY <1>1
<1>. QED  BY HandInvHolds, <1>2, PTL DEF Spec, HostsHandedOver

\* A reservation pushes out nothing but the expired, and a legacy post besides
\* only the route of its host.
THEOREM AdditionsAreSpare == Spec => AdditionsSpare
<1> DEFINE A == \A s \in routes' : (\A r \in routes : ~SameRoute(r, s)) => Spares(s)
<1>1. HandInv /\ [Next]_vars => A
  <2> SUFFICES ASSUME HandInv, [Next]_vars, NEW s \in routes', \A r \in routes : ~SameRoute(r, s)
               PROVE  Spares(s)
    OBVIOUS
  <2>1. ~ \E r \in routes : Stays(r, s)
    BY DEF Stays, SameHolder, SameRoute
  <2>. QED  BY <2>1, StepOrigin DEF HandInv
<1>2. HandInv /\ [Next]_vars => [A]_vars
  BY <1>1
<1> USE DEF Spares
<1>. QED  BY HandInvHolds, <1>2, PTL DEF Spec, AdditionsSpare

\* A share that was removed stays so until it is asked for again.
THEOREM SharesStayRemoved == Spec => ShareNotRevived
<1> DEFINE A == \A r \in routes, s \in routes' :
                  (r.id = s.id /\ r.share = "none") => s.share \in {"none", "requested"}
<1>1. HandInv /\ [Next]_vars => A
  <2> SUFFICES ASSUME HandInv, [Next]_vars, NEW r \in routes, NEW s \in routes',
                      r.id = s.id, r.share = "none"
               PROVE  s.share \in {"none", "requested"}
    OBVIOUS
  <2>1. Origin(s)
    BY StepOrigin DEF HandInv
  <2>2. ASSUME NEW q \in routes, Stays(q, s)
        PROVE  s.share \in {"none", "requested"}
    <3>1. q = r
      BY <2>2, StaysUnique DEF HandInv
    <3>. QED  BY <2>2, <3>1 DEF Stays, SameHolder
  <2>3. ~Reserves(s)
    BY RoutesTyped DEF Reserves, HandInv
  <2>. QED  BY <2>1, <2>2, <2>3 DEF Origin, Posts
<1>2. HandInv /\ [Next]_vars => [A]_vars
  BY <1>1
<1>. QED  BY HandInvHolds, <1>2, PTL DEF Spec, ShareNotRevived

\* A run becomes active as a whole and in time.
THEOREM RunsActivateWhole == Spec => ActivationWhole
<1> DEFINE A == \A run \in Runs : ActivatesWhole(run)
<1>1. HandInv /\ [Next]_vars => A
  <2> SUFFICES ASSUME HandInv, [Next]_vars, NEW run \in Runs,
                      NEW r \in OfRun(routes, run), r.state = "pending",
                      NEW s \in routes', s.id = r.id, s.state = "active"
               PROVE  /\ \A q \in OfRun(routes, run) : ~Expired(q) \/ q.state = "active"
                      /\ \A q \in OfRun(routes', run) : q.state = "active"
    BY DEF ActivatesWhole
  <2>1. r \in routes /\ r.run = run /\ r.id # NoId
    BY DEF OfRun, HandInv, PostsActive
  <2>2. Activating(r.id)
    <3>1. Origin(s)
      BY StepOrigin DEF HandInv
    <3>2. ~Reserves(s) /\ ~Posts(s)
      BY <2>1 DEF Reserves, Posts
    <3>3. PICK q \in routes : Stays(q, s)
      BY <3>1, <3>2 DEF Origin
    <3>4. q = r
      BY <2>1, <3>3, StaysUnique DEF HandInv
    <3>. QED  BY <3>3, <3>4 DEF Stays
  <2>3. PICK other \in Runs, refs \in Refs : Activate(other, refs) /\ r.id \in refs
    BY <2>2 DEF Activating
  <2>4. \A t \in Stored : t \in Route /\ \E q \in routes : Was(q, t)
    BY StoredWas DEF HandInv
  <2>5. \A t, u \in Stored : t.id = u.id => t = u
    BY StoredWellFormed, InvIsWellFormed DEF WellFormed, HandInv
  <2>6. other = run
    <3>1. PICK t \in Stored : Was(r, t)
      BY <2>1, StoredWas DEF HandInv
    <3>2. t.id = r.id /\ t.run = run
      BY <2>1, <3>1 DEF Was
    <3>3. PICK u \in Stored : u.run = other /\ u.id = r.id
      BY <2>3 DEF Activate, CanActivate, IdsOf, OfRun
    <3>. QED  BY <2>5, <3>2, <3>3
  <2>7. \A q \in OfRun(routes, run) : ~Expired(q) \/ q.state = "active"
    <3> SUFFICES ASSUME NEW q \in routes, q.run = run, q.state = "pending"
                 PROVE  ~Expired(q)
      BY RoutesTyped DEF OfRun, HandInv, Route, States
    <3>1. PICK t \in Stored : Was(q, t)
      BY StoredWas DEF HandInv
    <3>2. ~Expired(t)
      BY <2>3, <2>6, <3>1 DEF Activate, CanActivate, OfRun, Was
    <3>. QED  BY <3>1, <3>2 DEF Was, Expired
  <2>8. \A q \in OfRun(routes', run) : q.state = "active"
    <3> SUFFICES ASSUME NEW q \in routes', q.run = run PROVE q.state = "active"
      BY DEF OfRun
    <3>1. PICK t \in Stored :
            q = IF t.id \in refs THEN [t EXCEPT !.state = "active", !.ttl = LeaseTTL] ELSE t
      BY <2>3 DEF Activate, Update, Activated
    <3>2. CASE t.id \in refs
      BY <2>4, <3>1, <3>2 DEF Route
    <3>3. CASE t.id \notin refs
      <4>1. t.run = run /\ q = t /\ t \in Route
        BY <2>4, <3>1, <3>3
      <4>2. t.state # "pending"
        BY <2>3, <2>6, <3>3, <4>1 DEF Activate, CanActivate, IdsOf, OfRun
      <4>. QED  BY <4>1, <4>2 DEF Route, States
    <3>. QED  BY <3>2, <3>3
  <2>. QED  BY <2>7, <2>8
<1>2. HandInv /\ [Next]_vars => [A]_vars
  BY <1>1
<1>. QED  BY HandInvHolds, <1>2, PTL DEF Spec, ActivationWhole

=============================================================================
