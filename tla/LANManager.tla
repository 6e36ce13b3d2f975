----------------------------- MODULE LANManager -----------------------------
(***************************************************************************)
(* The LAN manager of the router, internal/router/lan_manager.go: shares a *)
(* route under a .local name of the network, for HTTP calls (create,       *)
(* remove, a renewal that recovers, the deletion of a route), for the      *)
(* recovery at the start of the router and for the network monitor, all of *)
(* which run at once.                                                      *)
(*                                                                         *)
(* The maps of the manager are guarded by m.mu.  Everything a call does    *)
(* between two uses of m.mu is outside of it: updates of the route store   *)
(* (atomic, see FileStore), the bindings of the TLS server under lanMu, and *)
(* calls of the mDNS responder.  Each of those is a step of its own.       *)
(*                                                                         *)
(* The responder is known here by what the manager sees of it: a claim per *)
(* requested name, a pump that calls Prepare before a name is announced,   *)
(* and an answer to each Register.  MDNSClaims models what is behind that. *)
(* A network is one interface with one ingress (ports 80 and 443) and one  *)
(* responder; its number is reused once nothing refers to it any more, and *)
(* so is the number of a registration.  Certificates and setup tokens are  *)
(* those of LANTLS.                                                        *)
(***************************************************************************)
EXTENDS Integers, Sequences, FiniteSets

CONSTANTS
    Refs,          \* the routes of the store
    Names,         \* .local. host names
    Requested,     \* [Refs -> Names]: RequestedHostname of a share
    Alternatives,  \* [Names -> Seq(Names)]: the names tried for a requested one
    Callers,       \* HTTP calls that may be in progress at once
    Startup,       \* the goroutine that runs Recover
    Monitor,       \* the goroutine that runs monitorNetwork
    NoRef, NoName,
    MaxNet,        \* bound: networks in use or being closed
    MaxHandle,     \* bound: registrations that something refers to
    MaxEvents,     \* bound: shares found at the start, calls, expiries,
                   \* conflicts and failures, where no two calls overlap
    MaxOverlapping, \* the same where they do
    InitialShares  \* what the store may hold at the start

ASSUME NamesAssumption ==
    /\ Requested \in [Refs -> Names]
    /\ Alternatives \in [Names -> Seq(Names)]
    /\ \A n \in Names : Alternatives[n] # <<>> /\ Alternatives[n][1] = n
    /\ NoRef \notin Refs /\ NoName \notin Names

ASSUME LANBoundsAssumption ==
    /\ MaxNet \in Nat \ {0} /\ MaxHandle \in Nat \ {0}
    /\ MaxEvents \in Nat /\ MaxOverlapping \in Nat
    /\ InitialShares \subseteq [Refs -> {"none", "requested", "active", "suspended"}]

Procs == Callers \cup {Startup, Monitor}
Nets == 1 .. MaxNet
Handles == 1 .. MaxHandle
None == 0

VARIABLES
    stored,     \* the routes that are active in the store
    share,      \* [Refs -> state of the LAN share in the store]
    shareName,  \* [Refs -> Hostname of that share]
    bound,      \* [Names -> the route whose certificate the TLS server has]
    online,     \* a private network is there to be selected
    valid,      \* the networks whose interface is still as it was selected
    closed,     \* the context of the manager is cancelled
    net,        \* m.iface, m.ingress and m.responder, or None
    pending,    \* [Names -> m.pending]
    reg,        \* [Refs -> m.registrations]
    regRef,     \* [Handles -> m.registrationRefs]
    ingress,    \* the networks whose ports are open
    live,       \* the networks whose responder runs
    claims,     \* the claims of the responders
    asked,      \* [Nets -> Seq of requests]: coordinatorRequests of a responder
    pump,       \* [Nets -> what the coordinator pump is doing]
    call,       \* [Procs -> what a goroutine is doing]
    todo,       \* [Procs -> the routes it has yet to handle]
    taken,      \* [Procs -> the registrations a goroutine withdraws]
    events,     \* calls, expiries, conflicts and failures so far
    orderly     \* no two goroutines work at once, no client gives up, and
                \* Prepare has ended before a name is registered anew

store == <<stored, share, shareName>>
world == <<online, valid, closed>>
manager == <<net, pending, reg, regRef>>
mdns == <<live, claims, asked>>
rest == <<todo, taken, events, orderly>>
vars == <<store, bound, world, manager, ingress, mdns, pump, call, rest>>

ShareStates == {"none", "requested", "active", "suspended"}

Idle == [kind |-> "none", step |-> "idle", ref |-> NoRef, net |-> None,
         handle |-> None, failed |-> FALSE, after |-> "none"]

NoWork == [step |-> "idle", ref |-> NoRef, requested |-> NoName, generation |-> 0,
           proposed |-> NoName, previous |-> NoName, iface |-> None]

Claim(n, requested, handles) ==
    [net |-> n, requested |-> requested, candidate |-> requested,
     current |-> NoName, generation |-> 1, phase |-> "probing", handles |-> handles]

ClaimOf(n, requested) ==
    {c \in claims : c.net = n /\ c.requested = requested}

Init ==
    /\ stored = Refs
    /\ share \in InitialShares
    /\ shareName = [r \in Refs |->
                        IF share[r] \in {"active", "suspended"} THEN Requested[r] ELSE NoName]
    /\ bound = [n \in Names |-> NoRef]
    /\ online = TRUE
    /\ valid = {}
    /\ closed = FALSE
    /\ net = None
    /\ pending = [n \in Names |-> NoRef]
    /\ reg = [r \in Refs |-> None]
    /\ regRef = [h \in Handles |-> NoRef]
    /\ ingress = {} /\ live = {} /\ claims = {}
    /\ asked = [n \in Nets |-> <<>>]
    /\ pump = [n \in Nets |-> NoWork]
    /\ call = [p \in Procs |-> IF p = Startup THEN [Idle EXCEPT !.step = "load"] ELSE Idle]
    /\ todo = [p \in Procs |-> {}]
    /\ taken = [p \in Procs |-> [r \in Refs |-> None]]
    /\ events = Cardinality({r \in Refs : share[r] # "none"})
    /\ orderly \in BOOLEAN

\* Numbers nothing refers to.
FreeNets ==
    {n \in Nets :
        /\ n \notin ingress \cup live \cup valid \cup {net}
        /\ pump[n] = NoWork /\ asked[n] = <<>>
        /\ \A p \in Procs : call[p].net # n}

FreeHandles ==
    {h \in Handles :
        /\ regRef[h] = NoRef
        /\ \A r \in Refs : reg[r] # h /\ \A p \in Procs : taken[p][r] # h
        /\ \A c \in claims : h \notin c.handles
        /\ \A n \in Nets : \A i \in DOMAIN asked[n] : asked[n][i].handle # h
        /\ \A p \in Procs : call[p].handle # h}

Least(S) == CHOOSE x \in S : \A y \in S : x <= y

\* One more call or conflict, within the bound.
Another ==
    /\ events < IF orderly THEN MaxEvents ELSE MaxOverlapping
    /\ events' = events + 1

At(p, step) == call[p].step = step
Goto(p, step) == call' = [call EXCEPT ![p].step = step]

-----------------------------------------------------------------------------
(* The store, as the LAN manager updates it *)

RequestShare(r) ==
    /\ share' = [share EXCEPT ![r] = IF @ = "none" THEN "requested" ELSE @]
    /\ UNCHANGED <<stored, shareName>>

\* RemoveLANShare and SuspendLANShare do nothing to a route that is gone.
RemoveShare(r) ==
    /\ share' = [share EXCEPT ![r] = "none"]
    /\ shareName' = [shareName EXCEPT ![r] = NoName]
    /\ UNCHANGED stored

SuspendShare(r) ==
    /\ share' = [share EXCEPT ![r] = IF @ = "none" THEN @ ELSE "suspended"]
    /\ UNCHANGED <<stored, shareName>>

ActivateShare(r, name) ==
    /\ share' = [share EXCEPT ![r] = "active"]
    /\ shareName' = [shareName EXCEPT ![r] = name]
    /\ UNCHANGED stored

Unbound(r) == [n \in Names |-> IF bound[n] = r THEN NoRef ELSE bound[n]]

\* A route leaves the store behind the manager's back: it is released, or it
\* has expired and the next reservation drops it.
Vanish(r) ==
    /\ Another
    /\ r \in stored
    /\ stored' = stored \ {r}
    /\ share' = [share EXCEPT ![r] = "none"]
    /\ shareName' = [shareName EXCEPT ![r] = NoName]
    /\ UNCHANGED <<bound, world, manager, ingress, mdns, pump, call, todo, taken, orderly>>

-----------------------------------------------------------------------------
(* The end of a call, and of what Recover and RecoverVerified do for a route *)

Recovers(p) == p \in {Startup, Monitor} \/ call[p].kind = "renew"

\* Recover goes on with the next route, and so does reconcileNetwork.
Finished(p) ==
    IF todo[p] # {} THEN [call[p] EXCEPT !.step = "next", !.handle = None, !.net = None]
    ELSE Idle

Finish(p) == call' = [call EXCEPT ![p] = Finished(p)]

\* Create returns an error.
Refuse(p) ==
    IF Recovers(p) THEN Goto(p, "suspend") ELSE Finish(p)

Suspend(p) ==
    /\ At(p, "suspend")
    /\ SuspendShare(call[p].ref)
    /\ Finish(p)
    /\ UNCHANGED <<bound, world, manager, ingress, mdns, pump, rest>>

-----------------------------------------------------------------------------
(* Calls *)

First(kind) ==
    CASE kind = "create" -> "check"
      [] kind = "renew" -> "look"
      [] kind = "close" -> "cancel"
      [] OTHER -> "take"

Begin(p, kind, r) ==
    /\ At(p, "idle")
    /\ orderly => \A q \in Procs : At(q, "idle")
    /\ kind = "close" => ~closed
    /\ Another
    /\ call' = [call EXCEPT ![p] = [Idle EXCEPT !.kind = kind, !.ref = r, !.step = First(kind)]]
    /\ UNCHANGED <<store, bound, world, manager, ingress, mdns, pump, todo, taken, orderly>>

\* RecoverVerified, of a route that was renewed or lost its network.
Look(p) ==
    /\ At(p, "look")
    /\ \/ share[call[p].ref] = "none" /\ Finish(p)
       \/ share[call[p].ref] # "none" /\ (Goto(p, "suspend") \/ Goto(p, "check"))
    /\ UNCHANGED <<store, bound, world, manager, ingress, mdns, pump, rest>>

\* Recover reads the store once,
Load ==
    /\ At(Startup, "load")
    /\ todo' = [todo EXCEPT ![Startup] = {r \in stored : share[r] # "none"}]
    /\ Goto(Startup, "next")
    /\ UNCHANGED <<store, bound, world, manager, ingress, mdns, pump, taken, events, orderly>>

\* and handles the routes one by one: not every owner can be verified.
NextRoute(p) ==
    /\ At(p, "next")
    /\ \/ /\ todo[p] = {}
          /\ call' = [call EXCEPT ![p] = Idle]
          /\ UNCHANGED todo
       \/ \E r \in todo[p] :
            /\ todo' = [todo EXCEPT ![p] = @ \ {r}]
            /\ \E step \in IF p = Startup THEN {"suspend", "check"} ELSE {"look"} :
                  call' = [call EXCEPT ![p].ref = r, ![p].step = step]
    /\ UNCHANGED <<store, bound, world, manager, ingress, mdns, pump, taken, events, orderly>>

-----------------------------------------------------------------------------
(* Create *)

\* A route that is registered needs nothing; the share of another is requested
\* in the store, where only an active route can have one.
Check(p) ==
    /\ At(p, "check")
    /\ IF reg[call[p].ref] # None
       THEN Finish(p) /\ UNCHANGED store
       ELSE IF call[p].ref \in stored
            THEN RequestShare(call[p].ref) /\ Goto(p, "claim")
            ELSE Refuse(p) /\ UNCHANGED store
    /\ UNCHANGED <<bound, world, manager, ingress, mdns, pump, rest>>

\* The name is reserved under m.mu.
Reserve(p, n) ==
    /\ pending[Requested[call[p].ref]] = NoRef
    /\ pending' = [pending EXCEPT ![Requested[call[p].ref]] = call[p].ref]
    /\ call' = [call EXCEPT ![p].step = "register", ![p].net = n]

ReserveName(p) ==
    /\ At(p, "claim")
    /\ net # None
    /\ Reserve(p, net)
    /\ UNCHANGED <<store, bound, world, net, reg, regRef, ingress, mdns, pump, rest>>

NameTaken(p) ==
    /\ At(p, "claim")
    /\ pending[Requested[call[p].ref]] # NoRef
    /\ Refuse(p)
    /\ UNCHANGED <<store, bound, world, manager, ingress, mdns, pump, rest>>

\* ensureNetworkLocked: the ports are free once an earlier ingress is closed.
\* Both end with the context of the manager, at once if it is cancelled.
StartNetwork(p) ==
    /\ At(p, "claim")
    /\ net = None /\ online /\ ingress = {}
    /\ FreeNets # {}
    /\ LET n == Least(FreeNets) IN
          /\ Reserve(p, n)
          /\ net' = n
          /\ IF closed THEN UNCHANGED <<ingress, live>>
             ELSE ingress' = ingress \cup {n} /\ live' = live \cup {n}
          /\ valid' = valid \cup {n}
    /\ UNCHANGED <<store, bound, online, closed, reg, regRef, claims, asked, pump, rest>>

\* No network, a firewall that refuses, a port in use.
NetworkRefused(p) ==
    /\ At(p, "claim")
    /\ net = None /\ pending[Requested[call[p].ref]] = NoRef
    /\ Goto(p, "unrequest")
    /\ UNCHANGED <<store, bound, world, manager, ingress, mdns, pump, rest>>

Unrequest(p) ==
    /\ At(p, "unrequest")
    /\ RemoveShare(call[p].ref)
    /\ Refuse(p)
    /\ UNCHANGED <<bound, world, manager, ingress, mdns, pump, rest>>

\* No request of an earlier claim of a name is with the coordinator.  One that
\* is counts for the next claim too: generations start at 1 again.
Settled(n, name) ==
    /\ pump[n].requested # name
    /\ \A i \in DOMAIN asked[n] : asked[n][i].requested # name

\* Responder.Register: the claim is new, or active, or joined on its way.
Register(p) ==
    /\ At(p, "register")
    /\ call[p].net \in live /\ FreeHandles # {}
    /\ orderly => Settled(call[p].net, Requested[call[p].ref])
    /\ LET h == Least(FreeHandles)
           name == Requested[call[p].ref]
           old == ClaimOf(call[p].net, name)
       IN  /\ claims' = IF old = {} THEN claims \cup {Claim(call[p].net, name, {h})}
                        ELSE (claims \ old)
                                \cup {[c EXCEPT !.handles = @ \cup {h}] : c \in old}
           /\ call' = [call EXCEPT ![p].handle = h,
                                   ![p].step = IF \E c \in old : c.phase = "active"
                                               THEN "answered" ELSE "waiting"]
    /\ UNCHANGED <<store, bound, world, manager, ingress, live, asked, pump, rest>>

\* Register returns an error because the responder has ended, also when its
\* answer is there already.
ResponderGone(p) ==
    /\ call[p].step \in {"register", "waiting", "answered"}
    /\ call[p].net \notin live
    /\ Goto(p, "unroute")
    /\ UNCHANGED <<store, bound, world, manager, ingress, mdns, pump, rest>>

WithoutHandle(h) ==
    {[c EXCEPT !.handles = @ \ {h}] : c \in {d \in claims : d.handles # {h}}}

\* The client is gone: its registration is cancelled,
CancelWaiting(p) ==
    /\ At(p, "waiting") /\ p \in Callers /\ ~orderly
    /\ claims' = WithoutHandle(call[p].handle)
    /\ Goto(p, "unroute")
    /\ UNCHANGED <<store, bound, world, manager, ingress, live, asked, pump, rest>>

\* unless the answer is on its way and select takes the other branch.
CancelAnswered(p) ==
    /\ At(p, "answered") /\ p \in Callers /\ ~orderly
    /\ Goto(p, "unroute")
    /\ UNCHANGED <<store, bound, world, manager, ingress, mdns, pump, rest>>

\* The registration is entered under m.mu, whatever has become of it.
Enter(p) ==
    /\ At(p, "answered")
    /\ reg' = [reg EXCEPT ![call[p].ref] = call[p].handle]
    /\ regRef' = [regRef EXCEPT ![call[p].handle] = call[p].ref]
    /\ Finish(p)
    /\ UNCHANGED <<store, bound, world, net, pending, ingress, mdns, pump, rest>>

-----------------------------------------------------------------------------
(* rollbackCreate *)

Unroute(p) ==
    /\ At(p, "unroute")
    /\ bound' = Unbound(call[p].ref)
    /\ Goto(p, "unshare")
    /\ UNCHANGED <<store, world, manager, ingress, mdns, pump, rest>>

Unshare(p) ==
    /\ At(p, "unshare")
    /\ RemoveShare(call[p].ref)
    /\ Goto(p, "forget")
    /\ UNCHANGED <<bound, world, manager, ingress, mdns, pump, rest>>

\* The network is given up with the last registration.
Last(registered) == \A r \in Refs : registered[r] = None

\* What a goroutine does once it has closed the network it took.
Closing(p, after) ==
    call' = [call EXCEPT ![p].net = net, ![p].step = "close", ![p].after = after]

\* Mutant: the name stays reserved.
Mutant_Forget(p) ==
    /\ At(p, "forget")
    /\ IF Last(reg) /\ net # None
       THEN net' = None /\ Closing(p, "refuse")
       ELSE UNCHANGED net /\ Refuse(p)
    /\ UNCHANGED <<store, bound, world, pending, reg, regRef, ingress, mdns, pump, rest>>

Forget(p) ==
    /\ At(p, "forget")
    /\ pending' = [pending EXCEPT ![Requested[call[p].ref]] = NoRef]
    /\ IF Last(reg) /\ net # None
       THEN net' = None /\ Closing(p, "refuse")
       ELSE UNCHANGED net /\ Refuse(p)
    /\ UNCHANGED <<store, bound, world, reg, regRef, ingress, mdns, pump, rest>>

\* Responder.Close says goodbye and ends the responder,
CloseResponder(p) ==
    /\ At(p, "close")
    /\ live' = live \ {call[p].net}
    /\ claims' = {c \in claims : c.net # call[p].net}
    /\ Goto(p, "drain")
    /\ UNCHANGED <<store, bound, world, manager, ingress, asked, pump, rest>>

\* and waits for its pump; then the ports are closed.
CloseIngress(p) ==
    /\ At(p, "drain")
    /\ pump[call[p].net] = NoWork
    /\ asked' = [asked EXCEPT ![call[p].net] = <<>>]
    /\ ingress' = ingress \ {call[p].net}
    /\ valid' = valid \ {call[p].net}
    /\ CASE call[p].after = "refuse" -> Refuse(p)
         [] call[p].after = "delete" -> Goto(p, "delete")
         [] OTHER -> Finish(p)
    /\ UNCHANGED <<store, bound, online, closed, manager, live, claims, pump, rest>>

-----------------------------------------------------------------------------
(* Remove, for DELETE of a share and of a route *)

\* The maps forget the route, and the network with the last registration.
Take(p) ==
    /\ At(p, "take")
    /\ LET r == call[p].ref
           h == reg[r]
       IN  /\ reg' = [reg EXCEPT ![r] = None]
           /\ IF h = None THEN UNCHANGED <<regRef, pending>>
              ELSE /\ regRef' = [regRef EXCEPT ![h] = NoRef]
                   /\ pending' = [pending EXCEPT ![Requested[r]] = NoRef]
           /\ net' = IF Last(reg') THEN None ELSE net
           /\ call' = [call EXCEPT ![p].handle = h,
                                   ![p].net = IF Last(reg') THEN net ELSE None,
                                   ![p].step = "release"]
    /\ UNCHANGED <<store, bound, world, ingress, mdns, pump, rest>>

\* Monitor and Close withdraw all registrations.
Sweeps(p) == p = Monitor \/ call[p].kind = "close"

\* registration.Close fails if the responder has ended or the client is gone;
\* what becomes of the registration is then open.  RemoveLANRoute follows.
Release(p) ==
    /\ At(p, "release")
    /\ bound' = Unbound(call[p].ref)
    /\ LET failures == IF /\ call[p].handle # None
                         /\ \/ p \in Callers /\ ~orderly
                            \/ \A c \in claims : call[p].handle \notin c.handles
                       THEN BOOLEAN ELSE {FALSE}
       IN  \E failed \in failures :
              call' = [call EXCEPT ![p].failed = failed,
                                   ![p].step = IF Sweeps(p) THEN "suspendOld" ELSE "remove"]
    /\ \/ claims' = WithoutHandle(call[p].handle)
       \/ call'[p].failed /\ UNCHANGED claims
    /\ UNCHANGED <<store, world, manager, ingress, live, asked, pump, rest>>

AfterRemove(p) ==
    IF call[p].kind = "delete" /\ ~call[p].failed THEN "delete" ELSE "finish"

RemoveLANShare(p) ==
    /\ At(p, "remove")
    /\ RemoveShare(call[p].ref)
    /\ IF call[p].net # None
       THEN call' = [call EXCEPT ![p].step = "close", ![p].after = AfterRemove(p)]
       ELSE IF AfterRemove(p) = "delete" THEN Goto(p, "delete") ELSE Finish(p)
    /\ UNCHANGED <<bound, world, manager, ingress, mdns, pump, rest>>

DeleteRoute(p) ==
    /\ At(p, "delete")
    /\ stored' = stored \ {call[p].ref}
    /\ share' = [share EXCEPT ![call[p].ref] = "none"]
    /\ shareName' = [shareName EXCEPT ![call[p].ref] = NoName]
    /\ Finish(p)
    /\ UNCHANGED <<bound, world, manager, ingress, mdns, pump, rest>>

-----------------------------------------------------------------------------
(* The network changes, and the monitor notices: reconcileNetwork *)

NetworkChanges ==
    /\ Another
    /\ valid' = {}
    /\ online' \in BOOLEAN
    /\ UNCHANGED <<store, bound, closed, manager, ingress, mdns, pump, call, todo, taken, orderly>>

NetworkReturns ==
    /\ ~online
    /\ online' = TRUE
    /\ UNCHANGED <<store, bound, valid, closed, manager, ingress, mdns, pump, call, rest>>

Notice ==
    /\ At(Monitor, "idle")
    /\ orderly => \A q \in Procs : At(q, "idle")
    /\ ~closed
    /\ net # None /\ net \notin valid
    /\ call' = [call EXCEPT ![Monitor].step = "swap", ![Monitor].net = net]
    /\ UNCHANGED <<store, bound, world, manager, ingress, mdns, pump, rest>>

\* Mutant: the manager keeps the network that is about to be closed.
Mutant_TakeAll(p) ==
    /\ taken' = [taken EXCEPT ![p] = reg]
    /\ reg' = [r \in Refs |-> None]
    /\ regRef' = [h \in Handles |-> NoRef]
    /\ call' = [call EXCEPT ![p].net = net, ![p].step = "each"]
    /\ UNCHANGED <<net, pending>>

TakeAll(p) ==
    /\ taken' = [taken EXCEPT ![p] = reg]
    /\ net' = None
    /\ pending' = [n \in Names |-> NoRef]
    /\ reg' = [r \in Refs |-> None]
    /\ regRef' = [h \in Handles |-> NoRef]
    /\ call' = [call EXCEPT ![p].net = net, ![p].step = "each"]

\* The maps are emptied under m.mu if the interface and the address are still
\* those that were looked at: a later network may have the same.
Swap ==
    /\ At(Monitor, "swap")
    /\ \/ /\ net # call[Monitor].net
          /\ Finish(Monitor)
          /\ UNCHANGED <<manager, taken>>
       \/ net # None /\ TakeAll(Monitor)
    /\ UNCHANGED <<store, bound, world, ingress, mdns, pump, todo, events, orderly>>

\* Each registration is withdrawn; then the network is closed,
WithdrawNext(p) ==
    /\ At(p, "each")
    /\ \E r \in Refs :
          /\ taken[p][r] # None
          /\ taken' = [taken EXCEPT ![p][r] = None]
          /\ todo' = IF p = Monitor THEN [todo EXCEPT ![p] = @ \cup {r}] ELSE todo
          /\ call' = [call EXCEPT ![p].step = "release",
                                  ![p].ref = r, ![p].handle = taken[p][r]]
    /\ UNCHANGED <<store, bound, world, manager, ingress, mdns, pump, events, orderly>>

SuspendOld(p) ==
    /\ At(p, "suspendOld")
    /\ SuspendShare(call[p].ref)
    /\ Goto(p, "each")
    /\ UNCHANGED <<bound, world, manager, ingress, mdns, pump, rest>>

\* and the monitor recovers every route.
AllWithdrawn(p) ==
    /\ At(p, "each")
    /\ Last(taken[p])
    /\ IF call[p].net = None THEN Finish(p)
       ELSE call' = [call EXCEPT ![p].step = "close", ![p].after = "finish"]
    /\ UNCHANGED <<store, bound, world, manager, ingress, mdns, pump, rest>>

-----------------------------------------------------------------------------
(* Close, when the router stops: requests may still be served meanwhile *)

\* The responder and the ports end with the context,
CancelManager(p) ==
    /\ At(p, "cancel")
    /\ closed' = TRUE
    /\ live' = {} /\ claims' = {} /\ ingress' = {}
    /\ Goto(p, "takeAll")
    /\ UNCHANGED <<store, bound, online, valid, manager, asked, pump, rest>>

\* and the shares are suspended, for the next router to recover.
Shutdown(p) ==
    /\ At(p, "takeAll")
    /\ TakeAll(p)
    /\ UNCHANGED <<store, bound, world, ingress, mdns, pump, todo, events, orderly>>

-----------------------------------------------------------------------------
(* The claims of a responder, as far as the manager depends on them *)

Replace(c, d) == claims' = (claims \ {c}) \cup {d}

Waiting(c) == {p \in Procs : At(p, "waiting") /\ call[p].handle \in c.handles}

Answer(c, step) ==
    call' = [p \in Procs |-> IF p \in Waiting(c) THEN [call[p] EXCEPT !.step = step]
                             ELSE call[p]]

\* Mutant: those who wait for the claim are not told.
Mutant_Drop(c) ==
    /\ claims' = claims \ {c}
    /\ UNCHANGED call

\* A claim that fails is dropped: those who wait for it are told.
Drop(c) ==
    /\ claims' = claims \ {c}
    /\ Answer(c, "unroute")

\* Nobody answered the probes: the manager is asked before the name is used.
\* Probing takes 750 ms: a Prepare that has its certificate has ended by then.
Ask(c) ==
    /\ c.phase = "probing"
    /\ pump[c.net].step \in {"idle", "bind"}
    /\ Replace(c, [c EXCEPT !.phase = "preparing"])
    /\ \E h \in c.handles :
          asked' = [asked EXCEPT ![c.net] = Append(@,
              [handle |-> h, requested |-> c.requested, generation |-> c.generation,
               proposed |-> c.candidate, previous |-> c.current])]
    /\ UNCHANGED <<store, bound, world, manager, ingress, live, pump, call, rest>>

\* Somebody else has the name: the next one is tried, or none is left.
Lose(c) ==
    /\ c.phase \in {"probing", "preparing"}
    /\ Another
    /\ LET tried == Alternatives[c.requested]
           later == {i \in DOMAIN tried : \E j \in 1 .. i - 1 : tried[j] = c.candidate}
       IN  IF later = {} THEN Drop(c)
           ELSE /\ Replace(c, [c EXCEPT !.candidate = tried[Least(later)], !.phase = "probing",
                                        !.generation = @ + 1])
                /\ UNCHANGED call
    /\ UNCHANGED <<store, bound, world, manager, ingress, live, asked, pump, todo, taken, orderly>>

\* Second announcement.
Confirm(c) ==
    /\ c.phase = "announcing"
    /\ Replace(c, [c EXCEPT !.phase = "active"])
    /\ Answer(c, "answered")
    /\ UNCHANGED <<store, bound, world, manager, ingress, live, asked, pump, rest>>

\* Another host answers with the name: it is probed for again.
ProbeAgain(c) ==
    /\ c.phase \in {"announcing", "active"}
    /\ Another
    /\ Replace(c, [c EXCEPT !.candidate = c.current, !.phase = "probing",
                            !.generation = @ + 1])
    /\ UNCHANGED <<store, bound, world, manager, ingress, live, asked, pump, call, todo, taken, orderly>>

\* A full write queue drops one claim; a failed write ends the responder.
WriteFails(c) ==
    /\ Another
    /\ \/ c.phase \in {"probing", "announcing"} /\ Drop(c) /\ UNCHANGED live
       \/ /\ live' = live \ {c.net}
          /\ claims' = {d \in claims : d.net # c.net}
          /\ UNCHANGED call
    /\ UNCHANGED <<store, bound, world, manager, ingress, asked, pump, todo, taken, orderly>>

-----------------------------------------------------------------------------
(* Prepare, called by the coordinator pump of a responder *)

Owner(q) == IF regRef[q.handle] # NoRef THEN regRef[q.handle] ELSE pending[q.requested]

Work(n, step) == pump' = [pump EXCEPT ![n].step = step]

\* The route is looked up under m.mu.
StartPrepare(n) ==
    /\ pump[n] = NoWork /\ asked[n] # <<>>
    /\ LET q == Head(asked[n]) IN
          pump' = [pump EXCEPT ![n] =
                      [step |-> IF Owner(q) = NoRef THEN "failed" ELSE "bind",
                       ref |-> Owner(q), requested |-> q.requested,
                       generation |-> q.generation,
                       proposed |-> q.proposed, previous |-> q.previous, iface |-> net]]
    /\ asked' = [asked EXCEPT ![n] = Tail(@)]
    /\ UNCHANGED <<store, bound, world, manager, ingress, live, claims, call, rest>>

\* RegisterLANRoute refuses a name that another route has; a certificate may
\* be missing as well.
Bind(n) ==
    /\ pump[n].step = "bind"
    /\ \/ /\ bound[pump[n].proposed] \in {NoRef, pump[n].ref}
          /\ bound' = [bound EXCEPT ![pump[n].proposed] = pump[n].ref]
          /\ Work(n, "activate")
       \/ UNCHANGED bound /\ Work(n, "failed")
    /\ UNCHANGED <<store, world, manager, ingress, mdns, call, rest>>

CanActivate(n) ==
    pump[n].ref \in stored /\ share[pump[n].ref] # "none" /\ pump[n].iface # None

\* RemoveLANHostname
Unbind(name, r) ==
    bound' = IF name # NoName /\ bound[name] = r THEN [bound EXCEPT ![name] = NoRef] ELSE bound

\* Mutant: the certificate of a name that was only probed for again is removed.
Mutant_Former(w) == w.previous

\* The name a claim gives up, if it does.
Former(w) == IF w.previous = w.proposed THEN NoName ELSE w.previous

\* A share that cannot be activated loses the certificate again, and one that
\* has been activated the certificate of its previous name.
ActivateLANShare(n) ==
    /\ pump[n].step = "activate"
    /\ LET w == pump[n] IN
          \/ /\ CanActivate(n)
             /\ ActivateShare(w.ref, w.proposed)
             /\ Unbind(Former(w), w.ref)
             /\ Work(n, "ready")
          \/ /\ ~CanActivate(n)
             /\ Unbind(w.proposed, w.ref)
             /\ Work(n, "failed")
             /\ UNCHANGED store
    /\ UNCHANGED <<world, manager, ingress, mdns, call, rest>>

\* The actor takes the result if it is still what it waits for.
Deliver(n) ==
    /\ pump[n].step \in {"ready", "failed"}
    /\ pump' = [pump EXCEPT ![n] = NoWork]
    /\ LET due == {c \in ClaimOf(n, pump[n].requested) :
                      c.phase = "preparing" /\ c.generation = pump[n].generation}
       IN  \/ due = {} /\ UNCHANGED <<claims, call>>
           \/ \E c \in due :
                IF pump[n].step = "failed" THEN Drop(c)
                ELSE /\ Replace(c, [c EXCEPT !.phase = "announcing", !.current = c.candidate])
                     /\ UNCHANGED call
    /\ UNCHANGED <<store, bound, world, manager, ingress, live, asked, rest>>

-----------------------------------------------------------------------------

Creating(p) ==
    \/ Check(p) \/ ReserveName(p) \/ NameTaken(p)
    \/ StartNetwork(p) \/ NetworkRefused(p) \/ Unrequest(p)
    \/ Register(p) \/ ResponderGone(p) \/ Enter(p)
    \/ Unroute(p) \/ Unshare(p) \/ Forget(p)

Removing(p) ==
    \/ Take(p) \/ Release(p) \/ RemoveLANShare(p) \/ DeleteRoute(p)

Recovering(p) == Look(p) \/ NextRoute(p) \/ Suspend(p)

\* What a goroutine does of itself.
Working(p) ==
    \/ Creating(p) \/ Removing(p) \/ Recovering(p)
    \/ CloseResponder(p) \/ CloseIngress(p)
    \/ p = Startup /\ Load
    \/ p = Monitor /\ Swap
    \/ WithdrawNext(p) \/ SuspendOld(p) \/ AllWithdrawn(p)
    \/ CancelManager(p) \/ Shutdown(p)

Cancelling(p) == CancelWaiting(p) \/ CancelAnswered(p)

Claiming == \E c \in claims : Ask(c) \/ Confirm(c)

Disturbance ==
    \/ \E c \in claims : Lose(c) \/ ProbeAgain(c) \/ WriteFails(c)
    \/ NetworkChanges

Preparing(n) ==
    \/ StartPrepare(n)
    \/ Bind(n) \/ ActivateLANShare(n) \/ Deliver(n)

Quiet ==
    /\ \A p \in Procs : At(p, "idle")
    /\ \A n \in Nets : pump[n] = NoWork /\ asked[n] = <<>>
    /\ \A c \in claims : c.phase = "active"

\* Nothing is left to do within the bounds.
Rest == Quiet /\ UNCHANGED vars

Next ==
    \/ Rest
    \/ \E p \in Callers, r \in Refs, kind \in {"create", "renew", "remove", "delete", "close"} :
          Begin(p, kind, r)
    \/ \E p \in Procs : Working(p) \/ Cancelling(p)
    \/ Notice \/ Claiming \/ Disturbance \/ NetworkReturns
    \/ \E n \in Nets : Preparing(n)
    \/ \E r \in Refs : Vanish(r)

Spec == Init /\ [][Next]_vars

-----------------------------------------------------------------------------

TypeOK ==
    /\ stored \subseteq Refs
    /\ share \in [Refs -> ShareStates]
    /\ shareName \in [Refs -> Names \cup {NoName}]
    /\ bound \in [Names -> Refs \cup {NoRef}]
    /\ online \in BOOLEAN /\ closed \in BOOLEAN /\ valid \subseteq Nets
    /\ net \in Nets \cup {None}
    /\ pending \in [Names -> Refs \cup {NoRef}]
    /\ reg \in [Refs -> Handles \cup {None}]
    /\ regRef \in [Handles -> Refs \cup {NoRef}]
    /\ ingress \subseteq Nets /\ live \subseteq Nets
    /\ \A c \in claims :
          /\ c.net \in Nets /\ c.requested \in Names /\ c.candidate \in Names
          /\ c.handles # {} /\ c.handles \subseteq Handles
          /\ c.phase \in {"announcing", "active"} => c.current \in Names
    /\ \A n \in Nets : pump[n].step \in {"idle", "bind", "activate", "ready", "failed"}
    /\ \A p \in Procs : todo[p] \subseteq Refs /\ call[p].ref \in Refs \cup {NoRef}

\* Those who have taken a network out of the manager and are to close it.
Closers(n) ==
    {p \in Procs : /\ call[p].net = n
                   /\ call[p].step \in {"release", "remove", "suspendOld", "each", "close", "drain"}}

\* The network of the manager is open until it is taken out, and one that was
\* taken out is closed once: by one goroutine, whatever else happens meanwhile.
\* (lan_manager.go: Remove, rollbackCreate, reconcileNetwork, Close)
NetworkOwned ==
    /\ TypeOK
    /\ net # None => Closers(net) = {} /\ (net \in ingress \/ closed)
    /\ \A n \in ingress : n # net => Cardinality(Closers(n)) = 1

\* Somebody who waits in Register is waited for: his responder has ended, or it
\* has a claim for him that is on its way; and a claim that waits for Prepare is
\* in the queue or in the hands of the coordinator pump.
\* (lanmdns/responder.go: Register; actor.go: completeClaim)
WaitersServed ==
    /\ \A p \in Procs :
          At(p, "waiting") /\ call[p].net \in live =>
              \E c \in claims : /\ c.net = call[p].net
                               /\ call[p].handle \in c.handles
                               /\ c.phase # "active"
    /\ \A c \in claims :
          c.phase = "preparing" =>
              \/ \E i \in DOMAIN asked[c.net] :
                    /\ asked[c.net][i].requested = c.requested
                    /\ asked[c.net][i].generation = c.generation
              \/ /\ pump[c.net].requested = c.requested
                 /\ pump[c.net].generation = c.generation

\* Where no two calls overlap and a name is registered anew only once what was
\* asked for it has ended, what is announced for a registered route is what the
\* store shows as its host name and what the TLS server has its certificate
\* for, also while it changes its name or loses its network.
\* (lan_manager.go: Prepare, Remove, reconcileNetwork)
AnnouncedServed ==
    orderly =>
        \A c \in claims : \A h \in c.handles :
            LET r == regRef[h] IN
            c.phase = "active" /\ r \in stored =>
                share[r] # "none" /\ shareName[r] = c.current /\ bound[c.current] = r

\* Where no two calls overlap, nothing is left behind by them: a reserved name
\* and a claim belong to a registered route.
\* (lan_manager.go: Create, rollbackCreate, Remove)
NothingLeft ==
    orderly /\ Quiet =>
        /\ \A n \in Names : pending[n] # NoRef => reg[pending[n]] # None
        /\ \A c \in claims : \A h \in c.handles : regRef[h] # NoRef /\ reg[regRef[h]] = h

Renewed(p) ==
    call[p].kind = "renew" /\ call[p].step \in {"check", "answered"} /\ call'[p].step = "idle"

\* A renewal that finds the target reachable and whose Create succeeds has
\* recovered the share.  The code does not: Create returns at once for a route
\* that is registered, and leaves a share suspended that an earlier renewal
\* suspended while the target was away.
\* (lan_manager.go: RecoverVerified; lan_manager_test.go:369,382)
RenewalRecovers ==
    [][\A p \in Procs : Renewed(p) => share'[call[p].ref] # "suspended"]_vars

=============================================================================
