-------------------------- MODULE LANManagerProofs --------------------------
(***************************************************************************)
(* The LAN manager opens and closes a network once, and nobody waits for a *)
(* responder in vain; where no two calls overlap, what is announced is     *)
(* served, and calls that have ended leave nothing behind: for any number  *)
(* of routes, names, calls, networks and registrations.                    *)
(***************************************************************************)
EXTENDS LANManager, FiniteSetTheorems, SequenceTheorems, WellFoundedInduction, TLAPS

-----------------------------------------------------------------------------
(* Types *)

Phases == {"probing", "preparing", "announcing", "active"}
Kinds == {"none", "create", "renew", "remove", "delete", "close"}

\* Steps of a call that is about a route, that has a network, a registration.
RouteSteps ==
    {"look", "suspend", "check", "claim", "register", "waiting", "answered",
     "unroute", "unshare", "forget", "unrequest", "take", "release", "remove",
     "suspendOld", "delete"}
NetSteps == {"register", "waiting", "answered", "swap", "close", "drain"}
HandleSteps == {"waiting", "answered"}
Steps ==
    RouteSteps \cup NetSteps
        \cup {"idle", "load", "next", "each", "cancel", "takeAll"}

Calls ==
    [kind : Kinds, step : Steps, ref : Refs \cup {NoRef}, net : Nets \cup {None},
     handle : Handles \cup {None}, failed : BOOLEAN,
     after : {"none", "refuse", "delete", "finish"}]

Requests ==
    [handle : Handles, requested : Names, generation : Nat, proposed : Names,
     previous : Names \cup {NoName}]

Works ==
    [step : {"idle", "bind", "activate", "ready", "failed"}, ref : Refs \cup {NoRef},
     requested : Names \cup {NoName}, generation : Nat, proposed : Names \cup {NoName},
     previous : Names \cup {NoName}, iface : Nets \cup {None}]

AllClaims ==
    [net : Nets, requested : Names, candidate : Names, current : Names \cup {NoName},
     generation : Nat, phase : Phases, handles : (SUBSET Handles) \ {{}}]

CallTyped(d) ==
    /\ d \in Calls
    /\ d.step \in RouteSteps => d.ref \in Refs
    /\ d.step \in NetSteps => d.net \in Nets
    /\ d.step \in HandleSteps => d.handle \in Handles
    /\ d.after \in {"refuse", "delete"} => d.ref \in Refs

WorkTyped(w) ==
    /\ w \in Works
    /\ w.step \in {"bind", "activate"} => w.ref \in Refs /\ w.proposed \in Names

ClaimTyped(c) ==
    /\ c \in AllClaims
    /\ c.phase \in {"announcing", "active"} => c.current \in Names

StoreTyped ==
    /\ stored \subseteq Refs
    /\ share \in [Refs -> ShareStates]
    /\ shareName \in [Refs -> Names \cup {NoName}]
BoundTyped == bound \in [Names -> Refs \cup {NoRef}]
WorldTyped == online \in BOOLEAN /\ closed \in BOOLEAN /\ valid \subseteq Nets
ManagerTyped ==
    /\ net \in Nets \cup {None}
    /\ pending \in [Names -> Refs \cup {NoRef}]
    /\ reg \in [Refs -> Handles \cup {None}]
    /\ regRef \in [Handles -> Refs \cup {NoRef}]
NetsTyped == ingress \subseteq Nets /\ live \subseteq Nets
ClaimsTyped == \A c \in claims : ClaimTyped(c)
AskedTyped == asked \in [Nets -> Seq(Requests)]
PumpTyped == pump \in [Nets -> Works] /\ \A n \in Nets : WorkTyped(pump[n])
CallsTyped == call \in [Procs -> Calls] /\ \A p \in Procs : CallTyped(call[p])
RestTyped ==
    /\ todo \in [Procs -> SUBSET Refs]
    /\ taken \in [Procs -> [Refs -> Handles \cup {None}]]

Typed ==
    /\ StoreTyped /\ BoundTyped /\ WorldTyped /\ ManagerTyped /\ NetsTyped
    /\ ClaimsTyped /\ AskedTyped /\ PumpTyped /\ CallsTyped /\ RestTyped

-----------------------------------------------------------------------------
(* Who is to close a network *)

ClosingSteps == {"release", "remove", "suspendOld", "each", "close", "drain"}
Closes(p) == IF call[p].step \in ClosingSteps THEN call[p].net ELSE None

NetsInv ==
    /\ net # None => (net \in ingress \/ closed) /\ \A p \in Procs : Closes(p) # net
    /\ \A p, q \in Procs : Closes(p) = Closes(q) /\ Closes(p) # None => p = q
    /\ \A n \in ingress : n # net => \E p \in Procs : Closes(p) = n

-----------------------------------------------------------------------------
(* Who waits for what *)

Lone(p) ==
    At(p, "waiting") =>
        /\ \A q \in Procs \ {p} : call[q].handle # call[p].handle
        /\ \A r \in Refs : reg[r] # call[p].handle
        /\ \A q \in Procs : \A r \in Refs : taken[q][r] # call[p].handle
LoneInv == \A p \in Procs : Lone(p)

ClaimsInv ==
    /\ \A c \in claims : c.net \in live
    /\ \A c, d \in claims : c.net = d.net /\ c.requested = d.requested => c = d
    /\ \A p \in Procs : At(p, "drain") => call[p].net \notin live

LANInv == Typed /\ NetsInv /\ LoneInv /\ ClaimsInv /\ WaitersServed

-----------------------------------------------------------------------------
(* Numbers that are free *)

LEMMA LeastIs ==
  ASSUME NEW S \in SUBSET Nat, S # {}
  PROVE  Least(S) \in S /\ \A y \in S : Least(S) <= y
<1>1. PICK x \in S : \A y \in S : ~(<<y, x>> \in OpToRel(<, Nat))
  BY WFMin, NatLessThanWellFounded
<1>2. \A y \in S : ~(y < x)
  BY <1>1 DEF OpToRel
<1>3. \A y \in S : x <= y
  BY <1>2
<1> QED BY <1>3 DEF Least

\* None is no number of a network or of a registration.
LEMMA NoneIsNone == None \notin Nets /\ None \notin Handles /\ Nets \subseteq Nat /\ Handles \subseteq Nat
BY LANBoundsAssumption DEF None, Nets, Handles

-----------------------------------------------------------------------------
(* What becomes of a call *)

Elsewhere(p) == \A q \in Procs \ {p} : call'[q] = call[q]

LEMMA Setting ==
  ASSUME CallsTyped, NEW p \in Procs, NEW d, CallTyped(d), call' = [call EXCEPT ![p] = d]
  PROVE  CallsTyped' /\ call'[p] = d /\ Elsewhere(p)
<1>1. call'[p] = d /\ Elsewhere(p) /\ call' \in [Procs -> Calls]
  BY DEF CallsTyped, CallTyped, Elsewhere
<1>2. \A q \in Procs : CallTyped(call'[q])
  BY <1>1 DEF CallsTyped, Elsewhere
<1>3. CallsTyped'
  BY <1>1, <1>2 DEF CallsTyped, CallTyped
<1> QED BY <1>1, <1>3

LEMMA Going ==
  ASSUME CallsTyped, NEW p \in Procs, NEW s \in Steps, Goto(p, s),
         s \in RouteSteps => call[p].ref \in Refs,
         s \in NetSteps => call[p].net \in Nets,
         s \in HandleSteps => call[p].handle \in Handles
  PROVE  /\ CallsTyped' /\ Elsewhere(p)
         /\ call'[p].step = s /\ call'[p].net = call[p].net /\ call'[p].handle = call[p].handle
<1> DEFINE d == [call[p] EXCEPT !.step = s]
<1>1. call[p] \in Calls /\ CallTyped(call[p])
  BY DEF CallsTyped
<1>2. CallTyped(d)
  BY <1>1 DEF CallTyped, Calls
<1>3. call' = [call EXCEPT ![p] = d]
  BY DEF Goto, CallsTyped
<1>4. d.step = s /\ d.net = call[p].net /\ d.handle = call[p].handle
  BY <1>1 DEF Calls
<1> QED BY <1>2, <1>3, <1>4, Setting

\* A call that is not under way.
LEMMA IdleTyped == CallTyped(Idle)
BY DEF CallTyped, Calls, Idle, Steps, RouteSteps, NetSteps, HandleSteps, Kinds

\* The call ends, or goes on with the next route.
LEMMA Finishing ==
  ASSUME CallsTyped, NEW p \in Procs, Finish(p)
  PROVE  /\ CallsTyped' /\ Elsewhere(p)
         /\ call'[p].step \in {"idle", "next"} /\ call'[p].net = None /\ call'[p].handle = None
<1>1. call[p] \in Calls /\ CallTyped(call[p])
  BY DEF CallsTyped
<1> DEFINE d == [call[p] EXCEPT !.step = "next", !.handle = None, !.net = None]
<1>5. CallTyped(d)
  <2>1. "next" \in Steps /\ "next" \notin RouteSteps \cup NetSteps \cup HandleSteps
    BY DEF Steps, RouteSteps, NetSteps, HandleSteps
  <2>2. d \in Calls /\ d.step = "next" /\ d.ref = call[p].ref /\ d.after = call[p].after
    BY <1>1, <2>1 DEF Calls
  <2> QED BY <1>1, <2>1, <2>2 DEF CallTyped
<1>6. CallTyped(Idle)
  BY IdleTyped
<1>2. CallTyped(Finished(p))
  BY <1>5, <1>6 DEF Finished
<1>3. /\ Finished(p).step \in {"idle", "next"} /\ Finished(p).net = None
      /\ Finished(p).handle = None
  BY <1>1 DEF Calls, Finished, Idle
<1>4. call' = [call EXCEPT ![p] = Finished(p)]
  BY DEF Finish
<1> QED BY <1>2, <1>3, <1>4, Setting

LEMMA Refusing ==
  ASSUME CallsTyped, NEW p \in Procs, Refuse(p), call[p].ref \in Refs
  PROVE  /\ CallsTyped' /\ Elsewhere(p)
         /\ call'[p].step \in {"idle", "next", "suspend"}
         /\ call'[p].handle \in {call[p].handle, None}
<1>1. CASE Finish(p)
  BY <1>1, Finishing
<1>2. CASE Goto(p, "suspend")
  BY <1>2, Going DEF Steps, RouteSteps, NetSteps, HandleSteps
<1> QED BY <1>1, <1>2 DEF Refuse

-----------------------------------------------------------------------------
(* What leaves everything as it is *)

LEMMA Unmoved ==
  /\ StoreTyped /\ UNCHANGED store => StoreTyped'
  /\ BoundTyped /\ UNCHANGED bound => BoundTyped'
  /\ WorldTyped /\ UNCHANGED world => WorldTyped'
  /\ ManagerTyped /\ UNCHANGED manager => ManagerTyped'
  /\ NetsTyped /\ UNCHANGED <<ingress, live>> => NetsTyped'
  /\ ClaimsTyped /\ UNCHANGED claims => ClaimsTyped'
  /\ AskedTyped /\ UNCHANGED asked => AskedTyped'
  /\ PumpTyped /\ UNCHANGED pump => PumpTyped'
  /\ CallsTyped /\ UNCHANGED call => CallsTyped'
  /\ RestTyped /\ UNCHANGED <<todo, taken>> => RestTyped'
<1>1. StoreTyped /\ UNCHANGED store => StoreTyped'
  BY DEF StoreTyped, store
<1>2. BoundTyped /\ UNCHANGED bound => BoundTyped'
  BY DEF BoundTyped
<1>3. WorldTyped /\ UNCHANGED world => WorldTyped'
  BY DEF WorldTyped, world
<1>4. ManagerTyped /\ UNCHANGED manager => ManagerTyped'
  BY DEF ManagerTyped, manager
<1>5. NetsTyped /\ UNCHANGED <<ingress, live>> => NetsTyped'
  BY DEF NetsTyped
<1>6. ClaimsTyped /\ UNCHANGED claims => ClaimsTyped'
  BY DEF ClaimsTyped
<1>7. AskedTyped /\ UNCHANGED asked => AskedTyped'
  BY DEF AskedTyped
<1>8. PumpTyped /\ UNCHANGED pump => PumpTyped'
  BY DEF PumpTyped
<1>9. CallsTyped /\ UNCHANGED call => CallsTyped'
  BY DEF CallsTyped
<1>10. RestTyped /\ UNCHANGED <<todo, taken>> => RestTyped'
  BY DEF RestTyped
<1> QED BY <1>1, <1>2, <1>3, <1>4, <1>5, <1>6, <1>7, <1>8, <1>9, <1>10

\* Who closes a network, waits for a claim or empties a queue does so as before.
Plain ==
  /\ UNCHANGED <<net, ingress, closed, reg, taken, mdns>>
  /\ \A n \in Nets : /\ pump'[n].requested = pump[n].requested
                     /\ pump'[n].generation = pump[n].generation
  /\ \A q \in Procs : /\ call'[q].handle \in {call[q].handle, None}
                      /\ call'[q].step \in {"waiting", "drain"} => call'[q] = call[q]
                      /\ Closes(q)' = Closes(q)

LEMMA LoneStays ==
  ASSUME Typed, LoneInv, UNCHANGED <<reg, taken>>,
         \A q \in Procs : /\ call'[q].handle \in {call[q].handle, None}
                          /\ call'[q].step = "waiting" => call'[q] = call[q]
  PROVE  LoneInv'
<1> SUFFICES ASSUME NEW p \in Procs, call'[p].step = "waiting" PROVE Lone(p)'
  BY DEF LoneInv, Lone, At
<1>1. call'[p] = call[p] /\ At(p, "waiting")
  BY DEF At
<1>2. call[p].handle \in Handles
  BY <1>1 DEF Typed, CallsTyped, CallTyped, At, HandleSteps
<1> QED BY <1>1, <1>2, NoneIsNone DEF LoneInv, Lone

LEMMA PlainKeeps ==
  ASSUME LANInv, Plain
  PROVE  NetsInv' /\ LoneInv' /\ ClaimsInv' /\ WaitersServed'
<1>1. NetsInv'
  BY DEF LANInv, NetsInv, Plain
<1>2. LoneInv'
  BY LoneStays DEF LANInv, Plain
<1>3. ClaimsInv'
  BY DEF LANInv, ClaimsInv, Plain, mdns, At
<1>4. \A c \in claims : c.net \in Nets
  BY DEF LANInv, Typed, ClaimsTyped, ClaimTyped, AllClaims
<1>5. WaitersServed'
  BY <1>4 DEF LANInv, WaitersServed, Plain, mdns, At
<1> QED BY <1>1, <1>2, <1>3, <1>5

\* A call that closes nothing goes on to a step that is not special.
LEMMA CallMoves ==
  ASSUME LANInv, NEW p \in Procs, Elsewhere(p),
         call[p].step \in ClosingSteps => call[p].net = None,
         call'[p].step \notin ClosingSteps \cup {"waiting"},
         call'[p].handle \in {call[p].handle, None},
         UNCHANGED <<net, ingress, closed, reg, taken, mdns, pump>>
  PROVE  Plain
BY DEF Plain, Elsewhere, Closes, ClosingSteps

\* Ways for a call to go on, in which nothing but the call changes of what the
\* invariants relate.
Aside == UNCHANGED <<net, ingress, closed, reg, taken, mdns, pump>>

LEMMA PlainGoing ==
  ASSUME LANInv, Aside, NEW p \in Procs, NEW s \in Steps \ (ClosingSteps \cup {"waiting"}),
         call[p].step \in ClosingSteps => call[p].net = None, Goto(p, s),
         s \in RouteSteps => call[p].ref \in Refs,
         s \in NetSteps => call[p].net \in Nets,
         s \in HandleSteps => call[p].handle \in Handles
  PROVE  CallsTyped' /\ Plain
<1>1. CallsTyped' /\ Elsewhere(p) /\ call'[p].step = s /\ call'[p].handle = call[p].handle
  BY Going DEF LANInv, Typed
<1> QED BY <1>1, CallMoves DEF Aside

LEMMA PlainFinishing ==
  ASSUME LANInv, Aside, NEW p \in Procs, Finish(p),
         call[p].step \in ClosingSteps => call[p].net = None
  PROVE  CallsTyped' /\ Plain
<1>1. /\ CallsTyped' /\ Elsewhere(p)
      /\ call'[p].step \in {"idle", "next"} /\ call'[p].net = None /\ call'[p].handle = None
  BY Finishing DEF LANInv, Typed
<1>2. Closes(p)' = Closes(p)
  BY <1>1 DEF Closes
<1>3. \A q \in Procs : Closes(q)' = Closes(q)
  BY <1>1, <1>2 DEF Closes, Elsewhere
<1> QED BY <1>1, <1>3 DEF Plain, Elsewhere, Aside

LEMMA PlainRefusing ==
  ASSUME LANInv, Aside, NEW p \in Procs, Refuse(p), call[p].ref \in Refs,
         call[p].step \notin ClosingSteps
  PROVE  CallsTyped' /\ Plain
<1>1. /\ CallsTyped' /\ Elsewhere(p)
      /\ call'[p].step \in {"idle", "next", "suspend"}
      /\ call'[p].handle \in {call[p].handle, None}
  BY Refusing DEF LANInv, Typed
<1> QED BY <1>1, CallMoves DEF Aside, ClosingSteps

LEMMA OnRoute ==
  ASSUME Typed, NEW p \in Procs, call[p].step \in RouteSteps
  PROVE  call[p].ref \in Refs
BY DEF Typed, CallsTyped, CallTyped

\* What the manager does to the store is no more than that.
LEMMA StoreOps ==
  ASSUME StoreTyped, NEW r \in Refs,
         \/ RequestShare(r) \/ RemoveShare(r) \/ SuspendShare(r)
         \/ \E name \in Names : ActivateShare(r, name)
  PROVE  StoreTyped'
BY DEF StoreTyped, ShareStates, RequestShare, RemoveShare, SuspendShare, ActivateShare

-----------------------------------------------------------------------------
(* Steps that leave networks, claims and registrations alone *)

LEMMA OnlyCall ==
  ASSUME LANInv, CallsTyped', UNCHANGED <<manager, ingress, mdns, pump, taken, closed>>,
         StoreTyped', BoundTyped', WorldTyped', todo' \in [Procs -> SUBSET Refs]
  PROVE  Typed'
BY Unmoved DEF LANInv, Typed, mdns, RestTyped

LEMMA Aside1 ==
  ASSUME UNCHANGED <<store, bound, world, manager, ingress, mdns, pump, rest>>, LANInv
  PROVE  /\ UNCHANGED <<manager, ingress, mdns, pump, taken, closed>> /\ Aside
         /\ StoreTyped' /\ BoundTyped' /\ WorldTyped' /\ todo' \in [Procs -> SUBSET Refs]
BY Unmoved DEF Aside, manager, world, rest, LANInv, Typed, RestTyped

\* Only the call moves.
LEMMA BeginSteps ==
  ASSUME LANInv, NEW p \in Procs, NEW kind \in Kinds \ {"none"}, NEW r \in Refs, Begin(p, kind, r)
  PROVE  Typed' /\ Plain
<1>1. /\ UNCHANGED <<store, bound, world, manager, ingress, mdns, pump, todo, taken>>
      /\ call' = [call EXCEPT ![p] = [Idle EXCEPT !.kind = kind, !.ref = r, !.step = First(kind)]]
      /\ call[p].step = "idle"
  BY DEF Begin, At
<1> DEFINE s == First(kind)
           d == [Idle EXCEPT !.kind = kind, !.ref = r, !.step = s]
<1>2. s \in {"check", "look", "cancel", "take"}
  BY DEF First, Kinds
<1> HIDE DEF s
<1>3. CallTyped(d) /\ d.handle = None /\ d.step = s
  <2>1. Idle \in Calls
    BY IdleTyped DEF CallTyped
  <2>2. s \in Steps \ (NetSteps \cup HandleSteps)
    BY <1>2 DEF Steps, RouteSteps, NetSteps, HandleSteps
  <2>3. d \in Calls /\ d.step = s /\ d.ref = r /\ d.handle = None
    BY <2>1, <2>2 DEF Calls, Idle
  <2> QED BY <2>2, <2>3 DEF CallTyped
<1>4. call' = [call EXCEPT ![p] = d]
  BY <1>1 DEF s
<1>5. CallsTyped' /\ call'[p] = d /\ Elsewhere(p)
  BY <1>3, <1>4, Setting DEF LANInv, Typed
<1>6. UNCHANGED <<net, ingress, closed, reg, taken, mdns, pump>>
  BY <1>1 DEF manager, world
<1>7. Plain
  BY <1>1, <1>2, <1>3, <1>5, <1>6, CallMoves DEF ClosingSteps
<1>8. Typed'
  BY <1>1, <1>5, Unmoved DEF LANInv, Typed, mdns
<1> QED BY <1>7, <1>8

LEMMA LookingSteps ==
  ASSUME LANInv, NEW p \in Procs,
         Look(p) \/ NameTaken(p) \/ NetworkRefused(p) \/ ResponderGone(p) \/ CancelAnswered(p)
  PROVE  Typed' /\ Plain
<1>1. UNCHANGED <<store, bound, world, manager, ingress, mdns, pump, rest>>
  BY DEF Look, NameTaken, NetworkRefused, ResponderGone, CancelAnswered
<1>2. Aside
  BY <1>1, Aside1
<1>3. call[p].step \in {"look", "claim", "register", "waiting", "answered"}
  BY DEF Look, NameTaken, NetworkRefused, ResponderGone, CancelAnswered, At
<1>4. call[p].step \in RouteSteps /\ call[p].step \notin ClosingSteps /\ call[p].ref \in Refs
  BY <1>3, OnRoute DEF RouteSteps, ClosingSteps, LANInv
<1>5. \/ Finish(p) \/ Refuse(p) 
      \/ \E s \in {"suspend", "check", "unrequest", "unroute"} : Goto(p, s)
  BY DEF Look, NameTaken, NetworkRefused, ResponderGone, CancelAnswered
<1>6. CallsTyped' /\ Plain
  <2>1. CASE Finish(p)
    BY <2>1, <1>2, <1>4, PlainFinishing
  <2>2. CASE Refuse(p)
    BY <2>2, <1>2, <1>4, PlainRefusing
  <2>3. ASSUME NEW s \in {"suspend", "check", "unrequest", "unroute"}, Goto(p, s)
        PROVE  CallsTyped' /\ Plain
    <3>1. s \in Steps \ (ClosingSteps \cup {"waiting"}) /\ s \notin NetSteps \cup HandleSteps
      BY DEF Steps, RouteSteps, ClosingSteps, NetSteps, HandleSteps
    <3> QED BY <2>3, <3>1, <1>2, <1>4, PlainGoing
  <2> QED BY <1>5, <2>1, <2>2, <2>3
<1> QED BY <1>1, <1>6, Aside1, OnlyCall

LEMMA StoreSteps ==
  ASSUME LANInv, NEW p \in Procs,
         Suspend(p) \/ Check(p) \/ Unrequest(p) \/ Unshare(p) \/ DeleteRoute(p)
  PROVE  Typed' /\ Plain
<1>1. UNCHANGED <<bound, world, manager, ingress, mdns, pump, rest>>
  BY DEF Suspend, Check, Unrequest, Unshare, DeleteRoute
<1>2. Aside
  BY <1>1 DEF Aside, manager, world, rest
<1>3. call[p].step \in {"suspend", "check", "unrequest", "unshare", "delete"}
  BY DEF Suspend, Check, Unrequest, Unshare, DeleteRoute, At
<1>4. call[p].step \in RouteSteps /\ call[p].step \notin ClosingSteps /\ call[p].ref \in Refs
  BY <1>3, OnRoute DEF RouteSteps, ClosingSteps, LANInv
<1>5. \/ Finish(p) \/ Refuse(p) 
      \/ \E s \in {"claim", "forget"} : Goto(p, s)
  BY DEF Suspend, Check, Unrequest, Unshare, DeleteRoute
<1>6. CallsTyped' /\ Plain
  <2>1. CASE Finish(p)
    BY <2>1, <1>2, <1>4, PlainFinishing
  <2>2. CASE Refuse(p)
    BY <2>2, <1>2, <1>4, PlainRefusing
  <2>3. ASSUME NEW s \in {"claim", "forget"}, Goto(p, s)
        PROVE  CallsTyped' /\ Plain
    <3>1. s \in Steps \ (ClosingSteps \cup {"waiting"}) /\ s \notin NetSteps \cup HandleSteps
      BY DEF Steps, RouteSteps, ClosingSteps, NetSteps, HandleSteps
    <3> QED BY <2>3, <3>1, <1>2, <1>4, PlainGoing
  <2> QED BY <1>5, <2>1, <2>2, <2>3
<1>7. StoreTyped'
  <2>1. StoreTyped
    BY DEF LANInv, Typed
  <2>2. CASE Suspend(p) \/ Unrequest(p) \/ Unshare(p)
    BY <2>1, <2>2, <1>4, StoreOps DEF Suspend, Unrequest, Unshare
  <2>3. CASE Check(p)
    BY <2>1, <2>3, <1>4, StoreOps, Unmoved DEF Check
  <2>4. CASE DeleteRoute(p)
    BY <2>1, <2>4 DEF DeleteRoute, StoreTyped, ShareStates
  <2> QED BY <2>2, <2>3, <2>4
<1>8. BoundTyped' /\ WorldTyped' /\ todo' \in [Procs -> SUBSET Refs]
      /\ UNCHANGED <<manager, ingress, mdns, pump, taken, closed>>
  BY <1>1, Unmoved DEF LANInv, Typed, RestTyped, rest, world
<1> QED BY <1>6, <1>7, <1>8, OnlyCall

\* The list of the routes that are left to recover.
LEMMA RouteSteps1 ==
  ASSUME LANInv, NEW p \in Procs, NextRoute(p) \/ (p = Startup /\ Load)
  PROVE  Typed' /\ Plain
<1>1. UNCHANGED <<store, bound, world, manager, ingress, mdns, pump, taken>>
  BY DEF NextRoute, Load
<1>2. Aside
  BY <1>1 DEF Aside, manager, world
<1>3. call[p].step \in {"next", "load"} /\ call[p].step \notin ClosingSteps
  BY DEF NextRoute, Load, At, ClosingSteps
<1>4. todo \in [Procs -> SUBSET Refs] /\ CallsTyped /\ stored \subseteq Refs /\ call[p] \in Calls
  BY DEF LANInv, Typed, RestTyped, StoreTyped, CallsTyped
<1>5. CallsTyped' /\ Plain /\ todo' \in [Procs -> SUBSET Refs]
  <2>1. CASE p = Startup /\ Load
    <3>1. Goto(p, "next")
      BY <2>1 DEF Load
    <3>2. "next" \in Steps \ (ClosingSteps \cup {"waiting"}) /\ "next" \notin RouteSteps \cup NetSteps \cup HandleSteps
      BY DEF Steps, RouteSteps, ClosingSteps, NetSteps, HandleSteps
    <3>3. todo' \in [Procs -> SUBSET Refs]
      BY <2>1, <1>4 DEF Load
    <3> QED BY <3>1, <3>2, <3>3, <1>2, <1>3, PlainGoing
  <2>2. CASE NextRoute(p) /\ call' = [call EXCEPT ![p] = Idle] /\ UNCHANGED todo
    <3>1. CallsTyped' /\ call'[p] = Idle /\ Elsewhere(p)
      BY <2>2, <1>4, IdleTyped, Setting
    <3>2. Plain
      BY <3>1, <1>2, <1>3, CallMoves DEF Aside, Idle, ClosingSteps
    <3> QED BY <3>1, <3>2, <2>2, <1>4
  <2>3. ASSUME NEW r \in todo[p], NEW s \in {"suspend", "check", "look"},
               todo' = [todo EXCEPT ![p] = @ \ {r}],
               call' = [call EXCEPT ![p].ref = r, ![p].step = s]
        PROVE  CallsTyped' /\ Plain /\ todo' \in [Procs -> SUBSET Refs]
    <3> DEFINE d == [call[p] EXCEPT !.ref = r, !.step = s]
    <3>1. s \in Steps /\ s \notin NetSteps \cup HandleSteps /\ r \in Refs
      BY <1>4 DEF Steps, RouteSteps, NetSteps, HandleSteps
    <3>2. d \in Calls /\ d.step = s /\ d.ref = r /\ d.handle = call[p].handle
      BY <1>4, <3>1 DEF Calls
    <3>3. CallTyped(d)
      BY <3>1, <3>2 DEF CallTyped
    <3>4. call' = [call EXCEPT ![p] = d]
      BY <2>3, <1>4 DEF CallsTyped
    <3>5. CallsTyped' /\ call'[p] = d /\ Elsewhere(p)
      BY <3>3, <3>4, <1>4, Setting
    <3>6. Plain
      BY <3>5, <3>2, <1>2, <1>3, CallMoves DEF Aside, ClosingSteps
    <3>7. todo' \in [Procs -> SUBSET Refs]
      BY <2>3, <1>4
    <3> QED BY <3>5, <3>6, <3>7
  <2> QED BY <2>1, <2>2, <2>3 DEF NextRoute
<1> QED BY <1>1, <1>5, Unmoved, OnlyCall DEF LANInv, Typed, world

LEMMA OtherSteps ==
  ASSUME LANInv, NEW p \in Procs, ReserveName(p) \/ Unroute(p)
  PROVE  Typed' /\ Plain
<1>1. Aside /\ UNCHANGED <<store, world, ingress, mdns, pump, rest>>
  BY DEF ReserveName, Unroute, Aside, world, manager, rest
<1>2. call[p].step \in {"claim", "unroute"}
  BY DEF ReserveName, Unroute, At
<1>3. call[p].step \in RouteSteps /\ call[p].step \notin ClosingSteps /\ call[p].ref \in Refs
  BY <1>2, OnRoute DEF RouteSteps, ClosingSteps, LANInv
<1>4. Typed /\ CallsTyped /\ call[p] \in Calls
  BY DEF LANInv, Typed, CallsTyped
<1>5. CASE ReserveName(p)
  <2> DEFINE d == [call[p] EXCEPT !.step = "register", !.net = net]
  <2>1. /\ net \in Nets /\ UNCHANGED <<bound, net, reg, regRef>>
        /\ pending' = [pending EXCEPT ![Requested[call[p].ref]] = call[p].ref]
        /\ call' = [call EXCEPT ![p].step = "register", ![p].net = net]
    BY <1>5, <1>4 DEF ReserveName, Reserve, Typed, ManagerTyped
  <2>2. /\ d \in Calls /\ d.step = "register" /\ d.net = net /\ d.ref = call[p].ref
        /\ d.handle = call[p].handle
    <3>1. "register" \in Steps
      BY DEF Steps, NetSteps
    <3> QED BY <2>1, <1>4, <3>1 DEF Calls
  <2>3. CallTyped(d)
    BY <2>1, <2>2, <1>3 DEF CallTyped, HandleSteps
  <2>4. call' = [call EXCEPT ![p] = d]
    BY <2>1, <1>4 DEF CallsTyped
  <2>5. CallsTyped' /\ call'[p] = d /\ Elsewhere(p)
    BY <2>3, <2>4, <1>4, Setting
  <2>6. Plain
    BY <2>5, <2>2, <1>1, <1>3, CallMoves DEF Aside, ClosingSteps
  <2>7. ManagerTyped'
    BY <2>1, <1>3, <1>4, NamesAssumption DEF Typed, ManagerTyped
  <2>8. RestTyped'
    BY <1>1, <1>4, Unmoved DEF rest, Typed
  <2> QED BY <2>1, <2>5, <2>6, <2>7, <2>8, <1>1, <1>4, Unmoved DEF Typed, mdns
<1>6. CASE Unroute(p)
  <2>1. Goto(p, "unshare") /\ UNCHANGED manager /\ bound' = Unbound(call[p].ref)
    BY <1>6 DEF Unroute
  <2>2. "unshare" \in Steps \ (ClosingSteps \cup {"waiting"}) /\ "unshare" \notin NetSteps \cup HandleSteps
    BY DEF Steps, RouteSteps, ClosingSteps, NetSteps, HandleSteps
  <2>3. CallsTyped' /\ Plain
    BY <2>1, <2>2, <1>1, <1>3, PlainGoing
  <2>4. BoundTyped'
    BY <2>1, <1>4 DEF Typed, BoundTyped, Unbound
  <2>5. RestTyped'
    BY <1>1, <1>4, Unmoved DEF rest, Typed
  <2> QED BY <2>1, <2>3, <2>4, <2>5, <1>1, <1>4, Unmoved DEF Typed, mdns
<1> QED BY <1>5, <1>6

\* A network that is to be closed goes with the call.
LEMMA ClosingGoes ==
  ASSUME LANInv, Aside, NEW p \in Procs, NEW s \in {"each", "close"}, NEW d, CallTyped(d),
         call' = [call EXCEPT ![p] = d], d.step = s, d.net = call[p].net,
         d.handle = call[p].handle, call[p].step \in ClosingSteps
  PROVE  CallsTyped' /\ Plain
<1>1. CallsTyped' /\ call'[p] = d /\ Elsewhere(p)
  BY Setting DEF LANInv, Typed
<1>2. s \in ClosingSteps
  BY DEF ClosingSteps
<1>3. \A q \in Procs : Closes(q)' = Closes(q)
  BY <1>1, <1>2 DEF Closes, Elsewhere
<1> QED BY <1>1, <1>3 DEF Plain, Aside, Elsewhere

LEMMA ClosingGoing ==
  ASSUME LANInv, Aside, NEW p \in Procs, call[p].step \in ClosingSteps,
         \/ Goto(p, "each")
         \/ /\ call[p].net # None
            /\ \E a \in {"none", "refuse", "delete", "finish"} :
                  /\ a \in {"refuse", "delete"} => call[p].ref \in Refs
                  /\ call' = [call EXCEPT ![p].step = "close", ![p].after = a]
  PROVE  CallsTyped' /\ Plain
<1>1. CallsTyped /\ call[p] \in Calls
  BY DEF LANInv, Typed, CallsTyped
<1>2. CASE Goto(p, "each")
  <2> DEFINE d == [call[p] EXCEPT !.step = "each"]
  <2>1. "each" \in Steps /\ "each" \notin RouteSteps \cup NetSteps \cup HandleSteps
    BY DEF Steps, RouteSteps, NetSteps, HandleSteps
  <2>2. d \in Calls /\ d.step = "each" /\ d.net = call[p].net /\ d.handle = call[p].handle
    BY <1>1, <2>1 DEF Calls
  <2>3. CallTyped(d) /\ call' = [call EXCEPT ![p] = d]
    BY <1>1, <1>2, <2>1, <2>2 DEF CallTyped, Goto, CallsTyped
  <2> QED BY <2>2, <2>3, ClosingGoes
<1>3. ASSUME NEW a \in {"none", "refuse", "delete", "finish"}, call[p].net # None,
             a \in {"refuse", "delete"} => call[p].ref \in Refs,
             call' = [call EXCEPT ![p].step = "close", ![p].after = a]
      PROVE  CallsTyped' /\ Plain
  <2> DEFINE d == [call[p] EXCEPT !.step = "close", !.after = a]
  <2>1. "close" \in Steps /\ "close" \notin RouteSteps \cup HandleSteps
    BY DEF Steps, RouteSteps, NetSteps, HandleSteps
  <2>2. /\ d \in Calls /\ d.step = "close" /\ d.net = call[p].net /\ d.handle = call[p].handle
        /\ d.ref = call[p].ref /\ d.after = a
    BY <1>1, <2>1 DEF Calls
  <2>3. d.net \in Nets
    BY <1>1, <1>3, <2>2 DEF Calls
  <2>4. CallTyped(d) /\ call' = [call EXCEPT ![p] = d]
    BY <1>1, <1>3, <2>1, <2>2, <2>3 DEF CallTyped, CallsTyped
  <2> QED BY <2>2, <2>4, ClosingGoes
<1> QED BY <1>2, <1>3

LEMMA WithdrawingSteps ==
  ASSUME LANInv, NEW p \in Procs, RemoveLANShare(p) \/ SuspendOld(p) \/ AllWithdrawn(p)
  PROVE  Typed' /\ Plain
<1>1. UNCHANGED <<bound, world, manager, ingress, mdns, pump, rest>>
  BY DEF RemoveLANShare, SuspendOld, AllWithdrawn
<1>2. Aside
  BY <1>1 DEF Aside, manager, world, rest
<1>3. call[p].step \in ClosingSteps
  BY DEF RemoveLANShare, SuspendOld, AllWithdrawn, At, ClosingSteps
<1>4. CASE RemoveLANShare(p)
  <2>1. call[p].ref \in Refs
    BY <1>4, OnRoute DEF RemoveLANShare, At, RouteSteps, LANInv
  <2> DEFINE a == AfterRemove(p)
  <2>7. a \in {"delete", "finish"}
    BY DEF AfterRemove
  <2>8. IF call[p].net # None THEN call' = [call EXCEPT ![p].step = "close", ![p].after = a]
        ELSE IF a = "delete" THEN Goto(p, "delete") ELSE Finish(p)
    BY <1>4 DEF RemoveLANShare
  <2> HIDE DEF a
  <2>2. ASSUME call[p].net # None PROVE CallsTyped' /\ Plain
    BY <1>2, <1>3, <2>1, <2>2, <2>7, <2>8, ClosingGoing
  <2>3. ASSUME call[p].net = None, Goto(p, "delete") PROVE CallsTyped' /\ Plain
    <3>1. "delete" \in Steps \ (ClosingSteps \cup {"waiting"}) /\ "delete" \notin NetSteps \cup HandleSteps
      BY DEF Steps, RouteSteps, ClosingSteps, NetSteps, HandleSteps
    <3> QED BY <2>1, <2>3, <3>1, <1>2, PlainGoing
  <2>4. ASSUME call[p].net = None, Finish(p) PROVE CallsTyped' /\ Plain
    BY <2>4, <1>2, PlainFinishing
  <2>5. CallsTyped' /\ Plain
    BY <2>2, <2>3, <2>4, <2>8
  <2>6. StoreTyped'
    BY <1>4, <2>1, StoreOps DEF RemoveLANShare, LANInv, Typed
  <2> QED BY <1>1, <2>5, <2>6, Unmoved DEF LANInv, Typed, mdns, rest
<1>5. CASE SuspendOld(p)
  <2>1. call[p].ref \in Refs
    BY <1>5, OnRoute DEF SuspendOld, At, RouteSteps, LANInv
  <2>2. CallsTyped' /\ Plain
    BY <1>2, <1>3, <1>5, ClosingGoing DEF SuspendOld
  <2>3. StoreTyped'
    BY <1>5, <2>1, StoreOps DEF SuspendOld, LANInv, Typed
  <2> QED BY <1>1, <2>2, <2>3, Unmoved DEF LANInv, Typed, mdns, rest
<1>6. CASE AllWithdrawn(p)
  <2>1. ASSUME call[p].net # None PROVE CallsTyped' /\ Plain
    BY <1>2, <1>3, <1>6, <2>1, ClosingGoing DEF AllWithdrawn
  <2>2. ASSUME call[p].net = None PROVE CallsTyped' /\ Plain
    BY <1>2, <1>6, <2>2, PlainFinishing DEF AllWithdrawn
  <2>3. UNCHANGED store
    BY <1>6 DEF AllWithdrawn
  <2> QED BY <1>1, <2>1, <2>2, <2>3, Unmoved DEF LANInv, Typed, mdns, rest
<1> QED BY <1>4, <1>5, <1>6

LEMMA NoticeStep ==
  ASSUME LANInv, Notice
  PROVE  Typed' /\ Plain
<1> DEFINE d == [call[Monitor] EXCEPT !.step = "swap", !.net = net]
<1>1. /\ UNCHANGED <<store, bound, world, manager, ingress, mdns, pump, rest>>
      /\ call' = [call EXCEPT ![Monitor].step = "swap", ![Monitor].net = net]
      /\ call[Monitor].step = "idle" /\ net # None
  BY DEF Notice, At
<1>2. Monitor \in Procs /\ CallsTyped /\ call[Monitor] \in Calls /\ net \in Nets
  BY <1>1 DEF Procs, LANInv, Typed, CallsTyped, ManagerTyped
<1>3. "swap" \in Steps /\ "swap" \notin RouteSteps \cup HandleSteps
  BY DEF Steps, RouteSteps, NetSteps, HandleSteps
<1>4. /\ d \in Calls /\ d.step = "swap" /\ d.net = net /\ d.handle = call[Monitor].handle
      /\ d.ref = call[Monitor].ref /\ d.after = call[Monitor].after
  BY <1>2, <1>3 DEF Calls
<1>5. CallTyped(d) /\ call' = [call EXCEPT ![Monitor] = d]
  BY <1>1, <1>2, <1>3, <1>4 DEF CallTyped, CallsTyped
<1>6. CallsTyped' /\ call'[Monitor] = d /\ Elsewhere(Monitor)
  BY <1>2, <1>5, Setting
<1>7. Aside
  BY <1>1, Aside1
<1>8. Plain
  BY <1>1, <1>2, <1>4, <1>6, <1>7, CallMoves DEF Aside, ClosingSteps
<1> QED BY <1>1, <1>6, <1>8, Aside1, OnlyCall

\* What happens to the network and to the store from outside.
LEMMA WorldSteps ==
  ASSUME LANInv, NetworkChanges \/ NetworkReturns \/ (\E r \in Refs : Vanish(r)) \/ UNCHANGED vars
  PROVE  Typed' /\ Plain
<1>1. UNCHANGED <<bound, manager, ingress, mdns, pump, call, todo, taken, closed>>
  BY DEF NetworkChanges, NetworkReturns, Vanish, vars, world, rest
<1>2. StoreTyped'
  <2>1. CASE UNCHANGED store
    BY <2>1, Unmoved DEF LANInv, Typed
  <2>2. ASSUME NEW r \in Refs, Vanish(r) PROVE StoreTyped'
    BY <2>2 DEF Vanish, LANInv, Typed, StoreTyped, ShareStates
  <2> QED BY <2>1, <2>2 DEF NetworkChanges, NetworkReturns, vars
<1>3. WorldTyped'
  BY DEF NetworkChanges, NetworkReturns, Vanish, vars, world, LANInv, Typed, WorldTyped
<1>4. Plain
  BY <1>1 DEF Plain, manager, Closes
<1> QED BY <1>1, <1>2, <1>3, <1>4, Unmoved DEF LANInv, Typed, mdns

\* Work that goes on stays the work for the same claim.
LEMMA Working1 ==
  ASSUME Typed, NEW n \in Nets, NEW s \in {"activate", "ready", "failed"}, Work(n, s),
         pump[n].step \in {"bind", "activate"}
  PROVE  /\ PumpTyped'
         /\ \A m \in Nets : /\ pump'[m].requested = pump[m].requested
                            /\ pump'[m].generation = pump[m].generation
<1> DEFINE w == [pump[n] EXCEPT !.step = s]
<1>1. pump \in [Nets -> Works] /\ pump[n] \in Works /\ \A m \in Nets : WorkTyped(pump[m])
  BY DEF Typed, PumpTyped
<1>2. /\ w \in Works /\ w.step = s /\ w.requested = pump[n].requested
      /\ w.generation = pump[n].generation /\ w.ref = pump[n].ref /\ w.proposed = pump[n].proposed
  BY <1>1 DEF Works
<1>3. WorkTyped(w)
  BY <1>1, <1>2 DEF WorkTyped
<1>4. pump' = [pump EXCEPT ![n] = w]
  BY <1>1 DEF Work
<1>5. pump' \in [Nets -> Works] /\ pump'[n] = w /\ \A m \in Nets \ {n} : pump'[m] = pump[m]
  BY <1>1, <1>2, <1>4
<1>6. PumpTyped'
  BY <1>1, <1>3, <1>5 DEF PumpTyped
<1> QED BY <1>2, <1>5, <1>6

LEMMA PrepareSteps ==
  ASSUME LANInv, NEW n \in Nets, Bind(n) \/ ActivateLANShare(n)
  PROVE  Typed' /\ Plain
<1>1. UNCHANGED <<world, manager, ingress, mdns, call, rest>>
  BY DEF Bind, ActivateLANShare
<1>2. Typed /\ pump[n].ref \in Refs /\ pump[n].proposed \in Names /\ pump[n].step \in {"bind", "activate"}
  BY DEF LANInv, Typed, PumpTyped, WorkTyped, Bind, ActivateLANShare
<1>3. \E s \in {"activate", "ready", "failed"} : Work(n, s)
  BY DEF Bind, ActivateLANShare
<1>4. /\ PumpTyped'
      /\ \A m \in Nets : /\ pump'[m].requested = pump[m].requested
                         /\ pump'[m].generation = pump[m].generation
  BY <1>2, <1>3, Working1
<1>5. Plain
  BY <1>1, <1>4 DEF Plain, manager, world, rest, Closes
<1>6. BoundTyped' /\ StoreTyped'
  <2>1. CASE Bind(n)
    BY <2>1, <1>2, Unmoved DEF Bind, Typed, BoundTyped
  <2>2. CASE ActivateLANShare(n)
    <3>1. BoundTyped'
      BY <2>2, <1>2 DEF ActivateLANShare, Unbind, Typed, BoundTyped
    <3>2. StoreTyped'
      BY <2>2, <1>2, StoreOps, Unmoved DEF ActivateLANShare, Typed
    <3> QED BY <3>1, <3>2
  <2> QED BY <2>1, <2>2
<1> QED BY <1>1, <1>2, <1>4, <1>5, <1>6, Unmoved DEF Typed, mdns, rest

-----------------------------------------------------------------------------
(* Networks that are taken out and closed *)

LEMMA NetsStay ==
  ASSUME NetsInv, UNCHANGED <<net, ingress, closed>>, \A q \in Procs : Closes(q)' = Closes(q)
  PROVE  NetsInv'
BY DEF NetsInv

\* A call takes the network, if there is one: nobody else has it.
LEMMA NetTaken ==
  ASSUME Typed, NetsInv, NEW p \in Procs, Elsewhere(p), Closes(p) = None,
         net' = None, Closes(p)' = net, UNCHANGED <<ingress, closed>>
  PROVE  NetsInv'
<1>1. \A q \in Procs \ {p} : Closes(q)' = Closes(q)
  BY DEF Closes, Elsewhere
<1>2. \A n \in ingress : n # None
  BY NoneIsNone DEF Typed, NetsTyped
<1>3. \A a, b \in Procs : Closes(a)' = Closes(b)' /\ Closes(a)' # None => a = b
  BY <1>1 DEF NetsInv
<1>4. \A n \in ingress : \E q \in Procs : Closes(q)' = n
  <2> TAKE n \in ingress
  <2>1. CASE n = net
    BY <2>1
  <2>2. CASE n # net
    <3>1. PICK q \in Procs : Closes(q) = n
      BY <2>2 DEF NetsInv
    <3> QED BY <3>1, <1>1, <1>2
  <2> QED BY <2>1, <2>2
<1> QED BY <1>3, <1>4 DEF NetsInv

\* What a call that closes nothing does to those that do.
LEMMA ClosesNothing ==
  ASSUME NEW p \in Procs, Elsewhere(p), Closes(p) = None, Closes(p)' = None
  PROVE  \A q \in Procs : Closes(q)' = Closes(q)
BY DEF Closes, Elsewhere

\* A call that goes on closing its network.
LEMMA ClosesOn ==
  ASSUME NEW p \in Procs, Elsewhere(p), Closes(p)' = Closes(p)
  PROVE  \A q \in Procs : Closes(q)' = Closes(q)
BY DEF Closes, Elsewhere

-----------------------------------------------------------------------------
(* Claims and those who wait for them *)

Keyed(c, d) == c.net = d.net /\ c.requested = d.requested

Expected(p) ==
    At(p, "waiting") /\ call[p].net \in live =>
        \E c \in claims : /\ c.net = call[p].net
                          /\ call[p].handle \in c.handles
                          /\ c.phase # "active"
InHand(c) ==
    c.phase = "preparing" =>
        \/ \E i \in DOMAIN asked[c.net] :
              /\ asked[c.net][i].requested = c.requested
              /\ asked[c.net][i].generation = c.generation
        \/ /\ pump[c.net].requested = c.requested
           /\ pump[c.net].generation = c.generation

LEMMA ServedIs ==
  WaitersServed <=> (\A p \in Procs : Expected(p)) /\ (\A c \in claims : InHand(c))
BY DEF WaitersServed, Expected, InHand

LEMMA ClaimIs ==
  ASSUME Typed, NEW c \in claims
  PROVE  /\ ClaimTyped(c) /\ c.net \in Nets /\ c.requested \in Names /\ c.handles # {}
         /\ c.handles \subseteq Handles
BY DEF Typed, ClaimsTyped, ClaimTyped, AllClaims

LEMMA ClaimsStay ==
  ASSUME LANInv, UNCHANGED mdns,
         \A n \in Nets : /\ pump'[n].requested = pump[n].requested
                         /\ pump'[n].generation = pump[n].generation,
         \A q \in Procs : call'[q].step \in {"waiting", "drain"} => call'[q] = call[q]
  PROVE  ClaimsInv' /\ WaitersServed'
<1>1. ClaimsInv'
  BY DEF LANInv, ClaimsInv, mdns, At
<1>2. \A c \in claims : c.net \in Nets
  BY ClaimIs DEF LANInv
<1>3. WaitersServed'
  BY <1>2 DEF LANInv, WaitersServed, mdns, At
<1> QED BY <1>1, <1>3

\* A registration is withdrawn.
LEMMA Withdrawn ==
  ASSUME Typed, ClaimsInv, NEW h, claims' = WithoutHandle(h)
  PROVE  /\ ClaimsTyped'
         /\ \A d \in claims' : \E c \in claims :
               /\ Keyed(c, d) /\ d.phase = c.phase /\ d.generation = c.generation
               /\ \A g \in c.handles : g # h => g \in d.handles
         /\ \A c \in claims : c.handles # {h} => \E d \in claims' :
               /\ Keyed(c, d) /\ d.phase = c.phase /\ d.generation = c.generation
               /\ \A g \in c.handles : g # h => g \in d.handles
         /\ \A c, d \in claims' : Keyed(c, d) => c = d
<1> DEFINE f(c) == [c EXCEPT !.handles = @ \ {h}]
           S == {d \in claims : d.handles # {h}}
<1>1. claims' = {f(c) : c \in S}
  BY DEF WithoutHandle
<1>2. ASSUME NEW c \in S
      PROVE  /\ ClaimTyped(f(c)) /\ Keyed(c, f(c)) /\ f(c).phase = c.phase
             /\ f(c).generation = c.generation
             /\ \A g \in c.handles : g # h => g \in f(c).handles
  <2>1. c \in AllClaims /\ c.handles # {h} /\ ClaimTyped(c)
    BY ClaimIs DEF ClaimTyped
  <2>2. c.handles \ {h} \in (SUBSET Handles) \ {{}}
    BY <2>1 DEF AllClaims
  <2> QED BY <2>1, <2>2 DEF AllClaims, ClaimTyped, Keyed
<1> HIDE DEF f
<1>3. ClaimsTyped'
  BY <1>1, <1>2 DEF ClaimsTyped
<1>4. \A c, d \in claims' : Keyed(c, d) => c = d
  <2> SUFFICES ASSUME NEW c \in S, NEW d \in S, Keyed(f(c), f(d)) PROVE c = d
    BY <1>1
  <2> QED BY <1>2 DEF Keyed, ClaimsInv
<1> QED BY <1>1, <1>2, <1>3, <1>4

\* A claim goes on.
LEMMA Replaced ==
  ASSUME Typed, ClaimsInv, NEW c \in claims, NEW d, ClaimTyped(d), Keyed(c, d), Replace(c, d)
  PROVE  /\ ClaimsTyped' /\ d \in claims'
         /\ \A e \in claims : e = c \/ e \in claims'
         /\ \A e \in claims' : e = d \/ (e \in claims /\ e # c)
         /\ \A e \in claims' : e.net \in live
         /\ \A a, b \in claims' : Keyed(a, b) => a = b
<1>1. claims' = (claims \ {c}) \cup {d}
  BY DEF Replace
<1>2. ClaimsTyped'
  BY <1>1 DEF Typed, ClaimsTyped
<1> QED BY <1>1, <1>2 DEF Keyed, ClaimsInv

\* Those who wait for a claim are told.
LEMMA Answered ==
  ASSUME Typed, NEW c, NEW s \in {"unroute", "answered"}, Answer(c, s)
  PROVE  /\ CallsTyped'
         /\ \A q \in Procs :
              /\ call'[q].handle = call[q].handle /\ Closes(q)' = Closes(q)
              /\ call'[q].step \in {"waiting", "drain"} => call'[q] = call[q]
              /\ call'[q].step = "waiting" => call[q].handle \notin c.handles
<1>1. call \in [Procs -> Calls] /\ \A q \in Procs : CallTyped(call[q])
  BY DEF Typed, CallsTyped
<1>2. s \in Steps /\ s \in RouteSteps /\ s \notin ClosingSteps
  BY DEF Steps, RouteSteps, ClosingSteps
<1> DEFINE d(q) == [call[q] EXCEPT !.step = s]
<1>3. ASSUME NEW q \in Waiting(c)
      PROVE  /\ CallTyped(d(q)) /\ d(q).step = s /\ d(q).handle = call[q].handle /\ q \in Procs
             /\ call[q].step = "waiting"
  <2>1. q \in Procs /\ call[q].step = "waiting"
    BY DEF Waiting, At
  <2>2. "waiting" \in RouteSteps /\ "waiting" \in NetSteps /\ "waiting" \in HandleSteps
    BY DEF RouteSteps, NetSteps, HandleSteps
  <2>3. d(q) \in Calls /\ d(q).step = s /\ d(q).handle = call[q].handle /\ d(q).ref = call[q].ref
        /\ d(q).net = call[q].net
    BY <1>1, <1>2, <2>1 DEF Calls
  <2>4. CallTyped(d(q))
    BY <1>1, <2>1, <2>2, <2>3 DEF CallTyped
  <2> QED BY <2>1, <2>3, <2>4
<1>4. \A q \in Procs : call'[q] = IF q \in Waiting(c) THEN d(q) ELSE call[q]
  BY DEF Answer
<1> HIDE DEF d
<1>5. call' \in [Procs -> Calls] /\ \A q \in Procs : CallTyped(call'[q])
  <2>1. \A q \in Procs : CallTyped(call'[q])
    BY <1>1, <1>3, <1>4
  <2>2. call' = [q \in Procs |-> call'[q]]
    BY DEF Answer
  <2> QED BY <2>1, <2>2 DEF CallTyped
<1>6. ASSUME NEW q \in Procs
      PROVE  /\ call'[q].handle = call[q].handle /\ Closes(q)' = Closes(q)
             /\ call'[q].step \in {"waiting", "drain"} => call'[q] = call[q]
             /\ call'[q].step = "waiting" => call[q].handle \notin c.handles
  <2>1. CASE q \in Waiting(c)
    BY <2>1, <1>2, <1>3, <1>4 DEF Closes, ClosingSteps
  <2>2. CASE q \notin Waiting(c)
    BY <2>2, <1>4 DEF Closes, Waiting, At
  <2> QED BY <2>1, <2>2
<1> QED BY <1>5, <1>6 DEF CallsTyped

-----------------------------------------------------------------------------
(* Steps that open, take or close a network *)

\* A call does something to a step s whose fields are those of d.
LEMMA StartNetworkStep ==
  ASSUME LANInv, NEW p \in Procs, StartNetwork(p)
  PROVE  LANInv'
<1> DEFINE n == Least(FreeNets)
           d == [call[p] EXCEPT !.step = "register", !.net = n]
<1>1. /\ call[p].step = "claim" /\ net = None /\ ingress = {} /\ FreeNets # {}
      /\ pending' = [pending EXCEPT ![Requested[call[p].ref]] = call[p].ref]
      /\ call' = [call EXCEPT ![p].step = "register", ![p].net = n]
      /\ net' = n
      /\ IF closed THEN UNCHANGED <<ingress, live>>
         ELSE ingress' = ingress \cup {n} /\ live' = live \cup {n}
      /\ valid' = valid \cup {n}
      /\ UNCHANGED <<store, bound, online, closed, reg, regRef, claims, asked, pump, rest>>
  BY DEF StartNetwork, Reserve, At
<1>2. n \in FreeNets
  <2>1. FreeNets \in SUBSET Nat
    BY NoneIsNone DEF FreeNets
  <2> QED BY <2>1, <1>1, LeastIs
<1> HIDE DEF n
<1>3. n \in Nets /\ n \notin live /\ n # None /\ \A q \in Procs : call[q].net # n
  BY <1>2, NoneIsNone DEF FreeNets
<1>4. Typed /\ CallsTyped /\ call[p] \in Calls
  BY DEF LANInv, Typed, CallsTyped
<1>5. call[p].ref \in Refs
  BY <1>1, <1>4, OnRoute DEF RouteSteps
<1>6. /\ d \in Calls /\ d.step = "register" /\ d.net = n /\ d.ref = call[p].ref
      /\ d.handle = call[p].handle
  <2>1. "register" \in Steps
    BY DEF Steps, NetSteps
  <2> QED BY <2>1, <1>3, <1>4 DEF Calls
<1>7. CallTyped(d) /\ call' = [call EXCEPT ![p] = d]
  BY <1>1, <1>3, <1>4, <1>5, <1>6 DEF CallTyped, HandleSteps, CallsTyped
<1>8. CallsTyped' /\ call'[p] = d /\ Elsewhere(p)
  BY <1>4, <1>7, Setting
<1>9. Typed'
  <2>1. ManagerTyped'
    BY <1>1, <1>3, <1>4, <1>5, NamesAssumption DEF Typed, ManagerTyped
  <2>2. WorldTyped' /\ NetsTyped'
    BY <1>1, <1>3, <1>4 DEF Typed, WorldTyped, NetsTyped
  <2> QED BY <2>1, <2>2, <1>1, <1>4, <1>8, Unmoved DEF Typed, rest
<1>10. NetsInv'
  <2>1. Closes(p)' = None /\ Closes(p) = None
    BY <1>1, <1>6, <1>8 DEF Closes, ClosingSteps
  <2>2. \A q \in Procs : Closes(q)' = Closes(q) /\ Closes(q) # n
    BY <2>1, <1>3, <1>8, ClosesNothing DEF Closes
  <2> QED BY <2>2, <1>1 DEF LANInv, NetsInv
<1>11. LoneInv'
  BY <1>1, <1>4, <1>6, <1>8, LoneStays DEF LANInv, Elsewhere, rest
<1>14. live' \subseteq live \cup {n} /\ live \subseteq live' /\ claims' = claims
  BY <1>1
<1>12. ClaimsInv'
  <2>1. \A q \in Procs : call'[q].step = "drain" => call'[q] = call[q] /\ call[q].step = "drain"
    BY <1>6, <1>8 DEF Elsewhere
  <2>2. \A q \in Procs : At(q, "drain")' => call'[q].net \notin live'
    BY <2>1, <1>3, <1>14 DEF LANInv, ClaimsInv, At
  <2> QED BY <2>2, <1>14 DEF LANInv, ClaimsInv
<1>13. WaitersServed'
  <2>3. \A q \in Procs : call'[q].step = "waiting" => call'[q] = call[q] /\ call[q].step = "waiting"
    BY <1>6, <1>8 DEF Elsewhere
  <2>4. \A q \in Procs : Expected(q)
    BY ServedIs DEF LANInv
  <2>1. \A q \in Procs : Expected(q)'
    BY <2>3, <2>4, <1>3, <1>14 DEF Expected, At
  <2>2. \A c \in claims' : InHand(c)'
    BY <1>1, ServedIs DEF LANInv, InHand
  <2> QED BY <2>1, <2>2, ServedIs DEF WaitersServed, Expected, InHand
<1> QED BY <1>9, <1>10, <1>11, <1>12, <1>13 DEF LANInv

LEMMA ForgetStep ==
  ASSUME LANInv, NEW p \in Procs, Forget(p)
  PROVE  LANInv'
<1>1. /\ call[p].step = "forget"
      /\ pending' = [pending EXCEPT ![Requested[call[p].ref]] = NoRef]
      /\ UNCHANGED <<store, bound, world, reg, regRef, ingress, mdns, pump, rest>>
  BY DEF Forget, At
<1>2. Typed /\ CallsTyped /\ call[p] \in Calls /\ call[p].ref \in Refs
  BY <1>1, OnRoute DEF LANInv, Typed, CallsTyped, RouteSteps
<1>3. pending' \in [Names -> Refs \cup {NoRef}]
  BY <1>1, <1>2, NamesAssumption DEF Typed, ManagerTyped
<1>4. CASE UNCHANGED net /\ Refuse(p)
  <2>1. Aside
    BY <1>1, <1>4 DEF Aside, world, rest
  <2>2. CallsTyped' /\ Plain
    BY <1>1, <1>2, <1>4, <2>1, PlainRefusing DEF ClosingSteps
  <2>3. ManagerTyped'
    BY <1>1, <1>2, <1>3, <1>4 DEF Typed, ManagerTyped
  <2>4. Typed'
    BY <1>1, <1>2, <2>2, <2>3, Unmoved DEF Typed, mdns, rest
  <2> QED BY <2>2, <2>4, PlainKeeps DEF LANInv
<1>5. CASE net # None /\ net' = None /\ Closing(p, "refuse")
  <2> DEFINE d == [call[p] EXCEPT !.net = net, !.step = "close", !.after = "refuse"]
  <2>1. net \in Nets
    BY <1>2, <1>5 DEF Typed, ManagerTyped
  <2>2. "close" \in Steps /\ "close" \notin RouteSteps \cup HandleSteps
    BY DEF Steps, RouteSteps, NetSteps, HandleSteps
  <2>3. /\ d \in Calls /\ d.step = "close" /\ d.net = net /\ d.handle = call[p].handle
        /\ d.ref = call[p].ref
    BY <1>2, <2>1, <2>2 DEF Calls
  <2>4. CallTyped(d) /\ call' = [call EXCEPT ![p] = d]
    BY <1>2, <1>5, <2>1, <2>2, <2>3 DEF CallTyped, Closing, CallsTyped
  <2>5. CallsTyped' /\ call'[p] = d /\ Elsewhere(p)
    BY <1>2, <2>4, Setting
  <2>6. ManagerTyped'
    BY <1>1, <1>2, <1>3, <1>5 DEF Typed, ManagerTyped
  <2>7. Typed'
    BY <1>1, <1>2, <2>5, <2>6, Unmoved DEF Typed, mdns, rest
  <2>8. NetsInv'
    <3>1. Closes(p) = None /\ Closes(p)' = net
      BY <1>1, <2>3, <2>5 DEF Closes, ClosingSteps
    <3> QED BY <3>1, <1>1, <1>2, <1>5, <2>5, NetTaken DEF LANInv, world
  <2>9. LoneInv'
    BY <1>1, <1>2, <2>3, <2>5, LoneStays DEF LANInv, Elsewhere, rest
  <2>10. ClaimsInv' /\ WaitersServed'
    BY <1>1, <2>3, <2>5, ClaimsStay DEF Elsewhere
  <2> QED BY <2>7, <2>8, <2>9, <2>10 DEF LANInv
<1> QED BY <1>4, <1>5 DEF Forget

LEMMA TakeStep ==
  ASSUME LANInv, NEW p \in Procs, Take(p)
  PROVE  LANInv'
<1> DEFINE r == call[p].ref
           h == reg[r]
           taking == IF Last(reg') THEN net ELSE None
           d == [call[p] EXCEPT !.handle = h, !.net = taking, !.step = "release"]
<1>1. /\ call[p].step = "take"
      /\ reg' = [reg EXCEPT ![r] = None]
      /\ IF h = None THEN UNCHANGED <<regRef, pending>>
         ELSE /\ regRef' = [regRef EXCEPT ![h] = NoRef]
              /\ pending' = [pending EXCEPT ![Requested[r]] = NoRef]
      /\ net' = IF Last(reg') THEN None ELSE net
      /\ call' = [call EXCEPT ![p].handle = h, ![p].net = taking, ![p].step = "release"]
      /\ UNCHANGED <<store, bound, world, ingress, mdns, pump, rest>>
  BY DEF Take, At
<1>2. taking \in {net, None} /\ (taking = net \/ net' = net) /\ (net' # net => taking = net /\ net' = None)
  BY <1>1
<1> HIDE DEF taking
<1>3. Typed /\ CallsTyped /\ call[p] \in Calls /\ r \in Refs
  BY <1>1, OnRoute DEF LANInv, Typed, CallsTyped, RouteSteps
<1>4. h \in Handles \cup {None} /\ taking \in Nets \cup {None}
  BY <1>2, <1>3 DEF Typed, ManagerTyped
<1>5. "release" \in Steps /\ "release" \notin NetSteps \cup HandleSteps /\ "release" \in ClosingSteps
  BY DEF Steps, RouteSteps, NetSteps, HandleSteps, ClosingSteps
<1>6. /\ d \in Calls /\ d.step = "release" /\ d.net = taking /\ d.handle = h /\ d.ref = r
  BY <1>3, <1>4, <1>5 DEF Calls
<1>7. CallTyped(d) /\ call' = [call EXCEPT ![p] = d]
  BY <1>1, <1>3, <1>5, <1>6 DEF CallTyped, CallsTyped
<1>8. CallsTyped' /\ call'[p] = d /\ Elsewhere(p)
  BY <1>3, <1>7, Setting
<1>9. ManagerTyped'
  <2>1. Requested[r] \in Names /\ NoRef \in Refs \cup {NoRef}
    BY <1>3, NamesAssumption
  <2>2. regRef' \in [Handles -> Refs \cup {NoRef}] /\ pending' \in [Names -> Refs \cup {NoRef}]
    BY <2>1, <1>1, <1>3 DEF Typed, ManagerTyped
  <2>3. reg' \in [Refs -> Handles \cup {None}] /\ net' \in Nets \cup {None}
    BY <1>1, <1>3 DEF Typed, ManagerTyped
  <2> QED BY <2>2, <2>3 DEF ManagerTyped
<1>10. Typed'
  BY <1>1, <1>3, <1>8, <1>9, Unmoved DEF Typed, mdns, rest
<1>11. NetsInv'
  <2>1. Closes(p) = None /\ Closes(p)' = taking
    BY <1>1, <1>5, <1>6, <1>8 DEF Closes, ClosingSteps
  <2>2. CASE net' = None /\ taking = net
    BY <2>1, <2>2, <1>1, <1>3, <1>8, NetTaken DEF LANInv, world
  <2>3. CASE net' = net /\ taking = None
    BY <2>1, <2>3, <1>1, <1>8, ClosesNothing, NetsStay DEF LANInv, world
  <2> QED BY <2>2, <2>3, <1>1, <1>2 DEF taking
<1>12. LoneInv'
  <2> SUFFICES ASSUME NEW q \in Procs, call'[q].step = "waiting" PROVE Lone(q)'
    BY DEF LoneInv, Lone, At
  <2>1. q # p /\ call'[q] = call[q] /\ Lone(q) /\ At(q, "waiting")
    BY <1>6, <1>8 DEF Elsewhere, LANInv, LoneInv, At
  <2>2. call[q].handle \in Handles /\ call[q].handle # None
    BY <1>3, <2>1, NoneIsNone DEF CallsTyped, CallTyped, At, HandleSteps
  <2>3. call[q].handle # h
    BY <2>1, <1>3 DEF Lone
  <2>4. \A x \in Procs \ {q} : call'[x].handle # call'[q].handle
    <3>1. call'[p].handle = h
      BY <1>6, <1>8
    <3>2. \A x \in Procs \ {p, q} : call'[x].handle = call[x].handle
      BY <1>8 DEF Elsewhere
    <3> QED BY <3>1, <3>2, <2>1, <2>3 DEF Lone
  <2>5. \A x \in Refs : reg'[x] \in {reg[x], None}
    BY <1>1, <1>3 DEF Typed, ManagerTyped
  <2>6. \A x \in Refs : reg'[x] # call'[q].handle
    BY <2>1, <2>2, <2>5 DEF Lone
  <2>7. taken' = taken
    BY <1>1 DEF rest
  <2> QED BY <2>1, <2>4, <2>6, <2>7 DEF Lone
<1>13. ClaimsInv' /\ WaitersServed'
  BY <1>1, <1>6, <1>8, ClaimsStay DEF Elsewhere
<1> QED BY <1>10, <1>11, <1>12, <1>13 DEF LANInv

\* The maps of the manager are emptied: Swap of the monitor, and Shutdown.
LEMMA TakeAllStep ==
  ASSUME LANInv, NEW p \in Procs, call[p].step \in {"swap", "takeAll"}, TakeAll(p),
         UNCHANGED <<store, bound, world, ingress, mdns, pump, todo>>
  PROVE  LANInv'
<1> DEFINE d == [call[p] EXCEPT !.net = net, !.step = "each"]
<1>1. /\ taken' = [taken EXCEPT ![p] = reg]
      /\ net' = None
      /\ pending' = [n \in Names |-> NoRef]
      /\ reg' = [r \in Refs |-> None]
      /\ regRef' = [h \in Handles |-> NoRef]
      /\ call' = [call EXCEPT ![p].net = net, ![p].step = "each"]
  BY DEF TakeAll
<1>2. Typed /\ CallsTyped /\ call[p] \in Calls /\ net \in Nets \cup {None}
  BY DEF LANInv, Typed, CallsTyped, ManagerTyped
<1>3. "each" \in Steps /\ "each" \notin RouteSteps \cup NetSteps \cup HandleSteps /\ "each" \in ClosingSteps
  BY DEF Steps, RouteSteps, NetSteps, HandleSteps, ClosingSteps
<1>4. /\ d \in Calls /\ d.step = "each" /\ d.net = net /\ d.handle = call[p].handle
      /\ d.ref = call[p].ref /\ d.after = call[p].after
  BY <1>2, <1>3 DEF Calls
<1>5. CallTyped(d) /\ call' = [call EXCEPT ![p] = d]
  BY <1>1, <1>2, <1>3, <1>4 DEF CallTyped, CallsTyped
<1>6. CallsTyped' /\ call'[p] = d /\ Elsewhere(p)
  BY <1>2, <1>5, Setting
<1>7. ManagerTyped' /\ RestTyped'
  BY <1>1, <1>2 DEF Typed, ManagerTyped, RestTyped
<1>8. Typed'
  BY <1>2, <1>6, <1>7, Unmoved DEF Typed, mdns
<1>9. NetsInv'
  <2>1. Closes(p) = None /\ Closes(p)' = net
    BY <1>3, <1>4, <1>6 DEF Closes, ClosingSteps
  <2> QED BY <2>1, <1>1, <1>2, <1>6, NetTaken DEF LANInv, world
<1>10. LoneInv'
  <2> SUFFICES ASSUME NEW q \in Procs, call'[q].step = "waiting" PROVE Lone(q)'
    BY DEF LoneInv, Lone, At
  <2>1. q # p /\ call'[q] = call[q] /\ Lone(q) /\ At(q, "waiting")
    BY <1>4, <1>6 DEF Elsewhere, LANInv, LoneInv, At
  <2>2. call[q].handle # None
    BY <1>2, <2>1, NoneIsNone DEF CallsTyped, CallTyped, At, HandleSteps
  <2>3. \A x \in Procs \ {q} : call'[x].handle # call'[q].handle
    <3>1. \A x \in Procs : call'[x].handle = call[x].handle
      BY <1>4, <1>6 DEF Elsewhere
    <3> QED BY <3>1, <2>1 DEF Lone
  <2>4. \A x \in Procs : \A r \in Refs : taken'[x][r] # call'[q].handle
    BY <2>1, <1>1, <1>2 DEF Lone, Typed, RestTyped
  <2> QED BY <2>1, <2>2, <2>3, <2>4, <1>1 DEF Lone
<1>11. ClaimsInv' /\ WaitersServed'
  BY <1>4, <1>6, ClaimsStay DEF Elsewhere
<1> QED BY <1>8, <1>9, <1>10, <1>11 DEF LANInv

\* The steps of a call that withdraws one registration after the other.
LEMMA WithdrawNextStep ==
  ASSUME LANInv, NEW p \in Procs, WithdrawNext(p)
  PROVE  LANInv'
<1>1. PICK r \in Refs :
        /\ call[p].step = "each"
        /\ taken' = [taken EXCEPT ![p][r] = None]
        /\ todo' = IF p = Monitor THEN [todo EXCEPT ![p] = @ \cup {r}] ELSE todo
        /\ call' = [call EXCEPT ![p].step = "release", ![p].ref = r, ![p].handle = taken[p][r]]
        /\ UNCHANGED <<store, bound, world, manager, ingress, mdns, pump>>
  BY DEF WithdrawNext, At
<1> DEFINE h == taken[p][r]
           d == [call[p] EXCEPT !.step = "release", !.ref = r, !.handle = h]
<1>2. Typed /\ CallsTyped /\ call[p] \in Calls /\ h \in Handles \cup {None}
  BY DEF LANInv, Typed, CallsTyped, RestTyped
<1>3. "release" \in Steps /\ "release" \notin NetSteps \cup HandleSteps /\ "release" \in ClosingSteps
  BY DEF Steps, RouteSteps, NetSteps, HandleSteps, ClosingSteps
<1>4. d \in Calls /\ d.step = "release" /\ d.net = call[p].net /\ d.handle = h /\ d.ref = r
  BY <1>2, <1>3 DEF Calls
<1>5. CallTyped(d) /\ call' = [call EXCEPT ![p] = d]
  BY <1>1, <1>2, <1>3, <1>4 DEF CallTyped, CallsTyped
<1>6. CallsTyped' /\ call'[p] = d /\ Elsewhere(p)
  BY <1>2, <1>5, Setting
<1>7. RestTyped'
  BY <1>1, <1>2 DEF Typed, RestTyped
<1>8. Typed'
  BY <1>1, <1>2, <1>6, <1>7, Unmoved DEF Typed, mdns
<1>9. NetsInv'
  <2>1. \A q \in Procs : Closes(q)' = Closes(q)
    <3>1. Closes(p)' = Closes(p)
      BY <1>1, <1>3, <1>4, <1>6 DEF Closes, ClosingSteps
    <3> QED BY <3>1, <1>6, ClosesOn
  <2> QED BY <2>1, <1>1, NetsStay DEF LANInv, manager, world
<1>10. LoneInv'
  <2> SUFFICES ASSUME NEW q \in Procs, call'[q].step = "waiting" PROVE Lone(q)'
    BY DEF LoneInv, Lone, At
  <2>1. q # p /\ call'[q] = call[q] /\ Lone(q) /\ At(q, "waiting")
    BY <1>4, <1>6 DEF Elsewhere, LANInv, LoneInv, At
  <2>2. call[q].handle # None
    BY <1>2, <2>1, NoneIsNone DEF CallsTyped, CallTyped, At, HandleSteps
  <2>3. \A x \in Procs \ {q} : call'[x].handle # call'[q].handle
    <3>1. call'[p].handle = h
      BY <1>4, <1>6
    <3>2. \A x \in Procs \ {p, q} : call'[x].handle = call[x].handle
      BY <1>6 DEF Elsewhere
    <3> QED BY <3>1, <3>2, <2>1 DEF Lone
  <2>4. \A x \in Procs : \A t \in Refs : taken'[x][t] \in {taken[x][t], None}
    BY <1>1, <1>2 DEF Typed, RestTyped
  <2>5. \A x \in Procs : \A t \in Refs : taken'[x][t] # call'[q].handle
    BY <2>1, <2>2, <2>4 DEF Lone
  <2>6. reg' = reg
    BY <1>1 DEF manager
  <2> QED BY <2>1, <2>3, <2>5, <2>6 DEF Lone
<1>11. ClaimsInv' /\ WaitersServed'
  BY <1>1, <1>4, <1>6, ClaimsStay DEF Elsewhere
<1> QED BY <1>8, <1>9, <1>10, <1>11 DEF LANInv

LEMMA EnterStep ==
  ASSUME LANInv, NEW p \in Procs, Enter(p)
  PROVE  LANInv'
<1>1. /\ call[p].step = "answered" /\ Finish(p)
      /\ reg' = [reg EXCEPT ![call[p].ref] = call[p].handle]
      /\ regRef' = [regRef EXCEPT ![call[p].handle] = call[p].ref]
      /\ UNCHANGED <<store, bound, world, net, pending, ingress, mdns, pump, rest>>
  BY DEF Enter, At
<1>2. Typed /\ CallsTyped /\ call[p].ref \in Refs
  BY <1>1, OnRoute DEF LANInv, Typed, RouteSteps
<1>3. call[p].handle \in Handles
  BY <1>1, <1>2 DEF CallsTyped, CallTyped, HandleSteps
<1>4. /\ CallsTyped' /\ Elsewhere(p)
      /\ call'[p].step \in {"idle", "next"} /\ call'[p].net = None /\ call'[p].handle = None
  BY <1>1, <1>2, Finishing
<1>5. ManagerTyped'
  BY <1>1, <1>2, <1>3 DEF Typed, ManagerTyped
<1>6. Typed'
  BY <1>1, <1>2, <1>4, <1>5, Unmoved DEF Typed, mdns, rest
<1>7. NetsInv'
  <2>1. Closes(p) = None /\ Closes(p)' = None
    BY <1>1, <1>4 DEF Closes, ClosingSteps
  <2> QED BY <2>1, <1>1, <1>4, ClosesNothing, NetsStay DEF LANInv, world
<1>8. LoneInv'
  <2> SUFFICES ASSUME NEW q \in Procs, call'[q].step = "waiting" PROVE Lone(q)'
    BY DEF LoneInv, Lone, At
  <2>1. q # p /\ call'[q] = call[q] /\ Lone(q) /\ At(q, "waiting")
    BY <1>4 DEF Elsewhere, LANInv, LoneInv, At
  <2>2. call[q].handle # None
    BY <1>2, <2>1, NoneIsNone DEF CallsTyped, CallTyped, At, HandleSteps
  <2>3. \A x \in Procs \ {q} : call'[x].handle # call'[q].handle
    BY <2>1, <2>2, <1>4 DEF Lone, Elsewhere
  <2>4. \A x \in Refs : reg'[x] \in {reg[x], call[p].handle}
    BY <1>1, <1>2 DEF Typed, ManagerTyped
  <2>5. \A x \in Refs : reg'[x] # call'[q].handle
    BY <2>1, <2>4 DEF Lone
  <2>6. taken' = taken
    BY <1>1 DEF rest
  <2> QED BY <2>1, <2>3, <2>5, <2>6 DEF Lone
<1>9. ClaimsInv' /\ WaitersServed'
  BY <1>1, <1>4, ClaimsStay DEF Elsewhere
<1> QED BY <1>6, <1>7, <1>8, <1>9 DEF LANInv

\* A registration that nobody waits for, or that is given up by the one who
\* waits, is withdrawn from its claim.
LEMMA WithdrawnServed ==
  ASSUME LANInv, NEW h, claims' = WithoutHandle(h) \/ UNCHANGED claims,
         UNCHANGED <<live, asked, pump>>,
         \A q \in Procs : /\ call'[q].step \in {"waiting", "drain"} => call'[q] = call[q]
                          /\ call'[q].step = "waiting" => call[q].handle # h
  PROVE  ClaimsTyped' /\ ClaimsInv' /\ WaitersServed'
<1>1. CASE UNCHANGED claims
  BY <1>1, ClaimsStay, Unmoved DEF LANInv, Typed, mdns
<1>2. CASE claims' = WithoutHandle(h)
  <2>1. /\ ClaimsTyped'
        /\ \A d \in claims' : \E c \in claims :
              /\ Keyed(c, d) /\ d.phase = c.phase /\ d.generation = c.generation
              /\ \A g \in c.handles : g # h => g \in d.handles
        /\ \A c \in claims : c.handles # {h} => \E d \in claims' :
              /\ Keyed(c, d) /\ d.phase = c.phase /\ d.generation = c.generation
              /\ \A g \in c.handles : g # h => g \in d.handles
        /\ \A c, d \in claims' : Keyed(c, d) => c = d
    BY <1>2, Withdrawn DEF LANInv
  <2>2. ClaimsInv'
    BY <2>1 DEF LANInv, ClaimsInv, Keyed, At
  <2>3. ASSUME NEW q \in Procs PROVE Expected(q)'
    <3> SUFFICES ASSUME call'[q].step = "waiting", call'[q].net \in live'
                 PROVE  \E d \in claims' : /\ d.net = call'[q].net /\ call'[q].handle \in d.handles
                                           /\ d.phase # "active"
      BY DEF Expected, At
    <3>1. call'[q] = call[q] /\ call[q].handle # h
      OBVIOUS
    <3>2. PICK c \in claims : /\ c.net = call[q].net /\ call[q].handle \in c.handles
                              /\ c.phase # "active"
      BY <3>1, ServedIs DEF LANInv, Expected, At
    <3>3. c.handles # {h}
      BY <3>1, <3>2
    <3>4. PICK d \in claims' : /\ Keyed(c, d) /\ d.phase = c.phase
                               /\ \A g \in c.handles : g # h => g \in d.handles
      BY <2>1, <3>3
    <3> QED BY <3>1, <3>2, <3>4 DEF Keyed
  <2>4. ASSUME NEW d \in claims' PROVE InHand(d)'
    <3>1. PICK c \in claims : Keyed(c, d) /\ d.phase = c.phase /\ d.generation = c.generation
      BY <2>1
    <3>2. InHand(c)
      BY ServedIs DEF LANInv
    <3> QED BY <3>1, <3>2 DEF InHand, Keyed
  <2>5. WaitersServed'
    BY <2>3, <2>4 DEF WaitersServed, Expected, InHand
  <2> QED BY <2>1, <2>2, <2>5
<1> QED BY <1>1, <1>2

LEMMA CancelWaitingStep ==
  ASSUME LANInv, NEW p \in Procs, CancelWaiting(p)
  PROVE  LANInv'
<1>1. /\ call[p].step = "waiting" /\ Goto(p, "unroute")
      /\ claims' = WithoutHandle(call[p].handle)
      /\ UNCHANGED <<store, bound, world, manager, ingress, live, asked, pump, rest>>
  BY DEF CancelWaiting, At
<1>2. Typed /\ CallsTyped /\ call[p].ref \in Refs
  BY <1>1, OnRoute DEF LANInv, Typed, RouteSteps
<1>3. "unroute" \in Steps /\ "unroute" \notin NetSteps \cup HandleSteps /\ "unroute" \notin ClosingSteps
  BY DEF Steps, RouteSteps, NetSteps, HandleSteps, ClosingSteps
<1>4. /\ CallsTyped' /\ Elsewhere(p) /\ call'[p].step = "unroute"
      /\ call'[p].handle = call[p].handle
  BY <1>1, <1>2, <1>3, Going
<1>5. NetsInv'
  <2>1. Closes(p) = None /\ Closes(p)' = None
    BY <1>1, <1>3, <1>4 DEF Closes, ClosingSteps
  <2> QED BY <2>1, <1>1, <1>4, ClosesNothing, NetsStay DEF LANInv, world, manager
<1>6. LoneInv'
  BY <1>1, <1>2, <1>4, LoneStays DEF LANInv, Elsewhere, rest, manager
<1>7. \A q \in Procs : /\ call'[q].step \in {"waiting", "drain"} => call'[q] = call[q]
                       /\ call'[q].step = "waiting" => call[q].handle # call[p].handle
  <2>1. Lone(p) /\ At(p, "waiting")
    BY <1>1 DEF LANInv, LoneInv, At
  <2> QED BY <2>1, <1>4 DEF Elsewhere, Lone
<1>8. ClaimsTyped' /\ ClaimsInv' /\ WaitersServed'
  BY <1>1, <1>7, WithdrawnServed
<1>9. Typed'
  BY <1>1, <1>2, <1>4, <1>8, Unmoved DEF Typed, rest
<1> QED BY <1>5, <1>6, <1>8, <1>9 DEF LANInv

LEMMA ReleaseStep ==
  ASSUME LANInv, NEW p \in Procs, Release(p)
  PROVE  LANInv'
<1>1. PICK failed \in BOOLEAN, s \in {"suspendOld", "remove"} :
        /\ call[p].step = "release"
        /\ bound' = Unbound(call[p].ref)
        /\ call' = [call EXCEPT ![p].failed = failed, ![p].step = s]
        /\ claims' = WithoutHandle(call[p].handle) \/ UNCHANGED claims
        /\ UNCHANGED <<store, world, manager, ingress, live, asked, pump, rest>>
  <2>1. \E failed \in BOOLEAN :
          call' = [call EXCEPT ![p].failed = failed,
                               ![p].step = IF Sweeps(p) THEN "suspendOld" ELSE "remove"]
    BY DEF Release
  <2> QED BY <2>1 DEF Release, At
<1> DEFINE d == [call[p] EXCEPT !.failed = failed, !.step = s]
<1>2. Typed /\ CallsTyped /\ call[p] \in Calls /\ call[p].ref \in Refs
  BY <1>1, OnRoute DEF LANInv, Typed, CallsTyped, RouteSteps
<1>3. s \in Steps /\ s \notin NetSteps \cup HandleSteps /\ s \in ClosingSteps /\ "release" \in ClosingSteps
  BY DEF Steps, RouteSteps, NetSteps, HandleSteps, ClosingSteps
<1>4. d \in Calls /\ d.step = s /\ d.net = call[p].net /\ d.handle = call[p].handle /\ d.ref = call[p].ref
  BY <1>2, <1>3 DEF Calls
<1>5. CallTyped(d) /\ call' = [call EXCEPT ![p] = d]
  BY <1>1, <1>2, <1>3, <1>4 DEF CallTyped, CallsTyped
<1>6. CallsTyped' /\ call'[p] = d /\ Elsewhere(p)
  BY <1>2, <1>5, Setting
<1>7. NetsInv'
  <2>1. \A q \in Procs : Closes(q)' = Closes(q)
    <3>1. Closes(p)' = Closes(p)
      BY <1>1, <1>3, <1>4, <1>6 DEF Closes
    <3> QED BY <3>1, <1>6, ClosesOn
  <2> QED BY <2>1, <1>1, NetsStay DEF LANInv, manager, world
<1>8. LoneInv'
  BY <1>1, <1>2, <1>4, <1>6, LoneStays DEF LANInv, Elsewhere, rest, manager
<1>9. \A q \in Procs : /\ call'[q].step \in {"waiting", "drain"} => call'[q] = call[q]
                       /\ call'[q].step = "waiting" => call[q].handle # call[p].handle
  <2> SUFFICES ASSUME NEW q \in Procs, call'[q].step \in {"waiting", "drain"}
               PROVE  call'[q] = call[q] /\ (call'[q].step = "waiting" => call[q].handle # call[p].handle)
    OBVIOUS
  <2>1. q # p /\ call'[q] = call[q]
    BY <1>4, <1>6 DEF Elsewhere
  <2> QED BY <2>1 DEF LANInv, LoneInv, Lone, At
<1>10. ClaimsTyped' /\ ClaimsInv' /\ WaitersServed'
  BY <1>1, <1>9, WithdrawnServed
<1>11. BoundTyped'
  BY <1>1, <1>2 DEF Typed, BoundTyped, Unbound
<1>12. Typed'
  BY <1>1, <1>2, <1>6, <1>10, <1>11, Unmoved DEF Typed, rest
<1> QED BY <1>7, <1>8, <1>10, <1>12 DEF LANInv

-----------------------------------------------------------------------------
(* Steps that end a responder *)

\* Claims are dropped: nobody waits for them any more, or nobody serves them.
LEMMA DroppedServed ==
  ASSUME LANInv, claims' \subseteq claims, live' \subseteq live,
         \A c \in claims' : c.net \in live' /\ InHand(c)',
         \A c \in claims \ claims' :
            c.net \notin live' \/ \A q \in Procs : call'[q].step = "waiting" => call[q].handle \notin c.handles,
         \A q \in Procs : /\ call'[q].step = "waiting" => call'[q] = call[q]
                          /\ call'[q].step = "drain" => call'[q] = call[q] \/ call'[q].net \notin live'
  PROVE  ClaimsTyped' /\ ClaimsInv' /\ WaitersServed'
<1>1. ClaimsTyped'
  BY DEF LANInv, Typed, ClaimsTyped
<1>2. ClaimsInv'
  <2>1. \A q \in Procs : At(q, "drain")' => call'[q].net \notin live'
    BY DEF LANInv, ClaimsInv, At
  <2> QED BY <2>1 DEF LANInv, ClaimsInv
<1>3. ASSUME NEW q \in Procs PROVE Expected(q)'
  <2> SUFFICES ASSUME call'[q].step = "waiting", call'[q].net \in live'
               PROVE  \E d \in claims' : /\ d.net = call'[q].net /\ call'[q].handle \in d.handles
                                         /\ d.phase # "active"
    BY DEF Expected, At
  <2>1. call'[q] = call[q] /\ call[q].net \in live
    OBVIOUS
  <2>2. PICK c \in claims : /\ c.net = call[q].net /\ call[q].handle \in c.handles
                            /\ c.phase # "active"
    BY <2>1, ServedIs DEF LANInv, Expected, At
  <2>3. c \in claims'
    BY <2>1, <2>2
  <2> QED BY <2>1, <2>2, <2>3
<1>4. WaitersServed'
  BY <1>3 DEF WaitersServed, Expected, InHand
<1> QED BY <1>1, <1>2, <1>4

LEMMA InHandAll ==
  ASSUME LANInv
  PROVE  \A c \in claims : InHand(c) /\ (UNCHANGED <<asked, pump>> => InHand(c)')
BY ServedIs DEF LANInv, InHand

LEMMA CloseResponderStep ==
  ASSUME LANInv, NEW p \in Procs, CloseResponder(p)
  PROVE  LANInv'
<1>1. /\ call[p].step = "close" /\ Goto(p, "drain")
      /\ live' = live \ {call[p].net}
      /\ claims' = {c \in claims : c.net # call[p].net}
      /\ UNCHANGED <<store, bound, world, manager, ingress, asked, pump, rest>>
  BY DEF CloseResponder, At
<1>2. Typed /\ CallsTyped
  BY DEF LANInv, Typed
<1>3. "drain" \in Steps /\ "drain" \notin RouteSteps \cup HandleSteps /\ "drain" \in ClosingSteps
      /\ "close" \in ClosingSteps /\ "close" \in NetSteps
  BY DEF Steps, RouteSteps, NetSteps, HandleSteps, ClosingSteps
<1>4. call[p].net \in Nets
  BY <1>1, <1>2, <1>3 DEF CallsTyped, CallTyped
<1>5. /\ CallsTyped' /\ Elsewhere(p) /\ call'[p].step = "drain" /\ call'[p].net = call[p].net
      /\ call'[p].handle = call[p].handle
  BY <1>1, <1>2, <1>3, <1>4, Going
<1>6. NetsInv'
  <2>1. Closes(p)' = Closes(p)
    BY <1>1, <1>3, <1>5 DEF Closes
  <2> QED BY <2>1, <1>1, <1>5, ClosesOn, NetsStay DEF LANInv, world, manager
<1>7. LoneInv'
  BY <1>1, <1>2, <1>5, LoneStays DEF LANInv, Elsewhere, rest, manager
<1>8. ClaimsTyped' /\ ClaimsInv' /\ WaitersServed'
  <2>1. \A c \in claims' : c.net \in live' /\ InHand(c)'
    BY <1>1, InHandAll DEF LANInv, ClaimsInv
  <2>2. \A c \in claims \ claims' : c.net \notin live'
    BY <1>1
  <2>3. \A q \in Procs : /\ call'[q].step = "waiting" => call'[q] = call[q]
                         /\ call'[q].step = "drain" => call'[q] = call[q] \/ call'[q].net \notin live'
    BY <1>1, <1>5 DEF Elsewhere
  <2> QED BY <1>1, <2>1, <2>2, <2>3, DroppedServed
<1>9. NetsTyped'
  BY <1>1, <1>2 DEF Typed, NetsTyped
<1>10. Typed'
  BY <1>1, <1>2, <1>5, <1>8, <1>9, Unmoved DEF Typed, rest
<1> QED BY <1>6, <1>7, <1>8, <1>10 DEF LANInv

LEMMA CancelManagerStep ==
  ASSUME LANInv, NEW p \in Procs, CancelManager(p)
  PROVE  LANInv'
<1>1. /\ call[p].step = "cancel" /\ Goto(p, "takeAll") /\ closed' = TRUE
      /\ live' = {} /\ claims' = {} /\ ingress' = {}
      /\ UNCHANGED <<store, bound, online, valid, manager, asked, pump, rest>>
  BY DEF CancelManager, At
<1>2. Typed /\ CallsTyped
  BY DEF LANInv, Typed
<1>3. "takeAll" \in Steps /\ "takeAll" \notin RouteSteps \cup NetSteps \cup HandleSteps \cup ClosingSteps
  BY DEF Steps, RouteSteps, NetSteps, HandleSteps, ClosingSteps
<1>4. /\ CallsTyped' /\ Elsewhere(p) /\ call'[p].step = "takeAll"
      /\ call'[p].handle = call[p].handle
  BY <1>1, <1>2, <1>3, Going
<1>5. NetsInv'
  <2>1. Closes(p) = None /\ Closes(p)' = None
    BY <1>1, <1>3, <1>4 DEF Closes, ClosingSteps
  <2>2. \A q \in Procs : Closes(q)' = Closes(q)
    BY <2>1, <1>4, ClosesNothing
  <2> QED BY <2>2, <1>1 DEF LANInv, NetsInv, manager
<1>6. LoneInv'
  BY <1>1, <1>2, <1>4, LoneStays DEF LANInv, Elsewhere, rest, manager
<1>7. ClaimsTyped' /\ ClaimsInv' /\ WaitersServed'
  BY <1>1 DEF ClaimsTyped, ClaimsInv, WaitersServed
<1>8. NetsTyped' /\ WorldTyped'
  BY <1>1, <1>2 DEF Typed, NetsTyped, WorldTyped
<1>9. Typed'
  BY <1>1, <1>2, <1>4, <1>7, <1>8, Unmoved DEF Typed, rest
<1> QED BY <1>5, <1>6, <1>7, <1>9 DEF LANInv

LEMMA CloseIngressStep ==
  ASSUME LANInv, NEW p \in Procs, CloseIngress(p)
  PROVE  LANInv'
<1> DEFINE n == call[p].net
<1>1. /\ call[p].step = "drain"
      /\ asked' = [asked EXCEPT ![n] = <<>>]
      /\ ingress' = ingress \ {n}
      /\ valid' = valid \ {n}
      /\ \/ call[p].after = "refuse" /\ Refuse(p)
         \/ call[p].after = "delete" /\ Goto(p, "delete")
         \/ Finish(p)
      /\ UNCHANGED <<store, bound, online, closed, manager, live, claims, pump, rest>>
  BY DEF CloseIngress, At
<1>2. Typed /\ CallsTyped /\ call[p] \in Calls /\ CallTyped(call[p])
  BY DEF LANInv, Typed, CallsTyped
<1>3. n \in Nets /\ n \notin live /\ Closes(p) = n /\ n # None
  <2>1. "drain" \in NetSteps /\ "drain" \in ClosingSteps
    BY DEF NetSteps, ClosingSteps
  <2> QED BY <2>1, <1>1, <1>2, NoneIsNone DEF CallTyped, LANInv, ClaimsInv, At, Closes
<1>4. /\ CallsTyped' /\ Elsewhere(p)
      /\ call'[p].step \in {"idle", "next", "suspend", "delete"}
      /\ call'[p].handle \in {call[p].handle, None}
  <2>1. CASE Finish(p)
    BY <2>1, <1>2, Finishing
  <2>2. CASE Refuse(p) /\ call[p].ref \in Refs
    BY <2>2, <1>2, Refusing
  <2>3. CASE Goto(p, "delete") /\ call[p].ref \in Refs
    <3>1. "delete" \in Steps /\ "delete" \notin NetSteps \cup HandleSteps
      BY DEF Steps, RouteSteps, NetSteps, HandleSteps
    <3> QED BY <2>3, <3>1, <1>2, Going
  <2> QED BY <1>1, <1>2, <2>1, <2>2, <2>3 DEF CallTyped
<1>5. NetsInv'
  <2>1. Closes(p)' = None
    BY <1>4 DEF Closes, ClosingSteps
  <2>2. \A q \in Procs \ {p} : Closes(q)' = Closes(q) /\ Closes(q) # n
    BY <1>3, <1>4 DEF Closes, Elsewhere, LANInv, NetsInv
  <2>3. net' = net /\ net # n /\ closed' = closed
    BY <1>1, <1>3 DEF manager, LANInv, NetsInv
  <2>4. \A a, b \in Procs : Closes(a)' = Closes(b)' /\ Closes(a)' # None => a = b
    BY <2>1, <2>2 DEF LANInv, NetsInv
  <2>5. \A m \in ingress' : m # net => \E q \in Procs : Closes(q)' = m
    BY <1>1, <1>3, <2>2 DEF LANInv, NetsInv
  <2> QED BY <1>1, <2>1, <2>2, <2>3, <2>4, <2>5 DEF LANInv, NetsInv
<1>6. LoneInv'
  BY <1>1, <1>2, <1>4, LoneStays DEF LANInv, Elsewhere, rest, manager
<1>7. \A q \in Procs : call'[q].step \in {"waiting", "drain"} => call'[q] = call[q]
  BY <1>4 DEF Elsewhere
<1>8. \A c \in claims : c.net # n /\ c.net \in Nets
  BY <1>2, <1>3, ClaimIs DEF LANInv, ClaimsInv
<1>9. \A m \in Nets : m # n => asked'[m] = asked[m]
  BY <1>1, <1>2 DEF Typed, AskedTyped
<1>10. ClaimsTyped' /\ ClaimsInv' /\ WaitersServed'
  <2>1. \A c \in claims : InHand(c)'
    BY <1>1, <1>8, <1>9, InHandAll DEF InHand
  <2>2. \A c \in claims : c.net \in live
    BY DEF LANInv, ClaimsInv
  <2> QED BY <1>1, <1>7, <2>1, <2>2, DroppedServed
<1>11. AskedTyped' /\ NetsTyped' /\ WorldTyped'
  <2>1. <<>> \in Seq(Requests)
    BY EmptySeq
  <2> QED BY <2>1, <1>1, <1>2 DEF Typed, AskedTyped, NetsTyped, WorldTyped
<1>12. Typed'
  BY <1>1, <1>2, <1>4, <1>10, <1>11, Unmoved DEF Typed, rest
<1> QED BY <1>5, <1>6, <1>10, <1>12 DEF LANInv

-----------------------------------------------------------------------------
(* Registering *)

LEMMA RegisterStep ==
  ASSUME LANInv, NEW p \in Procs, Register(p)
  PROVE  LANInv'
<1> DEFINE n == call[p].net
           h == Least(FreeHandles)
           name == Requested[call[p].ref]
           old == ClaimOf(n, name)
           s == IF \E c \in old : c.phase = "active" THEN "answered" ELSE "waiting"
           new(c) == [c EXCEPT !.handles = @ \cup {h}]
           d == [call[p] EXCEPT !.handle = h, !.step = s]
<1>1. /\ call[p].step = "register" /\ n \in live /\ FreeHandles # {}
      /\ claims' = IF old = {} THEN claims \cup {Claim(n, name, {h})}
                   ELSE (claims \ old) \cup {new(c) : c \in old}
      /\ call' = [call EXCEPT ![p].handle = h, ![p].step = s]
      /\ UNCHANGED <<store, bound, world, manager, ingress, live, asked, pump, rest>>
  BY DEF Register, At
<1>2. h \in FreeHandles
  <2>1. FreeHandles \in SUBSET Nat
    BY NoneIsNone DEF FreeHandles
  <2> QED BY <2>1, <1>1, LeastIs
<1> HIDE DEF h
<1>3. /\ h \in Handles /\ h # None
      /\ \A r \in Refs : reg[r] # h /\ \A q \in Procs : taken[q][r] # h
      /\ \A q \in Procs : call[q].handle # h
  BY <1>2, NoneIsNone DEF FreeHandles
<1>4. Typed /\ CallsTyped /\ call[p] \in Calls /\ CallTyped(call[p]) /\ call[p].ref \in Refs
  BY <1>1, OnRoute DEF LANInv, Typed, CallsTyped, RouteSteps
<1>5. n \in Nets /\ name \in Names
  BY <1>1, <1>4, NamesAssumption DEF Typed, NetsTyped
<1>6. s \in {"answered", "waiting"} /\ s \in Steps /\ s \in RouteSteps /\ s \notin ClosingSteps
  BY DEF Steps, RouteSteps, ClosingSteps
<1>7. s = "waiting" => \A c \in old : c.phase # "active"
  OBVIOUS
<1> HIDE DEF s
<1>8. /\ d \in Calls /\ d.step = s /\ d.net = n /\ d.handle = h /\ d.ref = call[p].ref
      /\ d.after = call[p].after
  BY <1>3, <1>4, <1>6 DEF Calls
<1>9. CallTyped(d) /\ call' = [call EXCEPT ![p] = d]
  BY <1>1, <1>3, <1>4, <1>5, <1>8 DEF CallTyped, CallsTyped
<1>10. CallsTyped' /\ call'[p] = d /\ Elsewhere(p)
  BY <1>4, <1>9, Setting
<1>11. NetsInv'
  <2>1. Closes(p) = None /\ Closes(p)' = None
    BY <1>1, <1>6, <1>8, <1>10 DEF Closes, ClosingSteps
  <2> QED BY <2>1, <1>1, <1>10, ClosesNothing, NetsStay DEF LANInv, world, manager
<1>12. LoneInv'
  <2> SUFFICES ASSUME NEW q \in Procs, call'[q].step = "waiting" PROVE Lone(q)'
    BY DEF LoneInv, Lone, At
  <2>1. reg' = reg /\ taken' = taken
    BY <1>1 DEF manager, rest
  <2>2. CASE q = p
    BY <2>1, <2>2, <1>3, <1>8, <1>10 DEF Lone, Elsewhere
  <2>3. CASE q # p
    <3>1. call'[q] = call[q] /\ Lone(q) /\ At(q, "waiting")
      BY <2>3, <1>10 DEF Elsewhere, LANInv, LoneInv, At
    <3>2. \A x \in Procs \ {q} : call'[x].handle # call'[q].handle
      <4>1. call'[p].handle = h
        BY <1>8, <1>10
      <4>2. \A x \in Procs \ {p, q} : call'[x].handle = call[x].handle
        BY <1>10 DEF Elsewhere
      <4> QED BY <4>1, <4>2, <3>1, <1>3 DEF Lone
    <3> QED BY <2>1, <3>1, <3>2 DEF Lone
  <2> QED BY <2>2, <2>3
<1>13. \A c \in old : c \in claims /\ c.net = n /\ c.requested = name
  BY DEF ClaimOf
<1>14. ASSUME NEW c \in old
       PROVE  /\ ClaimTyped(new(c)) /\ Keyed(c, new(c)) /\ new(c).phase = c.phase
              /\ new(c).generation = c.generation /\ new(c).handles = c.handles \cup {h}
  <2>1. c \in AllClaims /\ ClaimTyped(c)
    BY <1>4, <1>13, ClaimIs DEF ClaimTyped
  <2>2. c.handles \cup {h} \in (SUBSET Handles) \ {{}}
    BY <2>1, <1>3 DEF AllClaims
  <2> QED BY <2>1, <2>2 DEF AllClaims, ClaimTyped, Keyed
<1> DEFINE k == Claim(n, name, {h})
<1>15. /\ ClaimTyped(k) /\ k.net = n /\ k.requested = name /\ k.phase = "probing" /\ k.handles = {h}
  <2>1. {h} \in (SUBSET Handles) \ {{}}
    BY <1>3
  <2> QED BY <2>1, <1>5 DEF Claim, ClaimTyped, AllClaims, Phases
<1> HIDE DEF new, k, old
\* Every claim is there still, with one more handle if it is the one joined,
\* and has not become another.
<1>16. /\ \A c \in claims : \E e \in claims' :
            /\ Keyed(c, e) /\ e.phase = c.phase /\ c.handles \subseteq e.handles
       /\ \A e \in claims' :
            \/ /\ old = {} /\ e = k
            \/ \E c \in claims : /\ Keyed(c, e) /\ e.phase = c.phase /\ e.generation = c.generation
       /\ ClaimsTyped'
  <2>1. CASE old = {}
    <3>1. claims' = claims \cup {k}
      BY <1>1, <2>1 DEF k, old
    <3>2. ClaimsTyped'
      BY <3>1, <1>4, <1>15 DEF Typed, ClaimsTyped
    <3> QED BY <2>1, <3>1, <3>2 DEF Keyed
  <2>2. CASE old # {}
    <3>1. claims' = (claims \ old) \cup {new(c) : c \in old}
      BY <1>1, <2>2 DEF new, old
    <3>2. ClaimsTyped'
      BY <3>1, <1>4, <1>14 DEF Typed, ClaimsTyped
    <3>3. \A c \in claims : \E e \in claims' :
            /\ Keyed(c, e) /\ e.phase = c.phase /\ c.handles \subseteq e.handles
      <4> TAKE c \in claims
      <4>1. CASE c \in old
        BY <4>1, <3>1, <1>14
      <4>2. CASE c \notin old
        BY <4>2, <3>1 DEF Keyed
      <4> QED BY <4>1, <4>2
    <3>4. \A e \in claims' :
            \E c \in claims : Keyed(c, e) /\ e.phase = c.phase /\ e.generation = c.generation
      BY <3>1, <1>13, <1>14 DEF Keyed
    <3> QED BY <3>2, <3>3, <3>4
  <2> QED BY <2>1, <2>2
<1>17. \A a, b \in claims' : Keyed(a, b) => a = b
  <2>1. \A a, b \in claims : Keyed(a, b) => a = b
    BY DEF LANInv, ClaimsInv, Keyed
  <2>2. CASE old = {}
    <3>1. claims' = claims \cup {k}
      BY <1>1, <2>2 DEF k, old
    <3>2. \A c \in claims : ~(c.net = n /\ c.requested = name)
      BY <2>2 DEF old, ClaimOf
    <3> QED BY <2>1, <3>1, <3>2, <1>15 DEF Keyed
  <2>3. CASE old # {}
    <3>1. claims' = (claims \ old) \cup {new(c) : c \in old}
      BY <1>1, <2>3 DEF new, old
    <3> SUFFICES ASSUME NEW a \in claims', NEW b \in claims', Keyed(a, b) PROVE a = b
      OBVIOUS
    <3>2. \A c \in claims \ old : ~(c.net = n /\ c.requested = name)
      BY DEF old, ClaimOf
    <3>3. CASE a \in claims \ old
      BY <3>1, <3>2, <3>3, <2>1, <1>13, <1>14 DEF Keyed
    <3>4. CASE \E c \in old : a = new(c)
      BY <3>1, <3>2, <3>4, <2>1, <1>13, <1>14 DEF Keyed
    <3> QED BY <3>1, <3>3, <3>4
  <2> QED BY <2>2, <2>3
<1>18. ClaimsInv'
  <2>3. \A c \in claims : c.net \in live
    BY DEF LANInv, ClaimsInv
  <2>1. ASSUME NEW e \in claims' PROVE e.net \in live'
    <3>1. CASE e = k
      BY <3>1, <1>1, <1>15
    <3>2. CASE \E c \in claims : Keyed(c, e)
      BY <3>2, <2>3, <1>1 DEF Keyed
    <3> QED BY <3>1, <3>2, <1>16
  <2>4. \A q \in Procs : call'[q].step = "drain" => call'[q] = call[q]
    BY <1>6, <1>8, <1>10 DEF Elsewhere
  <2>2. \A q \in Procs : At(q, "drain")' => call'[q].net \notin live'
    <3>1. live' = live
      BY <1>1
    <3> QED BY <2>4, <3>1 DEF LANInv, ClaimsInv, At
  <2> QED BY <2>1, <2>2, <1>17 DEF ClaimsInv, Keyed
<1>19. WaitersServed'
  <2>1. ASSUME NEW q \in Procs \ {p} PROVE Expected(q)'
    <3>1. call'[q] = call[q] /\ Expected(q)
      BY <1>10, ServedIs DEF Elsewhere, LANInv
    <3> QED BY <3>1, <1>1, <1>16 DEF Expected, At, Keyed
  <2>2. Expected(p)'
    <3> SUFFICES ASSUME s = "waiting"
                 PROVE  \E e \in claims' : e.net = n /\ h \in e.handles /\ e.phase # "active"
      BY <1>8, <1>10 DEF Expected, At
    <3>1. CASE old = {}
      BY <3>1, <1>1, <1>15 DEF k, old
    <3>2. CASE old # {}
      <4>1. PICK c \in old : TRUE
        BY <3>2
      <4>2. new(c) \in claims'
        BY <1>1, <3>2, <4>1 DEF new, old
      <4> QED BY <4>1, <4>2, <1>7, <1>13, <1>14 DEF Keyed, old
    <3> QED BY <3>1, <3>2
  <2>3. ASSUME NEW e \in claims' PROVE InHand(e)'
    <3>1. CASE old = {} /\ e = k
      BY <3>1, <1>15 DEF InHand
    <3>2. ASSUME NEW c \in claims, Keyed(c, e), e.phase = c.phase, e.generation = c.generation
          PROVE  InHand(e)'
      <4>1. InHand(c)
        BY InHandAll
      <4>2. asked' = asked /\ pump' = pump
        BY <1>1
      <4>3. c.net = e.net /\ c.requested = e.requested
        BY <3>2 DEF Keyed
      <4> QED BY <4>1, <4>2, <4>3, <3>2 DEF InHand
    <3> QED BY <3>1, <3>2, <1>16
  <2> QED BY <2>1, <2>2, <2>3 DEF WaitersServed, Expected, InHand
<1>20. Typed'
  BY <1>1, <1>4, <1>10, <1>16, Unmoved DEF Typed, rest
<1> QED BY <1>11, <1>12, <1>18, <1>19, <1>20 DEF LANInv

-----------------------------------------------------------------------------
(* The claims of the responders *)

LEMMA ReplacedServed ==
  ASSUME LANInv, NEW c \in claims, NEW d, ClaimTyped(d), Keyed(c, d), d.handles = c.handles,
         Replace(c, d), UNCHANGED live,
         \A e \in claims : e # c => InHand(e)',
         InHand(d)',
         \A q \in Procs : call'[q].step \in {"waiting", "drain"} => call'[q] = call[q],
         d.phase = "active" =>
             \A q \in Procs : call'[q].step = "waiting" => call[q].handle \notin c.handles
  PROVE  ClaimsTyped' /\ ClaimsInv' /\ WaitersServed'
<1>1. /\ ClaimsTyped' /\ d \in claims'
      /\ \A e \in claims : e = c \/ e \in claims'
      /\ \A e \in claims' : e = d \/ (e \in claims /\ e # c)
      /\ \A e \in claims' : e.net \in live
      /\ \A a, b \in claims' : Keyed(a, b) => a = b
  BY Replaced DEF LANInv
<1>2. ClaimsInv'
  <2>1. \A q \in Procs : At(q, "drain")' => call'[q].net \notin live'
    BY DEF LANInv, ClaimsInv, At
  <2> QED BY <2>1, <1>1 DEF ClaimsInv, Keyed
<1>3. ASSUME NEW q \in Procs PROVE Expected(q)'
  <2> SUFFICES ASSUME call'[q].step = "waiting", call'[q].net \in live'
               PROVE  \E e \in claims' : /\ e.net = call'[q].net /\ call'[q].handle \in e.handles
                                         /\ e.phase # "active"
    BY DEF Expected, At
  <2>1. call'[q] = call[q]
    OBVIOUS
  <2>2. PICK e \in claims : /\ e.net = call[q].net /\ call[q].handle \in e.handles
                            /\ e.phase # "active"
    BY <2>1, ServedIs DEF LANInv, Expected, At
  <2>3. CASE e = c
    BY <2>1, <2>2, <2>3, <1>1 DEF Keyed
  <2>4. CASE e # c
    BY <2>1, <2>2, <2>4, <1>1
  <2> QED BY <2>3, <2>4
<1>4. WaitersServed'
  BY <1>1, <1>3 DEF WaitersServed, Expected, InHand
<1> QED BY <1>1, <1>2, <1>4

\* The rest of the invariant, of a step of the responders.
LEMMA ResponderMoves ==
  ASSUME LANInv, UNCHANGED <<store, bound, world, manager, ingress, todo, taken>>,
         live' \subseteq live,
         ClaimsTyped', AskedTyped', PumpTyped', CallsTyped', ClaimsInv', WaitersServed',
         \A q \in Procs : /\ call'[q].handle = call[q].handle /\ Closes(q)' = Closes(q)
                          /\ call'[q].step = "waiting" => call'[q] = call[q]
  PROVE  LANInv'
<1>1. Typed'
  <2>1. NetsTyped'
    BY DEF LANInv, Typed, NetsTyped
  <2> QED BY <2>1, Unmoved DEF LANInv, Typed
<1>2. NetsInv'
  BY NetsStay DEF LANInv, world, manager
<1>3. LoneInv'
  BY LoneStays DEF LANInv, manager
<1> QED BY <1>1, <1>2, <1>3 DEF LANInv

LEMMA CallsStay ==
  ASSUME Typed, UNCHANGED call
  PROVE  /\ CallsTyped'
         /\ \A q \in Procs : call'[q] = call[q] /\ Closes(q)' = Closes(q)
BY Unmoved DEF Typed, Closes

LEMMA ConfirmStep ==
  ASSUME LANInv, NEW c \in claims, Confirm(c)
  PROVE  LANInv'
<1> DEFINE d == [c EXCEPT !.phase = "active"]
<1>1. /\ c.phase = "announcing" /\ Replace(c, d) /\ Answer(c, "answered")
      /\ UNCHANGED <<store, bound, world, manager, ingress, live, asked, pump, rest>>
  BY DEF Confirm
<1>2. Typed /\ c \in AllClaims /\ ClaimTyped(c)
  BY ClaimIs DEF LANInv, ClaimTyped
<1>3. ClaimTyped(d) /\ Keyed(c, d) /\ d.handles = c.handles /\ d.phase = "active"
  BY <1>1, <1>2 DEF AllClaims, ClaimTyped, Keyed, Phases
<1>4. /\ CallsTyped'
      /\ \A q \in Procs :
           /\ call'[q].handle = call[q].handle /\ Closes(q)' = Closes(q)
           /\ call'[q].step \in {"waiting", "drain"} => call'[q] = call[q]
           /\ call'[q].step = "waiting" => call[q].handle \notin c.handles
  BY <1>1, <1>2, Answered
<1> HIDE DEF d
<1>5. ClaimsTyped' /\ ClaimsInv' /\ WaitersServed'
  <2>1. InHand(d)'
    BY <1>3 DEF InHand
  <2>2. \A e \in claims : e # c => InHand(e)'
    BY <1>1, InHandAll
  <2> QED BY <1>1, <1>3, <1>4, <2>1, <2>2, ReplacedServed
<1>6. AskedTyped' /\ PumpTyped'
  BY <1>1, <1>2, Unmoved DEF Typed
<1> QED BY <1>1, <1>4, <1>5, <1>6, ResponderMoves DEF rest

\* A claim is to be probed for, under some name.
LEMMA ProbedFor ==
  ASSUME NEW c \in AllClaims, NEW name \in Names
  PROVE  LET d == [c EXCEPT !.candidate = name, !.phase = "probing", !.generation = @ + 1]
         IN  /\ ClaimTyped(d) /\ Keyed(c, d) /\ d.handles = c.handles
             /\ d.phase = "probing"
<1> DEFINE d == [c EXCEPT !.candidate = name, !.phase = "probing", !.generation = @ + 1]
<1>1. c.generation + 1 \in Nat /\ "probing" \in Phases
  BY DEF AllClaims, Phases
<1>2. d \in AllClaims
  BY <1>1 DEF AllClaims
<1>3. d.phase = "probing" /\ d.handles = c.handles /\ d.net = c.net /\ d.requested = c.requested
  BY DEF AllClaims
<1> QED BY <1>2, <1>3 DEF ClaimTyped, Keyed

LEMMA ProbeAgainStep ==
  ASSUME LANInv, NEW c \in claims, ProbeAgain(c)
  PROVE  LANInv'
<1> DEFINE d == [c EXCEPT !.candidate = c.current, !.phase = "probing", !.generation = @ + 1]
<1>1. /\ c.phase \in {"announcing", "active"} /\ Replace(c, d)
      /\ UNCHANGED <<store, bound, world, manager, ingress, live, asked, pump, call, todo, taken>>
  BY DEF ProbeAgain
<1>2. Typed /\ c \in AllClaims /\ ClaimTyped(c)
  BY ClaimIs DEF LANInv, ClaimTyped
<1>3. ClaimTyped(d) /\ Keyed(c, d) /\ d.handles = c.handles /\ d.phase = "probing"
  BY <1>1, <1>2, ProbedFor DEF ClaimTyped
<1>4. CallsTyped' /\ \A q \in Procs : call'[q] = call[q] /\ Closes(q)' = Closes(q)
  BY <1>1, <1>2, CallsStay
<1> HIDE DEF d
<1>5. ClaimsTyped' /\ ClaimsInv' /\ WaitersServed'
  <2>1. InHand(d)'
    BY <1>3 DEF InHand
  <2>2. \A e \in claims : e # c => InHand(e)'
    BY <1>1, InHandAll
  <2> QED BY <1>1, <1>3, <1>4, <2>1, <2>2, ReplacedServed
<1>6. AskedTyped' /\ PumpTyped'
  BY <1>1, <1>2, Unmoved DEF Typed
<1> QED BY <1>1, <1>4, <1>5, <1>6, ResponderMoves DEF rest

\* A claim is dropped.
LEMMA DropStep ==
  ASSUME LANInv, NEW c \in claims, Drop(c), PumpTyped',
         UNCHANGED <<store, bound, world, manager, ingress, live, asked, todo, taken>>,
         \A e \in claims : e # c => InHand(e)'
  PROVE  LANInv'
<1>1. claims' = claims \ {c} /\ Answer(c, "unroute")
  BY DEF Drop
<1>2. Typed
  BY DEF LANInv
<1>4. /\ CallsTyped'
      /\ \A q \in Procs :
           /\ call'[q].handle = call[q].handle /\ Closes(q)' = Closes(q)
           /\ call'[q].step \in {"waiting", "drain"} => call'[q] = call[q]
           /\ call'[q].step = "waiting" => call[q].handle \notin c.handles
  BY <1>1, <1>2, Answered
<1>5. ClaimsTyped' /\ ClaimsInv' /\ WaitersServed'
  <2>1. \A e \in claims' : e.net \in live' /\ InHand(e)'
    BY <1>1 DEF LANInv, ClaimsInv
  <2> QED BY <1>1, <1>4, <2>1, DroppedServed
<1>6. AskedTyped'
  BY <1>2, Unmoved DEF Typed
<1> QED BY <1>4, <1>5, <1>6, ResponderMoves

LEMMA WriteFailsStep ==
  ASSUME LANInv, NEW c \in claims, WriteFails(c)
  PROVE  LANInv'
<1>1. UNCHANGED <<store, bound, world, manager, ingress, asked, pump, todo, taken>>
  BY DEF WriteFails
<1>2. Typed
  BY DEF LANInv
<1>3. AskedTyped' /\ PumpTyped'
  BY <1>1, <1>2, Unmoved DEF Typed
<1>4. CASE Drop(c) /\ UNCHANGED live
  BY <1>1, <1>3, <1>4, InHandAll, DropStep
<1>5. CASE /\ live' = live \ {c.net}
           /\ claims' = {d \in claims : d.net # c.net}
           /\ UNCHANGED call
  <2>1. CallsTyped' /\ \A q \in Procs : call'[q] = call[q] /\ Closes(q)' = Closes(q)
    BY <1>2, <1>5, CallsStay
  <2>2. ClaimsTyped' /\ ClaimsInv' /\ WaitersServed'
    <3>1. \A e \in claims' : e.net \in live' /\ InHand(e)'
      BY <1>1, <1>5, InHandAll DEF LANInv, ClaimsInv
    <3>2. \A e \in claims \ claims' : e.net \notin live'
      BY <1>5
    <3> QED BY <1>5, <2>1, <3>1, <3>2, DroppedServed
  <2> QED BY <1>1, <1>3, <1>5, <2>1, <2>2, ResponderMoves
<1> QED BY <1>4, <1>5 DEF WriteFails

\* The names that are tried after the one that is lost.
LEMMA LoseStep ==
  ASSUME LANInv, NEW c \in claims, Lose(c)
  PROVE  LANInv'
<1> DEFINE tried == Alternatives[c.requested]
           later == {i \in DOMAIN tried : \E j \in 1 .. i - 1 : tried[j] = c.candidate}
           d == [c EXCEPT !.candidate = tried[Least(later)], !.phase = "probing",
                          !.generation = @ + 1]
<1>1. UNCHANGED <<store, bound, world, manager, ingress, live, asked, pump, todo, taken>>
  BY DEF Lose
<1>2. Typed /\ c \in AllClaims /\ ClaimTyped(c)
  BY ClaimIs DEF LANInv, ClaimTyped
<1>3. AskedTyped' /\ PumpTyped'
  BY <1>1, <1>2, Unmoved DEF Typed
<1>4. CASE Drop(c)
  BY <1>1, <1>3, <1>4, InHandAll, DropStep
<1>5. CASE later # {} /\ Replace(c, d) /\ UNCHANGED call
  <2>1. tried[Least(later)] \in Names
    <3>1. tried \in Seq(Names)
      BY <1>2, NamesAssumption DEF AllClaims
    <3>2. later \in SUBSET Nat
      BY <3>1
    <3>3. Least(later) \in later
      BY <1>5, <3>2, LeastIs
    <3>4. Least(later) \in DOMAIN tried
      BY <3>3
    <3> HIDE DEF later, tried
    <3> QED BY <3>1, <3>4, ElementOfSeq
  <2> HIDE DEF later, tried
  <2>2. ClaimTyped(d) /\ Keyed(c, d) /\ d.handles = c.handles /\ d.phase = "probing"
    BY <1>2, <2>1, ProbedFor
  <2>3. CallsTyped' /\ \A q \in Procs : call'[q] = call[q] /\ Closes(q)' = Closes(q)
    BY <1>2, <1>5, CallsStay
  <2>4. Replace(c, d)
    BY <1>5
  <2> HIDE DEF d
  <2>5. ClaimsTyped' /\ ClaimsInv' /\ WaitersServed'
    <3>1. InHand(d)'
      BY <2>2 DEF InHand
    <3>2. \A e \in claims : e # c => InHand(e)'
      BY <1>1, InHandAll
    <3> QED BY <1>1, <2>2, <2>3, <2>4, <3>1, <3>2, ReplacedServed
  <2> QED BY <1>1, <1>3, <2>3, <2>5, ResponderMoves
<1> QED BY <1>4, <1>5 DEF Lose

-----------------------------------------------------------------------------
(* The requests of the responders, and what becomes of them *)

LEMMA AskStep ==
  ASSUME LANInv, NEW c \in claims, Ask(c)
  PROVE  LANInv'
<1> DEFINE d == [c EXCEPT !.phase = "preparing"]
           q(h) == [handle |-> h, requested |-> c.requested, generation |-> c.generation,
                    proposed |-> c.candidate, previous |-> c.current]
<1>1. /\ Replace(c, d)
      /\ UNCHANGED <<store, bound, world, manager, ingress, live, pump, call, rest>>
  BY DEF Ask
<1>2. PICK h \in c.handles : asked' = [asked EXCEPT ![c.net] = Append(@, q(h))]
  BY DEF Ask
<1>3. Typed /\ c \in AllClaims /\ ClaimTyped(c)
  BY ClaimIs DEF LANInv, ClaimTyped
<1>4. c.net \in Nets /\ asked \in [Nets -> Seq(Requests)]
  BY <1>3 DEF AllClaims, Typed, AskedTyped
<1>5. q(h) \in Requests
  BY <1>3 DEF AllClaims, Requests
<1>6. q(h).requested = c.requested /\ q(h).generation = c.generation
  OBVIOUS
<1> DEFINE k == q(h)
<1>7. asked' = [asked EXCEPT ![c.net] = Append(asked[c.net], k)]
  BY <1>2, <1>4
<1>8. ClaimTyped(d) /\ Keyed(c, d) /\ d.handles = c.handles /\ d.phase = "preparing"
      /\ d.net = c.net /\ d.requested = c.requested /\ d.generation = c.generation
  <2>1. "preparing" \in Phases
    BY DEF Phases
  <2> QED BY <2>1, <1>3 DEF AllClaims, ClaimTyped, Keyed
<1> HIDE DEF d, q
<1>9. k \in Requests /\ k.requested = c.requested /\ k.generation = c.generation
  BY <1>5, <1>6
<1> HIDE DEF k
<1>10. /\ Append(asked[c.net], k) \in Seq(Requests)
       /\ Len(Append(asked[c.net], k)) = Len(asked[c.net]) + 1
       /\ \A i \in 1 .. Len(asked[c.net]) : Append(asked[c.net], k)[i] = asked[c.net][i]
       /\ Append(asked[c.net], k)[Len(asked[c.net]) + 1] = k
  BY <1>4, <1>9, AppendProperties
<1>11. /\ asked' \in [Nets -> Seq(Requests)]
       /\ asked'[c.net] = Append(asked[c.net], k)
       /\ \A n \in Nets : n # c.net => asked'[n] = asked[n]
  BY <1>4, <1>7, <1>10
<1>12. Len(asked[c.net]) \in Nat /\ DOMAIN asked[c.net] = 1 .. Len(asked[c.net])
       /\ DOMAIN asked'[c.net] = 1 .. Len(asked[c.net]) + 1
  BY <1>4, <1>10, <1>11, LenProperties
<1>13. InHand(d)'
  <2>1. Len(asked[c.net]) + 1 \in DOMAIN asked'[c.net]
    BY <1>12
  <2>2. /\ asked'[c.net][Len(asked[c.net]) + 1].requested = d.requested
        /\ asked'[c.net][Len(asked[c.net]) + 1].generation = d.generation
    BY <1>8, <1>9, <1>10, <1>11
  <2> QED BY <1>8, <2>1, <2>2 DEF InHand
<1>14. ASSUME NEW e \in claims PROVE InHand(e)'
  <2>1. InHand(e) /\ e.net \in Nets /\ pump' = pump
    BY <1>1, <1>3, InHandAll, ClaimIs
  <2>2. CASE e.net = c.net
    <3>1. \A i \in DOMAIN asked[c.net] :
            i \in DOMAIN asked'[c.net] /\ asked'[c.net][i] = asked[c.net][i]
      BY <1>10, <1>11, <1>12
    <3> QED BY <2>1, <2>2, <3>1 DEF InHand
  <2>3. CASE e.net # c.net
    BY <2>1, <2>3, <1>11 DEF InHand
  <2> QED BY <2>2, <2>3
<1>15. CallsTyped' /\ \A p \in Procs : call'[p] = call[p] /\ Closes(p)' = Closes(p)
  BY <1>1, <1>3, CallsStay
<1>16. ClaimsTyped' /\ ClaimsInv' /\ WaitersServed'
  BY <1>1, <1>8, <1>13, <1>14, <1>15, ReplacedServed
<1>17. AskedTyped' /\ PumpTyped'
  BY <1>1, <1>3, <1>11, Unmoved DEF Typed, AskedTyped
<1> QED BY <1>1, <1>15, <1>16, <1>17, ResponderMoves DEF rest

LEMMA StartPrepareStep ==
  ASSUME LANInv, NEW n \in Nets, StartPrepare(n)
  PROVE  LANInv'
<1> DEFINE q == Head(asked[n])
           w == [step |-> IF Owner(q) = NoRef THEN "failed" ELSE "bind",
                 ref |-> Owner(q), requested |-> q.requested, generation |-> q.generation,
                 proposed |-> q.proposed, previous |-> q.previous, iface |-> net]
<1>1. /\ pump[n] = NoWork /\ asked[n] # <<>>
      /\ pump' = [pump EXCEPT ![n] = w]
      /\ asked' = [asked EXCEPT ![n] = Tail(asked[n])]
      /\ UNCHANGED <<store, bound, world, manager, ingress, live, claims, call, rest>>
  <2>1. asked \in [Nets -> Seq(Requests)]
    BY DEF LANInv, Typed, AskedTyped
  <2> QED BY <2>1 DEF StartPrepare
<1>2. Typed /\ asked \in [Nets -> Seq(Requests)] /\ pump \in [Nets -> Works]
  BY DEF LANInv, Typed, AskedTyped, PumpTyped
<1>3. /\ q \in Requests /\ q = asked[n][1]
      /\ Tail(asked[n]) \in Seq(Requests)
      /\ Len(asked[n]) \in Nat /\ Len(asked[n]) # 0
      /\ DOMAIN asked[n] = 1 .. Len(asked[n])
      /\ DOMAIN Tail(asked[n]) = 1 .. Len(asked[n]) - 1
      /\ \A i \in 1 .. Len(asked[n]) - 1 : Tail(asked[n])[i] = asked[n][i + 1]
  <2>1. asked[n] \in Seq(Requests) /\ asked[n] # <<>>
    BY <1>1, <1>2
  <2> QED BY <2>1, HeadTailProperties, LenProperties
<1>4. w \in Works /\ WorkTyped(w) /\ w.requested = q.requested /\ w.generation = q.generation
  <2>1. Owner(q) \in Refs \cup {NoRef}
    BY <1>2, <1>3 DEF Owner, Requests, Typed, ManagerTyped
  <2>2. w \in Works
    BY <2>1, <1>2, <1>3 DEF Works, Requests, Typed, ManagerTyped
  <2> QED BY <2>1, <2>2, <1>3 DEF WorkTyped, Requests
<1> HIDE DEF w
<1>5. /\ pump' \in [Nets -> Works] /\ pump'[n] = w
      /\ \A m \in Nets : m # n => pump'[m] = pump[m]
      /\ asked' \in [Nets -> Seq(Requests)] /\ asked'[n] = Tail(asked[n])
      /\ \A m \in Nets : m # n => asked'[m] = asked[m]
  BY <1>1, <1>2, <1>3, <1>4
<1>6. AskedTyped' /\ PumpTyped'
  BY <1>2, <1>4, <1>5 DEF Typed, AskedTyped, PumpTyped
<1>7. ASSUME NEW e \in claims PROVE InHand(e)'
  <2>1. InHand(e) /\ e.net \in Nets /\ e.requested \in Names
    BY <1>2, InHandAll, ClaimIs
  <2>2. CASE e.net = n
    <3> SUFFICES ASSUME e.phase = "preparing" PROVE InHand(e)'
      BY DEF InHand
    <3>1. pump[n].requested # e.requested
      BY <1>1, <2>1, NamesAssumption DEF NoWork
    <3>2. PICK i \in DOMAIN asked[n] :
            asked[n][i].requested = e.requested /\ asked[n][i].generation = e.generation
      BY <2>1, <2>2, <3>1 DEF InHand
    <3>3. CASE i = 1
      BY <2>2, <3>2, <3>3, <1>3, <1>4, <1>5 DEF InHand
    <3>4. CASE i # 1
      <4>1. i \in Nat /\ i - 1 \in 1 .. Len(asked[n]) - 1 /\ (i - 1) + 1 = i
        BY <3>2, <3>4, <1>3
      <4>2. i - 1 \in DOMAIN asked'[n] /\ asked'[n][i - 1] = asked[n][i]
        BY <4>1, <1>3, <1>5
      <4> QED BY <2>2, <3>2, <4>2 DEF InHand
    <3> QED BY <3>3, <3>4
  <2>3. CASE e.net # n
    BY <2>1, <2>3, <1>5 DEF InHand
  <2> QED BY <2>2, <2>3
<1>8. CallsTyped' /\ \A p \in Procs : call'[p] = call[p] /\ Closes(p)' = Closes(p)
  BY <1>1, <1>2, CallsStay
<1>9. ClaimsTyped' /\ ClaimsInv' /\ WaitersServed'
  <2>1. \A e \in claims' : e.net \in live' /\ InHand(e)'
    BY <1>1, <1>7 DEF LANInv, ClaimsInv
  <2> QED BY <1>1, <1>8, <2>1, DroppedServed
<1> QED BY <1>1, <1>6, <1>8, <1>9, ResponderMoves DEF rest

LEMMA DeliverStep ==
  ASSUME LANInv, NEW n \in Nets, Deliver(n)
  PROVE  LANInv'
<1> DEFINE due == {c \in ClaimOf(n, pump[n].requested) :
                      c.phase = "preparing" /\ c.generation = pump[n].generation}
           d(c) == [c EXCEPT !.phase = "announcing", !.current = c.candidate]
<1>1. /\ pump' = [pump EXCEPT ![n] = NoWork]
      /\ \/ due = {} /\ UNCHANGED <<claims, call>>
         \/ \E c \in due : \/ Drop(c)
                           \/ Replace(c, d(c)) /\ UNCHANGED call
      /\ UNCHANGED <<store, bound, world, manager, ingress, live, asked, rest>>
  BY DEF Deliver
<1>2. Typed /\ pump \in [Nets -> Works]
  BY DEF LANInv, Typed, PumpTyped
<1>3. WorkTyped(NoWork)
  <2>1. NoWork \in Works
    BY DEF NoWork, Works
  <2> QED BY <2>1 DEF NoWork, WorkTyped
<1>4. PumpTyped' /\ AskedTyped' /\ \A m \in Nets : m # n => pump'[m] = pump[m]
  <2>1. NoWork \in Works
    BY <1>3 DEF WorkTyped
  <2> QED BY <2>1, <1>1, <1>2, <1>3, Unmoved DEF Typed, PumpTyped
<1>5. \A c \in due : /\ c \in claims /\ c.net = n /\ c.requested = pump[n].requested
                     /\ c.phase = "preparing" /\ c.generation = pump[n].generation
  BY DEF ClaimOf
\* What is not waited for is in the queue still.
<1>6. ASSUME NEW e \in claims, e \notin due PROVE InHand(e)'
  <2>1. InHand(e) /\ e.net \in Nets /\ asked' = asked
    BY <1>1, <1>2, InHandAll, ClaimIs
  <2>2. CASE e.net = n
    <3>1. e.phase = "preparing" =>
            ~(pump[n].requested = e.requested /\ pump[n].generation = e.generation)
      BY <1>6, <2>2 DEF ClaimOf
    <3> QED BY <2>1, <2>2, <3>1 DEF InHand
  <2>3. CASE e.net # n
    BY <2>1, <2>3, <1>4 DEF InHand
  <2> QED BY <2>2, <2>3
<1>7. \A c \in due, e \in claims : e # c => e \notin due
  BY <1>5 DEF LANInv, ClaimsInv
<1> HIDE DEF due, d
<1>8. CASE due = {} /\ UNCHANGED <<claims, call>>
  <2>1. CallsTyped' /\ \A p \in Procs : call'[p] = call[p] /\ Closes(p)' = Closes(p)
    BY <1>2, <1>8, CallsStay
  <2>2. ClaimsTyped' /\ ClaimsInv' /\ WaitersServed'
    <3>1. \A e \in claims' : e.net \in live' /\ InHand(e)'
      BY <1>1, <1>6, <1>8 DEF LANInv, ClaimsInv
    <3> QED BY <1>1, <1>8, <2>1, <3>1, DroppedServed
  <2> QED BY <1>1, <1>4, <2>1, <2>2, ResponderMoves DEF rest
<1>9. ASSUME NEW c \in due, Drop(c) PROVE LANInv'
  <2>1. c \in claims /\ \A e \in claims : e # c => InHand(e)'
    BY <1>5, <1>6, <1>7
  <2> QED BY <1>1, <1>4, <1>9, <2>1, DropStep DEF rest
<1>10. ASSUME NEW c \in due, Replace(c, d(c)), UNCHANGED call PROVE LANInv'
  <2>1. c \in claims /\ \A e \in claims : e # c => InHand(e)'
    BY <1>5, <1>6, <1>7
  <2>2. c \in AllClaims
    BY <1>2, <2>1, ClaimIs DEF ClaimTyped
  <2>3. /\ ClaimTyped(d(c)) /\ Keyed(c, d(c)) /\ d(c).handles = c.handles
        /\ d(c).phase = "announcing"
    <3>1. "announcing" \in Phases
      BY DEF Phases
    <3> QED BY <2>2, <3>1 DEF d, AllClaims, ClaimTyped, Keyed
  <2>4. CallsTyped' /\ \A p \in Procs : call'[p] = call[p] /\ Closes(p)' = Closes(p)
    BY <1>2, <1>10, CallsStay
  <2>5. ClaimsTyped' /\ ClaimsInv' /\ WaitersServed'
    <3>1. InHand(d(c))'
      BY <2>3 DEF InHand
    <3> QED BY <1>1, <1>10, <2>1, <2>3, <2>4, <3>1, ReplacedServed
  <2> QED BY <1>1, <1>4, <2>4, <2>5, ResponderMoves DEF rest
<1> QED BY <1>1, <1>8, <1>9, <1>10

-----------------------------------------------------------------------------
(* All steps *)

LEMMA PlainStep ==
  ASSUME LANInv, Typed', Plain
  PROVE  LANInv'
BY PlainKeeps DEF LANInv

LEMMA SwapStep ==
  ASSUME LANInv, Swap
  PROVE  LANInv'
<1>1. /\ call[Monitor].step = "swap" /\ Monitor \in Procs
      /\ UNCHANGED <<store, bound, world, ingress, mdns, pump, todo>>
  BY DEF Swap, At, Procs
<1>2. CASE TakeAll(Monitor)
  BY <1>1, <1>2, TakeAllStep
<1>3. CASE Finish(Monitor) /\ UNCHANGED <<manager, taken>>
  <2>1. Aside
    BY <1>1, <1>3 DEF Aside, manager, world
  <2>2. CallsTyped' /\ Plain
    BY <1>1, <1>3, <2>1, PlainFinishing DEF ClosingSteps
  <2>3. Typed'
    BY <1>1, <1>3, <2>2, Unmoved DEF LANInv, Typed, mdns
  <2> QED BY <2>2, <2>3, PlainStep
<1> QED BY <1>2, <1>3 DEF Swap

LEMMA ShutdownStep ==
  ASSUME LANInv, NEW p \in Procs, Shutdown(p)
  PROVE  LANInv'
BY TakeAllStep DEF Shutdown, At

LEMMA CreatingStep ==
  ASSUME LANInv, NEW p \in Procs, Creating(p)
  PROVE  LANInv'
<1>1. CASE Check(p) \/ Unrequest(p) \/ Unshare(p)
  BY <1>1, StoreSteps, PlainStep
<1>2. CASE ReserveName(p) \/ Unroute(p)
  BY <1>2, OtherSteps, PlainStep
<1>3. CASE NameTaken(p) \/ NetworkRefused(p) \/ ResponderGone(p)
  BY <1>3, LookingSteps, PlainStep
<1>4. CASE StartNetwork(p) \/ Register(p) \/ Enter(p) \/ Forget(p)
  BY <1>4, StartNetworkStep, RegisterStep, EnterStep, ForgetStep
<1> QED BY <1>1, <1>2, <1>3, <1>4 DEF Creating

LEMMA WorkingStep ==
  ASSUME LANInv, NEW p \in Procs, Working(p)
  PROVE  LANInv'
<1>1. CASE Creating(p)
  BY <1>1, CreatingStep
<1>2. CASE Take(p) \/ Release(p)
  BY <1>2, TakeStep, ReleaseStep
<1>3. CASE DeleteRoute(p) \/ Suspend(p)
  BY <1>3, StoreSteps, PlainStep
<1>4. CASE RemoveLANShare(p) \/ SuspendOld(p) \/ AllWithdrawn(p)
  BY <1>4, WithdrawingSteps, PlainStep
<1>5. CASE Look(p)
  BY <1>5, LookingSteps, PlainStep
<1>6. CASE NextRoute(p) \/ (p = Startup /\ Load)
  BY <1>6, RouteSteps1, PlainStep
<1>7. CASE CloseResponder(p) \/ CloseIngress(p) \/ CancelManager(p) \/ WithdrawNext(p)
  BY <1>7, CloseResponderStep, CloseIngressStep, CancelManagerStep, WithdrawNextStep
<1>8. CASE Swap \/ Shutdown(p)
  BY <1>8, SwapStep, ShutdownStep
<1> QED BY <1>1, <1>2, <1>3, <1>4, <1>5, <1>6, <1>7, <1>8 DEF Working, Removing, Recovering

LEMMA RespondersStep ==
  ASSUME LANInv, Claiming \/ Disturbance \/ (\E n \in Nets : Preparing(n))
  PROVE  LANInv'
<1>1. ASSUME NEW c \in claims, Ask(c) \/ Confirm(c) PROVE LANInv'
  BY <1>1, AskStep, ConfirmStep
<1>2. ASSUME NEW c \in claims, Lose(c) \/ ProbeAgain(c) \/ WriteFails(c) PROVE LANInv'
  BY <1>2, LoseStep, ProbeAgainStep, WriteFailsStep
<1>3. CASE NetworkChanges
  BY <1>3, WorldSteps, PlainStep
<1>4. ASSUME NEW n \in Nets, Bind(n) \/ ActivateLANShare(n) PROVE LANInv'
  BY <1>4, PrepareSteps, PlainStep
<1>5. ASSUME NEW n \in Nets, StartPrepare(n) \/ Deliver(n) PROVE LANInv'
  BY <1>5, StartPrepareStep, DeliverStep
<1> QED BY <1>1, <1>2, <1>3, <1>4, <1>5 DEF Claiming, Disturbance, Preparing

LEMMA LANStep ==
  ASSUME LANInv, [Next]_vars
  PROVE  LANInv'
<1>1. CASE Rest \/ NetworkReturns \/ (\E r \in Refs : Vanish(r)) \/ UNCHANGED vars
  BY <1>1, WorldSteps, PlainStep DEF Rest
<1>2. ASSUME NEW p \in Callers, NEW r \in Refs,
             NEW kind \in {"create", "renew", "remove", "delete", "close"}, Begin(p, kind, r)
      PROVE  LANInv'
  <2>1. p \in Procs /\ kind \in Kinds \ {"none"}
    BY DEF Procs, Kinds
  <2> QED BY <1>2, <2>1, BeginSteps, PlainStep
<1>3. ASSUME NEW p \in Procs, Working(p) \/ Cancelling(p) PROVE LANInv'
  <2>1. CASE Working(p)
    BY <2>1, WorkingStep
  <2>2. CASE CancelWaiting(p)
    BY <2>2, CancelWaitingStep
  <2>3. CASE CancelAnswered(p)
    BY <2>3, LookingSteps, PlainStep
  <2> QED BY <1>3, <2>1, <2>2, <2>3 DEF Cancelling
<1>4. CASE Notice
  BY <1>4, NoticeStep, PlainStep
<1>5. CASE Claiming \/ Disturbance \/ (\E n \in Nets : Preparing(n))
  BY <1>5, RespondersStep
<1> QED BY <1>1, <1>2, <1>3, <1>4, <1>5 DEF Next

LEMMA LANInit ==
  ASSUME Init
  PROVE  LANInv
<1>1. share \in [Refs -> ShareStates]
  BY LANBoundsAssumption DEF Init, ShareStates
<1>2. StoreTyped
  BY <1>1, NamesAssumption DEF Init, StoreTyped
<1>3. BoundTyped /\ WorldTyped /\ NetsTyped /\ ClaimsTyped
  BY DEF Init, BoundTyped, WorldTyped, NetsTyped, ClaimsTyped
<1>4. ManagerTyped
  BY DEF Init, ManagerTyped
<1>5. AskedTyped
  <2>1. <<>> \in Seq(Requests)
    BY EmptySeq
  <2> QED BY <2>1 DEF Init, AskedTyped
<1>6. PumpTyped
  <2>1. NoWork \in Works /\ WorkTyped(NoWork)
    BY DEF NoWork, Works, WorkTyped
  <2> QED BY <2>1 DEF Init, PumpTyped
<1> DEFINE starts == [Idle EXCEPT !.step = "load"]
<1>7. CallTyped(starts) /\ CallTyped(Idle) /\ Idle.step = "idle" /\ starts.step = "load"
  <2>1. "load" \in Steps /\ "load" \notin RouteSteps \cup NetSteps \cup HandleSteps
    BY DEF Steps, RouteSteps, NetSteps, HandleSteps
  <2>2. Idle \in Calls /\ Idle.after = "none" /\ Idle.step = "idle"
    BY IdleTyped DEF CallTyped, Idle
  <2>3. starts \in Calls /\ starts.step = "load" /\ starts.after = "none"
    BY <2>1, <2>2 DEF Calls
  <2> QED BY <2>1, <2>2, <2>3, IdleTyped DEF CallTyped
<1> HIDE DEF starts
<1>8. \A p \in Procs : call[p] \in {starts, Idle}
  BY DEF Init, starts
<1>9. CallsTyped
  <2>1. call = [p \in Procs |-> call[p]]
    BY DEF Init
  <2> QED BY <2>1, <1>7, <1>8 DEF CallsTyped, CallTyped
<1>10. RestTyped
  BY DEF Init, RestTyped
<1>11. \A p \in Procs : call[p].step \in {"load", "idle"}
  BY <1>7, <1>8
<1>12. NetsInv
  <2>1. \A p \in Procs : Closes(p) = None
    BY <1>11 DEF Closes, ClosingSteps
  <2> QED BY <2>1 DEF Init, NetsInv
<1>13. LoneInv /\ ClaimsInv /\ WaitersServed
  BY <1>11 DEF Init, LoneInv, Lone, ClaimsInv, WaitersServed, At
<1> QED BY <1>2, <1>3, <1>4, <1>5, <1>6, <1>9, <1>10, <1>12, <1>13 DEF LANInv, Typed

-----------------------------------------------------------------------------
(* What is promised *)

\* The invariant of the LAN manager, of every reachable state: the maps, calls,
\* claims and requests are of their types, a network that was taken out has one
\* goroutine that closes it, and who waits in Register is waited for.
\* (lan_manager.go: LANManager)
THEOREM ManagerInvariant == Spec => []LANInv
<1>1. Init => LANInv
  BY LANInit
<1>2. LANInv /\ [Next]_vars => LANInv'
  BY LANStep
<1> QED BY <1>1, <1>2, PTL DEF Spec

LEMMA ManagerTypes ==
  ASSUME Typed
  PROVE  TypeOK
<1>1. StoreTyped /\ BoundTyped /\ WorldTyped /\ ManagerTyped /\ NetsTyped
  BY DEF Typed
<1>2. \A c \in claims :
        /\ c.net \in Nets /\ c.requested \in Names /\ c.candidate \in Names
        /\ c.handles # {} /\ c.handles \subseteq Handles
        /\ c.phase \in {"announcing", "active"} => c.current \in Names
  BY DEF Typed, ClaimsTyped, ClaimTyped, AllClaims
<1>3. \A n \in Nets : pump[n].step \in {"idle", "bind", "activate", "ready", "failed"}
  BY DEF Typed, PumpTyped, Works
<1>4. \A p \in Procs : todo[p] \subseteq Refs /\ call[p].ref \in Refs \cup {NoRef}
  BY DEF Typed, RestTyped, CallsTyped, Calls
<1> QED BY <1>1, <1>2, <1>3, <1>4
        DEF StoreTyped, BoundTyped, WorldTyped, ManagerTyped, NetsTyped, TypeOK

LEMMA OneCloser ==
  ASSUME LANInv
  PROVE  NetworkOwned
<1>1. TypeOK
  BY ManagerTypes DEF LANInv
<1>2. \A n : n # None => Closers(n) = {p \in Procs : Closes(p) = n}
  BY DEF Closers, Closes, ClosingSteps
<1>3. net # None => Closers(net) = {} /\ (net \in ingress \/ closed)
  BY <1>2 DEF LANInv, NetsInv
<1>4. ASSUME NEW n \in ingress, n # net PROVE Cardinality(Closers(n)) = 1
  <2>1. n # None
    BY NoneIsNone DEF LANInv, Typed, NetsTyped
  <2>2. PICK p \in Procs : Closes(p) = n
    BY <1>4 DEF LANInv, NetsInv
  <2>3. Closers(n) = {p}
    BY <1>2, <2>1, <2>2 DEF LANInv, NetsInv
  <2> QED BY <2>3, FS_Singleton
<1> QED BY <1>1, <1>3, <1>4 DEF NetworkOwned

\* The network of the manager is open, and a network that was taken out of it is
\* closed by one goroutine, whichever of removals, rollbacks, the monitor and
\* the end of the router come together.
\* (lan_manager.go: Remove, rollbackCreate, reconcileNetwork, Close)
THEOREM NetworksOwned == Spec => []NetworkOwned
<1>1. LANInv => NetworkOwned
  BY OneCloser
<1> QED BY <1>1, ManagerInvariant, PTL

\* Nobody waits in Register for a claim that is no more, is active already or
\* that nobody works on: withdrawals, conflicts and failures included.
\* (lanmdns/responder.go: Register; actor.go: completeClaim)
THEOREM AllWaitersServed == Spec => []WaitersServed
<1>1. LANInv => WaitersServed
  BY DEF LANInv
<1> QED BY <1>1, ManagerInvariant, PTL

-----------------------------------------------------------------------------
(* Where no two calls overlap *)

\* From the reservation of a name to the registration, or to its end.
HoldSteps == {"register", "waiting", "answered", "unroute", "unshare", "forget"}

\* One goroutine works at a time.
AloneInv == \A p, q \in Procs : ~At(p, "idle") /\ ~At(q, "idle") => p = q

\* One network is open, and requests are those of its responder.
PortsInv ==
    /\ closed => ingress = {}
    /\ live \subseteq ingress
    /\ \A m, n \in ingress : m = n
    /\ \A n \in Nets : pump[n] # NoWork \/ asked[n] # <<>> => n \in ingress \/ closed

\* The three maps of the manager agree; a name is reserved for a registration
\* or for one that is under way.
Reserving(r) == \E p \in Procs : call[p].step \in HoldSteps /\ call[p].ref = r
BooksInv ==
    /\ \A r \in Refs : reg[r] # None => regRef[reg[r]] = r /\ pending[Requested[r]] = r
    /\ \A h \in Handles : regRef[h] # NoRef => reg[regRef[h]] = h
    /\ \A n \in Names : pending[n] # NoRef =>
          Requested[pending[n]] = n /\ (reg[pending[n]] # None \/ Reserving(pending[n]))

\* A goroutine that shares or withdraws a route is the one that decides on it.
Withdraws(p) ==
    \A r \in Refs : taken[p][r] # None =>
        call[p].step \in {"each", "release", "suspendOld"} /\ Sweeps(p) /\ reg[r] = None
CallOrder(p) ==
    /\ call[p].step \in {"cancel", "takeAll"} => call[p].kind = "close"
    /\ call[p].step \in HoldSteps \cup {"claim", "unrequest", "release", "remove"} =>
          reg[call[p].ref] = None
    /\ call[p].step \in HoldSteps => pending[Requested[call[p].ref]] = call[p].ref
    /\ call[p].step \in {"register", "waiting", "answered"} => call[p].net = net
    /\ call[p].step \in HandleSteps => regRef[call[p].handle] = NoRef
    /\ call[p].step \in {"unroute", "unshare", "forget"} =>
          \A c \in claims : c.requested # Requested[call[p].ref]
    /\ Withdraws(p)
CallsInv == \A p \in Procs : CallOrder(p)

\* A registration of a claim is entered, on its way, or being withdrawn.
Holds(p, h) == call[p].step \in {"waiting", "answered", "release"} /\ call[p].handle = h
Owned(h) ==
    \/ regRef[h] # NoRef
    \/ \E p \in Procs : Holds(p, h)
    \/ \E p \in Procs, r \in Refs : taken[p][r] = h
Held(c, h) ==
    /\ \A d \in claims : h \in d.handles => c = d
    /\ Owned(h)
    /\ regRef[h] # NoRef => Requested[regRef[h]] = c.requested
    /\ \A p \in Procs : call[p].step \in HandleSteps /\ call[p].handle = h =>
          Requested[call[p].ref] = c.requested
HeldInv == \A c \in claims : \A h \in c.handles : Held(c, h)

\* The requests of a claim are answered in the order of its generations, and
\* only the last of them is waited for.
Handled(c) == pump[c.net].requested = c.requested
Asks(c) == {i \in DOMAIN asked[c.net] : asked[c.net][i].requested = c.requested}
Earlier(c, g) ==
    CASE c.phase = "probing" -> g < c.generation
      [] c.phase = "preparing" -> g <= c.generation
      [] OTHER -> FALSE
Due(c, g, name) == c.phase = "preparing" /\ g = c.generation => name = c.candidate
Sorted(c) ==
    /\ \A i, j \in Asks(c) : i < j => asked[c.net][i].generation < asked[c.net][j].generation
    /\ Handled(c) => \A i \in Asks(c) : pump[c.net].generation < asked[c.net][i].generation
    /\ \A i \in Asks(c) : /\ Earlier(c, asked[c.net][i].generation)
                          /\ Due(c, asked[c.net][i].generation, asked[c.net][i].proposed)
    /\ Handled(c) => /\ Earlier(c, pump[c.net].generation)
                     /\ Due(c, pump[c.net].generation, pump[c.net].proposed)
SortedInv == \A c \in claims : Sorted(c)

\* What is prepared is prepared for the route that has the name reserved.
AtWork == {"bind", "activate", "ready"}
OwnersInv ==
    /\ \A n \in Nets : pump[n].step \in AtWork =>
          /\ pump[n].ref \in Refs /\ Requested[pump[n].ref] = pump[n].requested
          /\ pump[n].proposed \in Names
    /\ \A c \in claims :
          Handled(c) /\ pump[c.net].step \in AtWork /\ pending[c.requested] # NoRef =>
              pump[c.net].ref = pending[c.requested]

\* The route has its share, and the TLS server its certificate, under a name.
Serves(r, name) == share[r] # "none" /\ shareName[r] = name /\ bound[name] = r
Ready(c, r) ==
    /\ c.phase \in {"announcing", "active"} => Serves(r, c.current)
    /\ Handled(c) /\ pump[c.net].step = "activate" => bound[pump[c.net].proposed] = r
    /\ Handled(c) /\ pump[c.net].step = "ready" => Serves(r, pump[c.net].proposed)
ServesInv ==
    \A c \in claims : pending[c.requested] \in stored => Ready(c, pending[c.requested])

InOrder ==
    /\ AloneInv /\ PortsInv /\ BooksInv /\ CallsInv /\ HeldInv /\ SortedInv /\ OwnersInv
    /\ ServesInv

-----------------------------------------------------------------------------
(* What follows from the invariant *)

\* It is the turn of a goroutine.
Turn(p) == ~At(p, "idle") \/ \A q \in Procs : At(q, "idle")

LEMMA Others ==
  ASSUME LANInv, InOrder, NEW p \in Procs, Turn(p), NEW q \in Procs \ {p}
  PROVE  At(q, "idle") /\ \A r \in Refs : taken[q][r] = None
BY DEF InOrder, AloneInv, CallsInv, CallOrder, Withdraws, At, Turn

LEMMA AloneStays ==
  ASSUME AloneInv, \A q \in Procs : At(q, "idle") => call'[q].step = "idle"
  PROVE  AloneInv'
BY DEF AloneInv, At

LEMMA CallsKept ==
  ASSUME LANInv, InOrder, NEW p \in Procs, Turn(p), Elsewhere(p),
         \A q \in Procs \ {p} : taken'[q] = taken[q], CallOrder(p)'
  PROVE  AloneInv' /\ CallsInv'
<1>1. \A q \in Procs \ {p} : /\ call'[q].step = "idle"
                             /\ \A r \in Refs : taken'[q][r] = None
  BY Others DEF Elsewhere, At
<1>2. \A q \in Procs \ {p} : CallOrder(q)'
  BY <1>1 DEF CallOrder, Withdraws, HoldSteps, HandleSteps
<1>3. AloneInv'
  BY <1>1 DEF AloneInv, At
<1> QED BY <1>2, <1>3 DEF CallsInv

\* A call that withdraws a share has no claim for it.
LEMMA NotClaimed ==
  ASSUME LANInv, InOrder, NEW p \in Procs, NEW c \in claims,
         call[p].step \in {"unrequest", "unroute", "unshare", "release", "remove"}
  PROVE  pending[c.requested] # call[p].ref
<1> SUFFICES ASSUME pending[c.requested] = call[p].ref PROVE FALSE
  OBVIOUS
<1>1. c.requested \in Names /\ call[p].ref \in Refs
  BY ClaimIs, OnRoute DEF LANInv, RouteSteps
<1>2. pending[c.requested] # NoRef
  BY <1>1, NamesAssumption
<1>3. reg[call[p].ref] = None
  BY DEF InOrder, CallsInv, CallOrder, HoldSteps
<1>4. Requested[call[p].ref] = c.requested /\ Reserving(call[p].ref)
  BY <1>1, <1>2, <1>3 DEF InOrder, BooksInv
<1>5. call[p].step \in HoldSteps
  BY <1>4 DEF Reserving, HoldSteps, InOrder, AloneInv, At
<1>6. call[p].step \in {"unroute", "unshare"}
  BY <1>5 DEF HoldSteps
<1> QED BY <1>4, <1>6 DEF InOrder, CallsInv, CallOrder

-----------------------------------------------------------------------------
(* Steps that leave a part of it alone *)

LEMMA PortsStay ==
  ASSUME PortsInv, UNCHANGED <<closed, ingress>>, live' \subseteq live,
         \A n \in Nets : pump'[n] # NoWork \/ asked'[n] # <<>> =>
                             pump[n] # NoWork \/ asked[n] # <<>>
  PROVE  PortsInv'
BY DEF PortsInv

LEMMA BooksStay ==
  ASSUME BooksInv, UNCHANGED <<reg, regRef, pending>>,
         \A q \in Procs : call[q].step \in HoldSteps =>
             call'[q].step \in HoldSteps /\ call'[q].ref = call[q].ref
  PROVE  BooksInv'
<1>1. \A r : Reserving(r) => Reserving(r)'
  BY DEF Reserving
<1> QED BY <1>1 DEF BooksInv

\* Every claim is one there was, with no other registrations.
Kept(c, e) == Keyed(c, e) /\ e.handles \subseteq c.handles
Same(c, e) ==
    /\ Kept(c, e) /\ e.phase = c.phase /\ e.generation = c.generation
    /\ e.candidate = c.candidate /\ e.current = c.current

LEMMA HeldStays ==
  ASSUME ClaimsInv', HeldInv, \A e \in claims' : \E c \in claims : Kept(c, e),
         UNCHANGED <<regRef, taken>>,
         \A q \in Procs, e \in claims' : \A h \in e.handles : Holds(q, h) => Holds(q, h)',
         \A q \in Procs : call'[q].step \in HandleSteps =>
             /\ call[q].step \in HandleSteps
             /\ call'[q].handle = call[q].handle /\ call'[q].ref = call[q].ref
  PROVE  HeldInv'
<1> SUFFICES ASSUME NEW e \in claims', NEW h \in e.handles PROVE Held(e, h)'
  BY DEF HeldInv
<1>1. PICK c \in claims : Kept(c, e)
  OBVIOUS
<1>2. Held(c, h) /\ h \in c.handles
  BY <1>1 DEF HeldInv, Kept
<1>3. ASSUME NEW d \in claims', h \in d.handles PROVE e = d
  <2>1. PICK a \in claims : Kept(a, d)
    OBVIOUS
  <2>2. a = c
    BY <1>2, <1>3, <2>1 DEF Kept, Held
  <2> QED BY <1>1, <2>1, <2>2 DEF Kept, Keyed, ClaimsInv
<1>4. Owned(h)'
  BY <1>2 DEF Held, Owned
<1> QED BY <1>1, <1>2, <1>3, <1>4 DEF Held, Kept, Keyed

LEMMA SortedStays ==
  ASSUME SortedInv, UNCHANGED <<asked, pump>>,
         \A e \in claims' : \E c \in claims : Same(c, e)
  PROVE  SortedInv'
<1> SUFFICES ASSUME NEW e \in claims' PROVE Sorted(e)'
  BY DEF SortedInv
<1>1. PICK c \in claims : Same(c, e)
  OBVIOUS
<1>2. Sorted(c)
  BY DEF SortedInv
<1> QED BY <1>1, <1>2 DEF Sorted, Same, Kept, Keyed, Handled, Asks, Earlier, Due

LEMMA OwnersStay ==
  ASSUME OwnersInv, \A e \in claims' : e.net \in Nets,
         \A e \in claims' : pending'[e.requested] \in {pending[e.requested], NoRef},
         \A e \in claims' : \E c \in claims : Keyed(c, e),
         \A n \in Nets : /\ pump'[n].requested = pump[n].requested
                         /\ pump'[n].step \in AtWork =>
                                /\ pump[n].step \in AtWork
                                /\ pump'[n].ref = pump[n].ref
                                /\ pump'[n].proposed = pump[n].proposed
  PROVE  OwnersInv'
<1>1. ASSUME NEW e \in claims', Handled(e)', pump'[e.net].step \in AtWork,
             pending'[e.requested] # NoRef
      PROVE  pump'[e.net].ref = pending'[e.requested]
  BY <1>1 DEF OwnersInv, Keyed, Handled
<1> QED BY <1>1 DEF OwnersInv

\* A share of a route that is stored, with a claim, is left as it is.
Spared(r) ==
    /\ share[r] # "none" => share'[r] # "none"
    /\ shareName'[r] = shareName[r]
    /\ \A name \in Names : bound[name] = r => bound'[name] = r

LEMMA ServesStay ==
  ASSUME LANInv, LANInv', InOrder, UNCHANGED pump, stored' \subseteq stored,
         \A e \in claims' : pending'[e.requested] \in {pending[e.requested], NoRef},
         \A e \in claims' : \E c \in claims :
            /\ Keyed(c, e)
            /\ e.phase \in {"announcing", "active"} =>
                   c.phase \in {"announcing", "active"} /\ c.current = e.current,
         \A c \in claims : pending[c.requested] \in stored' => Spared(pending[c.requested])
  PROVE  ServesInv'
<1> SUFFICES ASSUME NEW e \in claims', NEW r \in stored', r = pending'[e.requested]
             PROVE  Ready(e, r)'
  BY DEF ServesInv, Ready, Serves, Handled
<1>6. r = pending[e.requested]
  <2>1. r # NoRef
    BY NamesAssumption DEF LANInv, Typed, StoreTyped
  <2> QED BY <2>1
<1>1. PICK c \in claims :
        /\ Keyed(c, e)
        /\ e.phase \in {"announcing", "active"} =>
               c.phase \in {"announcing", "active"} /\ c.current = e.current
  OBVIOUS
<1>2. r \in stored /\ Ready(c, r) /\ Spared(r) /\ c.net \in Nets
  BY <1>1, <1>6, ClaimIs DEF Keyed, InOrder, ServesInv, LANInv
<1>3. e.phase \in {"announcing", "active"} => e.current \in Names
  <2>1. e \in claims' /\ LANInv'
    OBVIOUS
  <2> QED BY <2>1 DEF LANInv, Typed, ClaimsTyped, ClaimTyped
<1>4. pump[c.net].step \in {"activate", "ready"} => pump[c.net].proposed \in Names
  BY <1>2 DEF InOrder, OwnersInv, AtWork
<1>5. ASSUME NEW name \in Names, Serves(r, name) PROVE Serves(r, name)'
  BY <1>2, <1>5 DEF Serves, Spared
<1> QED BY <1>1, <1>2, <1>3, <1>4, <1>5 DEF Ready, Keyed, Handled, Spared

-----------------------------------------------------------------------------
(* A call goes on, and changes at most the store or the certificates *)

Onwards(p) ==
    /\ UNCHANGED <<manager, closed, ingress, mdns, pump, taken>> /\ stored' \subseteq stored
    /\ Elsewhere(p)
    /\ \A c \in claims : pending[c.requested] \in stored' => Spared(pending[c.requested])

LEMMA Onward ==
  ASSUME LANInv, LANInv', InOrder, NEW p \in Procs, Turn(p), Onwards(p), CallOrder(p)',
         call[p].step \in HoldSteps =>
             call'[p].step \in HoldSteps /\ call'[p].ref = call[p].ref,
         call'[p].step \notin HandleSteps,
         Holds(p, call[p].handle) => \A c \in claims : call[p].handle \notin c.handles
  PROVE  InOrder'
<1>1. /\ UNCHANGED <<claims, live, asked, pump, reg, regRef, pending, closed, ingress, taken>>
      /\ Elsewhere(p)
  BY DEF Onwards, manager, mdns
<1>2. AloneInv' /\ CallsInv'
  BY <1>1, CallsKept
<1>3. PortsInv'
  BY <1>1, PortsStay DEF InOrder
<1>4. BooksInv'
  BY <1>1, BooksStay DEF InOrder, Elsewhere
<1>5. HeldInv'
  <2>1. \A q \in Procs, e \in claims' : \A h \in e.handles : Holds(q, h) => Holds(q, h)'
    BY <1>1 DEF Holds, Elsewhere
  <2>2. \A q \in Procs : call'[q].step \in HandleSteps =>
             /\ call[q].step \in HandleSteps
             /\ call'[q].handle = call[q].handle /\ call'[q].ref = call[q].ref
    BY <1>1 DEF Elsewhere
  <2>3. ClaimsInv' /\ \A e \in claims' : \E c \in claims : Kept(c, e)
    BY <1>1 DEF LANInv, Kept, Keyed
  <2> QED BY <1>1, <2>1, <2>2, <2>3, HeldStays DEF InOrder
<1>6. SortedInv'
  BY <1>1, SortedStays DEF InOrder, Same, Kept, Keyed
<1>7. OwnersInv'
  BY <1>1, ClaimIs, OwnersStay DEF InOrder, LANInv, Keyed
<1>8. ServesInv'
  BY <1>1, ServesStay DEF Onwards, Keyed
<1> QED BY <1>2, <1>3, <1>4, <1>5, <1>6, <1>7, <1>8 DEF InOrder

LEMMA GoesTo ==
  ASSUME CallsTyped, NEW p \in Procs, NEW s, Goto(p, s)
  PROVE  /\ Elsewhere(p) /\ call'[p].step = s /\ call'[p].ref = call[p].ref
         /\ call'[p].net = call[p].net /\ call'[p].handle = call[p].handle
         /\ call'[p].kind = call[p].kind
BY DEF CallsTyped, Calls, Goto, Elsewhere

\* A call that withdraws nothing.
Withdrawing == {"each", "release", "suspendOld"}
LEMMA NothingTaken ==
  ASSUME InOrder, NEW p \in Procs, call[p].step \notin Withdrawing
  PROVE  \A r \in Refs : taken[p][r] = None
BY DEF InOrder, CallsInv, CallOrder, Withdraws, Withdrawing

\* Steps before which a call has decided on nothing.
FreeSteps == {"idle", "next", "suspend", "check", "look", "delete", "close", "drain"}
LEMMA FreeOrder ==
  ASSUME NEW p \in Procs, call'[p].step \in FreeSteps, \A r \in Refs : taken'[p][r] = None
  PROVE  CallOrder(p)' /\ call'[p].step \notin HandleSteps
BY DEF CallOrder, FreeSteps, HoldSteps, HandleSteps, Withdraws

LEMMA OnwardFree ==
  ASSUME LANInv, LANInv', InOrder, NEW p \in Procs, ~At(p, "idle"), Onwards(p),
         call[p].step \notin HoldSteps \cup Withdrawing, call'[p].step \in FreeSteps
  PROVE  InOrder'
<1>1. \A r \in Refs : taken'[p][r] = None
  BY NothingTaken DEF Onwards
<1> QED BY <1>1, FreeOrder, Onward DEF Holds, HoldSteps, Withdrawing, Turn

LEMMA FinishingFree ==
  ASSUME LANInv, NEW p \in Procs, Finish(p) \/ (Refuse(p) /\ call[p].ref \in Refs)
  PROVE  Elsewhere(p) /\ call'[p].step \in {"idle", "next", "suspend"}
BY Finishing, Refusing DEF LANInv, Typed

LEMMA SameStore ==
  ASSUME UNCHANGED <<store, bound>>
  PROVE  stored' \subseteq stored /\ \A r : Spared(r)
BY DEF store, Spared

LEMMA OrderLook ==
  ASSUME LANInv, LANInv', InOrder, NEW p \in Procs,
         \/ Look(p) \/ NextRoute(p) \/ (p = Startup /\ Load) \/ NameTaken(p)
         \/ (p = Monitor /\ At(p, "swap") /\ Finish(p)
               /\ UNCHANGED <<store, bound, world, manager, ingress, mdns, pump, taken>>)
  PROVE  InOrder'
<1>1. /\ UNCHANGED <<store, bound, world, manager, ingress, mdns, pump, taken>>
      /\ call[p].step \in {"look", "next", "load", "claim", "swap"}
  BY DEF Look, NextRoute, Load, NameTaken, At, rest
<1>2. Elsewhere(p) /\ call'[p].step \in FreeSteps
  <2>1. CASE Finish(p)
    BY <2>1, FinishingFree DEF FreeSteps
  <2>4. CASE NameTaken(p)
    <3>1. Refuse(p) /\ call[p].step \in RouteSteps
      BY <2>4 DEF NameTaken, At, RouteSteps
    <3> QED BY <3>1, OnRoute, FinishingFree DEF FreeSteps, LANInv
  <2>2. ASSUME NEW s \in {"suspend", "check", "next"}, Goto(p, s)
        PROVE  Elsewhere(p) /\ call'[p].step \in FreeSteps
    BY <2>2, GoesTo DEF FreeSteps, LANInv, Typed
  <2>3. CASE NextRoute(p)
    <3>1. call \in [Procs -> Calls]
      BY DEF LANInv, Typed, CallsTyped
    <3>2. CASE call' = [call EXCEPT ![p] = Idle]
      BY <3>1, <3>2 DEF Elsewhere, FreeSteps, Idle
    <3>3. ASSUME NEW r \in Refs, NEW s \in {"suspend", "check", "look"},
                 call' = [call EXCEPT ![p].ref = r, ![p].step = s]
          PROVE  Elsewhere(p) /\ call'[p].step \in FreeSteps
      BY <3>1, <3>3 DEF Elsewhere, FreeSteps, Calls
    <3>4. todo[p] \subseteq Refs
      BY DEF LANInv, Typed, RestTyped
    <3> QED BY <2>3, <3>2, <3>3, <3>4 DEF NextRoute
  <2> QED BY <2>1, <2>2, <2>3, <2>4 DEF Look, Load
<1>3. Onwards(p)
  BY <1>1, <1>2, SameStore DEF Onwards, world
<1> QED BY <1>1, <1>2, <1>3, OnwardFree DEF HoldSteps, Withdrawing, At

\* What a call does to a share or a certificate is done to its own route.
LEMMA StoreSpares ==
  ASSUME LANInv, NEW r \in Refs,
         \/ UNCHANGED bound /\ (RemoveShare(r) \/ SuspendShare(r) \/ RequestShare(r))
         \/ UNCHANGED store /\ bound' = Unbound(r)
  PROVE  /\ stored' \subseteq stored /\ \A x \in Refs \ {r} : Spared(x)
         /\ UNCHANGED bound /\ (SuspendShare(r) \/ RequestShare(r)) => Spared(r)
<1>1. share \in [Refs -> ShareStates] /\ shareName \in [Refs -> Names \cup {NoName}]
  BY DEF LANInv, Typed, StoreTyped
<1>2. CASE UNCHANGED bound /\ (RemoveShare(r) \/ SuspendShare(r) \/ RequestShare(r))
  BY <1>1, <1>2 DEF RemoveShare, SuspendShare, RequestShare, Spared
<1>3. CASE UNCHANGED store /\ bound' = Unbound(r)
  BY <1>1, <1>3 DEF store, Unbound, Spared
<1> QED BY <1>2, <1>3

LEMMA ClaimedIs ==
  ASSUME LANInv, NEW c \in claims
  PROVE  pending[c.requested] \in Refs \cup {NoRef}
BY ClaimIs DEF LANInv, Typed, ManagerTyped

\* One that takes a share or a certificate away has no claim for its route.
LEMMA WithdrawsOwn ==
  ASSUME LANInv, LANInv', InOrder, NEW p \in Procs, Elsewhere(p),
         UNCHANGED <<manager, closed, ingress, mdns, pump, taken>>,
         call[p].step \in {"unrequest", "unroute", "unshare", "remove"},
         \/ UNCHANGED bound /\ RemoveShare(call[p].ref)
         \/ UNCHANGED store /\ bound' = Unbound(call[p].ref)
  PROVE  Onwards(p) /\ call[p].ref \in Refs
<1>1. call[p].ref \in Refs
  BY OnRoute DEF LANInv, RouteSteps
<1>2. stored' \subseteq stored /\ \A x \in Refs \ {call[p].ref} : Spared(x)
  BY <1>1, StoreSpares
<1>3. \A c \in claims : pending[c.requested] \in stored' =>
         pending[c.requested] \in Refs \ {call[p].ref}
  BY <1>2, ClaimedIs, NotClaimed, NamesAssumption DEF LANInv, Typed, StoreTyped
<1> QED BY <1>1, <1>2, <1>3 DEF Onwards

LEMMA OrderSuspend ==
  ASSUME LANInv, LANInv', InOrder, NEW p \in Procs, Suspend(p)
  PROVE  InOrder'
<1>1. /\ call[p].step = "suspend" /\ SuspendShare(call[p].ref) /\ Finish(p)
      /\ UNCHANGED <<bound, world, manager, ingress, mdns, pump, rest>>
  BY DEF Suspend, At
<1>2. call[p].ref \in Refs /\ Elsewhere(p) /\ call'[p].step \in FreeSteps
  BY <1>1, OnRoute, FinishingFree DEF LANInv, RouteSteps, FreeSteps
<1>3. stored' \subseteq stored /\ \A x \in Refs : Spared(x)
  BY <1>1, <1>2, StoreSpares
<1>4. Onwards(p)
  BY <1>1, <1>2, <1>3, ClaimedIs, NamesAssumption DEF Onwards, world, rest, LANInv, Typed, StoreTyped
<1> QED BY <1>1, <1>2, <1>4, OnwardFree DEF HoldSteps, Withdrawing, At

LEMMA OrderCheck ==
  ASSUME LANInv, LANInv', InOrder, NEW p \in Procs, Check(p) \/ NetworkRefused(p)
  PROVE  InOrder'
<1>1. /\ call[p].step \in {"check", "claim"}
      /\ UNCHANGED <<bound, world, manager, ingress, mdns, pump, rest>>
  BY DEF Check, NetworkRefused, At
<1>2. call[p].ref \in Refs /\ CallsTyped
  BY <1>1, OnRoute DEF LANInv, RouteSteps, Typed
<1>3. RequestShare(call[p].ref) \/ UNCHANGED store
  BY DEF Check, NetworkRefused
<1>4. stored' \subseteq stored /\ \A x \in Refs : Spared(x)
  BY <1>1, <1>2, <1>3, StoreSpares, SameStore
<1>5. /\ Elsewhere(p)
      /\ \/ call'[p].step \in FreeSteps
         \/ /\ call'[p].step \in {"claim", "unrequest"} /\ call'[p].ref = call[p].ref
            /\ reg[call[p].ref] = None
  <2>1. CASE Finish(p) \/ Refuse(p)
    BY <2>1, <1>2, FinishingFree DEF FreeSteps
  <2>2. CASE Check(p) /\ reg[call[p].ref] = None /\ Goto(p, "claim")
    BY <2>2, <1>2, GoesTo
  <2>3. CASE NetworkRefused(p)
    <3>1. Goto(p, "unrequest") /\ call[p].step = "claim"
      BY <2>3 DEF NetworkRefused, At
    <3>2. reg[call[p].ref] = None
      BY <3>1 DEF InOrder, CallsInv, CallOrder
    <3> QED BY <3>1, <3>2, <1>2, GoesTo
  <2> QED BY <2>1, <2>2, <2>3 DEF Check
<1>6. Onwards(p)
  BY <1>1, <1>4, <1>5, ClaimedIs, NamesAssumption DEF Onwards, world, rest, LANInv, Typed, StoreTyped
<1>7. CASE call'[p].step \in FreeSteps
  BY <1>1, <1>6, <1>7, OnwardFree DEF HoldSteps, Withdrawing, At
<1>8. CASE /\ call'[p].step \in {"claim", "unrequest"} /\ call'[p].ref = call[p].ref
           /\ reg[call[p].ref] = None
  <2>1. \A r \in Refs : taken'[p][r] = None
    BY <1>1, NothingTaken DEF Withdrawing, rest
  <2>2. CallOrder(p)'
    BY <1>1, <1>8, <2>1 DEF CallOrder, HoldSteps, HandleSteps, Withdraws, manager
  <2> QED BY <1>1, <1>6, <1>8, <2>2, Onward DEF HoldSteps, HandleSteps, At, Turn, Holds
<1> QED BY <1>5, <1>7, <1>8

LEMMA OrderUnrequest ==
  ASSUME LANInv, LANInv', InOrder, NEW p \in Procs, Unrequest(p) \/ RemoveLANShare(p)
  PROVE  InOrder'
<1>1. /\ call[p].step \in {"unrequest", "remove"} /\ RemoveShare(call[p].ref)
      /\ UNCHANGED <<bound, world, manager, ingress, mdns, pump, rest>>
  BY DEF Unrequest, RemoveLANShare, At
<1>2. Elsewhere(p) /\ call'[p].step \in FreeSteps
  <2>1. call[p].ref \in Refs /\ call \in [Procs -> Calls]
    BY <1>1, OnRoute DEF LANInv, RouteSteps, Typed, CallsTyped
  <2>2. CASE Refuse(p) \/ Finish(p)
    BY <2>1, <2>2, FinishingFree DEF FreeSteps
  <2>3. CASE Goto(p, "delete")
    BY <2>3, GoesTo DEF FreeSteps, LANInv, Typed
  <2>4. CASE call' = [call EXCEPT ![p].step = "close", ![p].after = AfterRemove(p)]
    BY <2>1, <2>4 DEF FreeSteps, Elsewhere, Calls
  <2> QED BY <2>2, <2>3, <2>4 DEF Unrequest, RemoveLANShare
<1>3. Onwards(p)
  BY <1>1, <1>2, WithdrawsOwn DEF world, rest
<1> QED BY <1>1, <1>2, <1>3, OnwardFree DEF HoldSteps, Withdrawing, At

LEMMA OrderDelete ==
  ASSUME LANInv, LANInv', InOrder, NEW p \in Procs, DeleteRoute(p)
  PROVE  InOrder'
<1>1. /\ call[p].step = "delete" /\ Finish(p)
      /\ stored' = stored \ {call[p].ref}
      /\ share' = [share EXCEPT ![call[p].ref] = "none"]
      /\ shareName' = [shareName EXCEPT ![call[p].ref] = NoName]
      /\ UNCHANGED <<bound, world, manager, ingress, mdns, pump, rest>>
  BY DEF DeleteRoute, At
<1>2. Elsewhere(p) /\ call'[p].step \in FreeSteps
  BY <1>1, FinishingFree DEF FreeSteps
<1>3. \A x \in stored' : Spared(x)
  BY <1>1 DEF Spared, LANInv, Typed, StoreTyped
<1>4. Onwards(p)
  BY <1>1, <1>2, <1>3 DEF Onwards, world, rest
<1> QED BY <1>1, <1>2, <1>4, OnwardFree DEF HoldSteps, Withdrawing, At

\* The claims of a call that shares a route are those of its network.
LEMMA ClaimsOfNet ==
  ASSUME LANInv, InOrder, NEW p \in Procs, ~At(p, "idle"), Closes(p) = None, NEW c \in claims
  PROVE  c.net = net
<1>1. c.net \in ingress /\ c.net \in Nets
  BY ClaimIs DEF LANInv, ClaimsInv, InOrder, PortsInv
<1>2. \A q \in Procs : Closes(q) = None
  BY Others DEF Closes, ClosingSteps, At, Turn
<1> QED BY <1>1, <1>2, NoneIsNone DEF LANInv, NetsInv

LEMMA OrderUnroute ==
  ASSUME LANInv, LANInv', InOrder, NEW p \in Procs, ResponderGone(p) \/ Unroute(p) \/ Unshare(p)
  PROVE  InOrder'
<1>1. /\ UNCHANGED <<world, manager, ingress, mdns, pump, rest>>
      /\ call[p].step \in {"register", "waiting", "answered", "unroute", "unshare"}
  BY DEF ResponderGone, Unroute, Unshare, At
<1>2. PICK s \in {"unroute", "unshare", "forget"} : Goto(p, s)
  BY DEF ResponderGone, Unroute, Unshare
<1>3. /\ Elsewhere(p) /\ call'[p].step = s /\ call'[p].ref = call[p].ref
  BY <1>2, GoesTo DEF LANInv, Typed
<1>4. \A c \in claims : /\ c.requested # Requested[call[p].ref]
                        /\ Holds(p, call[p].handle) => call[p].handle \notin c.handles
  <2>1. CASE ResponderGone(p)
    <3>1. call[p].step \in {"register", "waiting", "answered"} /\ call[p].net \notin live
      BY <2>1 DEF ResponderGone
    <3>2. call[p].net = net
      BY <3>1 DEF InOrder, CallsInv, CallOrder
    <3>3. Closes(p) = None
      BY <3>1 DEF Closes, ClosingSteps
    <3>4. \A c \in claims : c.net = net /\ c.net \in live
      BY <3>1, <3>3, ClaimsOfNet DEF At, LANInv, ClaimsInv
    <3> QED BY <3>1, <3>2, <3>4
  <2>2. CASE call[p].step \in {"unroute", "unshare"}
    BY <2>2 DEF InOrder, CallsInv, CallOrder, Holds
  <2> QED BY <2>1, <2>2 DEF Unroute, Unshare, At
<1>5. CallOrder(p)'
  <2>1. \A r \in Refs : taken'[p][r] = None
    BY <1>1, NothingTaken DEF Withdrawing, rest
  <2>2. reg[call[p].ref] = None /\ pending[Requested[call[p].ref]] = call[p].ref
    BY <1>1 DEF InOrder, CallsInv, CallOrder, HoldSteps
  <2> QED BY <1>1, <1>3, <1>4, <2>1, <2>2
          DEF CallOrder, HoldSteps, HandleSteps, Withdraws, manager, mdns
<1>6. Onwards(p)
  <2>1. CASE ResponderGone(p)
    BY <1>1, <1>3, <2>1, SameStore DEF ResponderGone, Onwards, world, rest
  <2>2. CASE Unroute(p)
    BY <1>1, <1>3, <2>2, WithdrawsOwn DEF Unroute, At, world, rest
  <2>3. CASE Unshare(p)
    BY <1>1, <1>3, <2>3, WithdrawsOwn DEF Unshare, At, world, rest
  <2> QED BY <2>1, <2>2, <2>3
<1> QED BY <1>1, <1>3, <1>4, <1>5, <1>6, Onward DEF HoldSteps, HandleSteps, At, Turn

\* Monitor and Close: from one registration to the next.
LEMMA OrderSuspendOld ==
  ASSUME LANInv, LANInv', InOrder, NEW p \in Procs, SuspendOld(p)
  PROVE  InOrder'
<1>1. /\ call[p].step = "suspendOld" /\ SuspendShare(call[p].ref) /\ Goto(p, "each")
      /\ UNCHANGED <<bound, world, manager, ingress, mdns, pump, rest>>
  BY DEF SuspendOld, At
<1>2. /\ call[p].ref \in Refs /\ Elsewhere(p) /\ call'[p].step = "each"
      /\ call'[p].kind = call[p].kind
  BY <1>1, OnRoute, GoesTo DEF LANInv, RouteSteps, Typed
<1>3. stored' \subseteq stored /\ \A x \in Refs : Spared(x)
  BY <1>1, <1>2, StoreSpares
<1>4. Onwards(p)
  BY <1>1, <1>2, <1>3, ClaimedIs, NamesAssumption DEF Onwards, world, rest, LANInv, Typed, StoreTyped
<1>5. CallOrder(p)'
  BY <1>1, <1>2 DEF InOrder, CallsInv, CallOrder, HoldSteps, HandleSteps, Withdraws, Sweeps, rest, manager
<1> QED BY <1>1, <1>2, <1>4, <1>5, Onward DEF HoldSteps, HandleSteps, At, Turn, Holds

LEMMA OrderAllWithdrawn ==
  ASSUME LANInv, LANInv', InOrder, NEW p \in Procs, AllWithdrawn(p)
  PROVE  InOrder'
<1>1. /\ call[p].step = "each" /\ \A r \in Refs : taken[p][r] = None
      /\ UNCHANGED <<store, bound, world, manager, ingress, mdns, pump, rest>>
  BY DEF AllWithdrawn, At, Last
<1>2. Elsewhere(p) /\ call'[p].step \in FreeSteps
  <2>1. CASE Finish(p)
    BY <2>1, FinishingFree DEF FreeSteps
  <2>2. CASE call' = [call EXCEPT ![p].step = "close", ![p].after = "finish"]
    BY <2>2 DEF FreeSteps, Elsewhere, LANInv, Typed, CallsTyped, Calls
  <2> QED BY <2>1, <2>2 DEF AllWithdrawn
<1>3. Onwards(p)
  BY <1>1, <1>2, SameStore DEF Onwards, world, rest
<1>4. CallOrder(p)' /\ call'[p].step \notin HandleSteps
  BY <1>1, <1>2, FreeOrder DEF rest
<1> QED BY <1>1, <1>3, <1>4, Onward DEF HoldSteps, At, Turn, Holds

-----------------------------------------------------------------------------
(* Steps that no call takes, and the begin of a call *)

LEMMA WorldOrder ==
  ASSUME LANInv, LANInv', InOrder, stored' \subseteq stored, \A r \in stored' : Spared(r),
         UNCHANGED <<manager, closed, ingress, mdns, pump, taken, call>>
  PROVE  InOrder'
<1>1. UNCHANGED <<claims, live, asked, pump, net, reg, regRef, pending, closed, ingress, taken, call>>
  BY DEF manager, mdns
<1>2. AloneInv' /\ CallsInv' /\ PortsInv' /\ BooksInv' /\ OwnersInv'
  BY <1>1 DEF InOrder, AloneInv, At, CallsInv, CallOrder, Withdraws, Sweeps, PortsInv,
     BooksInv, Reserving, OwnersInv, Handled
<1>3. HeldInv' /\ SortedInv'
  BY <1>1 DEF InOrder, HeldInv, Held, Owned, Holds, SortedInv, Sorted, Handled, Asks, Earlier, Due
<1>4. ServesInv'
  BY <1>1, ServesStay DEF Keyed
<1> QED BY <1>2, <1>3, <1>4 DEF InOrder

LEMMA OrderWorld ==
  ASSUME LANInv, LANInv', InOrder,
         NetworkChanges \/ NetworkReturns \/ (\E r \in Refs : Vanish(r)) \/ Rest \/ UNCHANGED vars
  PROVE  InOrder'
<1>1. UNCHANGED <<bound, manager, closed, ingress, mdns, pump, taken, call>>
  BY DEF NetworkChanges, NetworkReturns, Vanish, Rest, vars, world, rest
<1>2. CASE UNCHANGED store
  BY <1>1, <1>2, SameStore, WorldOrder
<1>3. ASSUME NEW r \in Refs, Vanish(r) PROVE InOrder'
  <2>1. stored' \subseteq stored /\ \A x \in stored' : Spared(x)
    BY <1>3 DEF Vanish, Spared, LANInv, Typed, StoreTyped
  <2> QED BY <1>1, <2>1, WorldOrder
<1> QED BY <1>2, <1>3 DEF NetworkChanges, NetworkReturns, Rest, vars

LEMMA OrderBegin ==
  ASSUME LANInv, LANInv', InOrder, orderly, NEW p \in Procs, NEW kind \in Kinds, NEW r \in Refs,
         Begin(p, kind, r)
  PROVE  InOrder'
<1>1. /\ \A q \in Procs : At(q, "idle")
      /\ call' = [call EXCEPT ![p] = [Idle EXCEPT !.kind = kind, !.ref = r, !.step = First(kind)]]
      /\ UNCHANGED <<store, bound, world, manager, ingress, mdns, pump, taken>>
  BY DEF Begin
<1> DEFINE s == First(kind)
<1>2. s \in {"check", "look", "take", "cancel"} /\ (s = "cancel" => kind = "close")
  BY DEF First
<1> HIDE DEF s
<1>3. Elsewhere(p) /\ call'[p].step = s /\ call'[p].kind = kind
  <2>1. call' = [call EXCEPT ![p] = [Idle EXCEPT !.kind = kind, !.ref = r, !.step = s]]
    BY <1>1 DEF s
  <2> QED BY <2>1 DEF Elsewhere, Idle, LANInv, Typed, CallsTyped
<1>4. Onwards(p)
  BY <1>1, <1>3, SameStore DEF Onwards, world
<1>5. \A x \in Refs : taken'[p][x] = None
  BY <1>1, NothingTaken DEF At, Withdrawing
<1>6. CallOrder(p)'
  BY <1>2, <1>3, <1>5 DEF CallOrder, HoldSteps, HandleSteps, Withdraws
<1> QED BY <1>1, <1>2, <1>3, <1>4, <1>6, Onward DEF HoldSteps, HandleSteps, At, Turn, Holds

LEMMA OrderNotice ==
  ASSUME LANInv, LANInv', InOrder, orderly, Notice
  PROVE  InOrder'
<1>1. /\ \A q \in Procs : At(q, "idle")
      /\ call' = [call EXCEPT ![Monitor].step = "swap", ![Monitor].net = net]
      /\ UNCHANGED <<store, bound, world, manager, ingress, mdns, pump, rest>>
  BY DEF Notice
<1>2. Monitor \in Procs
  BY DEF Procs
<1>3. Elsewhere(Monitor) /\ call'[Monitor].step = "swap"
  BY <1>1, <1>2 DEF Elsewhere, LANInv, Typed, CallsTyped, Calls
<1>4. Onwards(Monitor)
  BY <1>1, <1>3, SameStore DEF Onwards, world, rest
<1>5. \A x \in Refs : taken'[Monitor][x] = None
  BY <1>1, <1>2, NothingTaken DEF At, Withdrawing, rest
<1>6. CallOrder(Monitor)'
  BY <1>3, <1>5 DEF CallOrder, HoldSteps, HandleSteps, Withdraws
<1> QED BY <1>1, <1>2, <1>3, <1>4, <1>6, Onward DEF HoldSteps, HandleSteps, At, Turn, Holds

-----------------------------------------------------------------------------
(* The maps of the manager *)

\* A name that nobody has reserved for another route has no claim.
LEMMA NameFree ==
  ASSUME LANInv, InOrder, NEW p \in Procs, call[p].step \in {"claim", "register"},
         pending[Requested[call[p].ref]] \in {NoRef, call[p].ref}, NEW c \in claims
  PROVE  c.requested # Requested[call[p].ref]
<1> SUFFICES ASSUME c.requested = Requested[call[p].ref] PROVE FALSE
  OBVIOUS
<1>1. PICK h \in c.handles : h \in Handles
  BY ClaimIs DEF LANInv
<1>2. Held(c, h) /\ h # None
  BY <1>1, NoneIsNone DEF InOrder, HeldInv
<1>3. \A q \in Procs : ~Holds(q, h) /\ \A r \in Refs : taken[q][r] # h
  <2>1. ~Holds(p, h) /\ \A r \in Refs : taken[p][r] = None
    BY NothingTaken DEF Holds, Withdrawing
  <2> QED BY <2>1, <1>2, Others DEF Holds, At, Turn
<1>4. regRef[h] # NoRef
  BY <1>2, <1>3 DEF Held, Owned
<1>5. PICK r \in Refs : r = regRef[h]
  BY <1>1, <1>4 DEF LANInv, Typed, ManagerTyped
<1>6. reg[r] = h /\ Requested[r] = c.requested
  BY <1>1, <1>2, <1>4, <1>5 DEF Held, InOrder, BooksInv
<1>7. pending[c.requested] = r
  BY <1>2, <1>6 DEF InOrder, BooksInv
<1>8. r = call[p].ref
  BY <1>4, <1>5, <1>7
<1>9. reg[call[p].ref] = None
  BY DEF InOrder, CallsInv, CallOrder, HoldSteps
<1> QED BY <1>2, <1>6, <1>8, <1>9

LEMMA Reserved ==
  ASSUME LANInv, LANInv', InOrder, NEW p \in Procs, call[p].step = "claim",
         NEW n \in Nets, Reserve(p, n), net' = n, PortsInv',
         UNCHANGED <<store, bound, reg, regRef, claims, asked, pump, taken>>
  PROVE  InOrder'
<1> DEFINE name == Requested[call[p].ref]
<1>1. call[p].ref \in Refs /\ name \in Names
  BY OnRoute, NamesAssumption DEF LANInv, RouteSteps
<1>2. /\ pending[name] = NoRef
      /\ pending' = [pending EXCEPT ![name] = call[p].ref]
      /\ call' = [call EXCEPT ![p].step = "register", ![p].net = n]
  BY DEF Reserve
<1>3. /\ Elsewhere(p) /\ call'[p].step = "register" /\ call'[p].net = n
      /\ call'[p].ref = call[p].ref
  BY <1>2 DEF LANInv, Typed, CallsTyped, Calls, Elsewhere
<1>4. \A c \in claims : c.requested # name
  BY <1>2, NameFree
<1>5. pending'[name] = call[p].ref /\ \A m \in Names : m # name => pending'[m] = pending[m]
  BY <1>1, <1>2 DEF LANInv, Typed, ManagerTyped
<1>6. reg[call[p].ref] = None
  BY DEF InOrder, CallsInv, CallOrder
<1> HIDE DEF name
<1>7. CallOrder(p)'
  <2>1. \A r \in Refs : taken'[p][r] = None
    BY NothingTaken DEF Withdrawing
  <2> QED BY <2>1, <1>3, <1>5, <1>6 DEF CallOrder, HoldSteps, HandleSteps, Withdraws, name
<1>8. AloneInv' /\ CallsInv'
  BY <1>3, <1>7, CallsKept DEF At, Turn
<1>9. BooksInv'
  <2>1. \A r \in Refs : Requested[r] \in Names
    BY NamesAssumption
  <2>2. \A r \in Refs : reg[r] # None => Requested[r] # name
    BY <1>2, NamesAssumption DEF InOrder, BooksInv
  <2>3. Reserving(call[p].ref)'
    BY <1>3 DEF Reserving, HoldSteps
  <2>4. \A r : ~Reserving(r)
    BY DEF Reserving, HoldSteps, InOrder, AloneInv, At
  <2>5. ASSUME NEW m \in Names, pending'[m] # NoRef
        PROVE  Requested[pending'[m]] = m /\ (reg[pending'[m]] # None \/ Reserving(pending[m])')
    <3>1. CASE m = name
      <4>1. pending'[m] = call[p].ref /\ Requested[call[p].ref] = m
        BY <3>1, <1>5 DEF name
      <4> QED BY <4>1, <1>3 DEF Reserving, HoldSteps
    <3>2. CASE m # name
      BY <3>2, <1>5, <2>4, <2>5 DEF InOrder, BooksInv
    <3> QED BY <3>1, <3>2
  <2>6. \A r \in Refs : reg'[r] # None => regRef'[reg'[r]] = r /\ pending'[Requested[r]] = r
    BY <1>5, <2>1, <2>2 DEF InOrder, BooksInv
  <2>7. \A h \in Handles : regRef'[h] # NoRef => reg'[regRef'[h]] = h
    BY DEF InOrder, BooksInv
  <2>8. \A m \in Names : pending'[m] # NoRef =>
          Requested[pending'[m]] = m /\ (reg'[pending'[m]] # None \/ Reserving(pending[m])')
    BY <2>5
  <2> QED BY <2>6, <2>7, <2>8 DEF BooksInv, Reserving
<1>10. HeldInv'
  <2>1. \A q \in Procs : \A h : Holds(q, h) => Holds(q, h)'
    BY <1>3 DEF Holds, Elsewhere
  <2>2. \A q \in Procs : call'[q].step \in HandleSteps =>
             /\ call[q].step \in HandleSteps
             /\ call'[q].handle = call[q].handle /\ call'[q].ref = call[q].ref
    BY <1>3 DEF Elsewhere, HandleSteps
  <2>3. ClaimsInv' /\ \A e \in claims' : \E c \in claims : Kept(c, e)
    BY DEF LANInv, Kept, Keyed
  <2> QED BY <2>1, <2>2, <2>3, HeldStays DEF InOrder
<1>11. SortedInv'
  BY SortedStays DEF InOrder, Same, Kept, Keyed
<1>12. \A e \in claims' : e.net \in Nets /\ pending'[e.requested] = pending[e.requested]
  BY <1>4, <1>5, ClaimIs DEF LANInv
<1>13. OwnersInv'
  BY <1>12, OwnersStay DEF InOrder, Keyed
<1>14. ServesInv'
  BY <1>12, SameStore, ServesStay DEF Keyed
<1> QED BY <1>8, <1>9, <1>10, <1>11, <1>13, <1>14 DEF InOrder

LEMMA OrderReserve ==
  ASSUME LANInv, LANInv', InOrder, NEW p \in Procs, ReserveName(p) \/ StartNetwork(p)
  PROVE  InOrder'
<1>1. call[p].step = "claim"
  BY DEF ReserveName, StartNetwork, At
<1>2. CASE ReserveName(p)
  <2>1. /\ Reserve(p, net) /\ net # None /\ net' = net
        /\ UNCHANGED <<store, bound, world, reg, regRef, ingress, mdns, pump, taken>>
    BY <1>2 DEF ReserveName, rest
  <2>2. net \in Nets
    BY <2>1 DEF LANInv, Typed, ManagerTyped
  <2>3. PortsInv'
    BY <2>1, PortsStay DEF world, mdns, InOrder
  <2> QED BY <1>1, <2>1, <2>2, <2>3, Reserved DEF mdns
<1>3. CASE StartNetwork(p)
  <2> DEFINE n == Least(FreeNets)
  <2>1. /\ Reserve(p, n) /\ net' = n /\ ingress = {} /\ FreeNets # {}
        /\ IF closed THEN UNCHANGED <<ingress, live>>
           ELSE ingress' = ingress \cup {n} /\ live' = live \cup {n}
        /\ UNCHANGED <<store, bound, closed, reg, regRef, claims, asked, pump, taken>>
    BY <1>3 DEF StartNetwork, rest
  <2>2. n \in Nets
    <3>1. FreeNets \in SUBSET Nat /\ FreeNets \subseteq Nets
      BY NoneIsNone DEF FreeNets
    <3> QED BY <3>1, <2>1, LeastIs
  <2> HIDE DEF n
  <2>3. PortsInv'
    BY <2>1 DEF InOrder, PortsInv
  <2> QED BY <1>1, <2>1, <2>2, <2>3, Reserved
<1> QED BY <1>2, <1>3

\* The registration of a call that has its answer is entered.
LEMMA OrderEnter ==
  ASSUME LANInv, LANInv', InOrder, NEW p \in Procs, Enter(p)
  PROVE  InOrder'
<1> DEFINE r == call[p].ref
           h == call[p].handle
<1>1. /\ call[p].step = "answered" /\ Finish(p)
      /\ reg' = [reg EXCEPT ![r] = h]
      /\ regRef' = [regRef EXCEPT ![h] = r]
      /\ UNCHANGED <<store, bound, world, net, pending, ingress, mdns, pump, rest>>
  BY DEF Enter, At
<1>2. r \in Refs /\ h \in Handles /\ h # None
  <2>1. CallTyped(call[p])
    BY DEF LANInv, Typed, CallsTyped
  <2> QED BY <1>1, <2>1, NoneIsNone DEF CallTyped, RouteSteps, HandleSteps
<1>3. /\ reg[r] = None /\ pending[Requested[r]] = r /\ regRef[h] = NoRef
      /\ Requested[r] \in Names /\ r # NoRef
  BY <1>1, <1>2, NamesAssumption DEF InOrder, CallsInv, CallOrder, HoldSteps, HandleSteps
<1>4. /\ reg'[r] = h /\ \A x \in Refs : x # r => reg'[x] = reg[x]
      /\ regRef'[h] = r /\ \A g \in Handles : g # h => regRef'[g] = regRef[g]
  BY <1>1, <1>2 DEF LANInv, Typed, ManagerTyped
<1>5. Elsewhere(p) /\ call'[p].step \in {"idle", "next"}
  BY <1>1, Finishing DEF LANInv, Typed
<1>6. AloneInv' /\ CallsInv'
  <2>1. CallOrder(p)'
    BY <1>1, <1>5, NothingTaken, FreeOrder DEF Withdrawing, FreeSteps, rest
  <2> QED BY <1>1, <1>5, <2>1, CallsKept DEF At, Turn, rest
<1>7. PortsInv' /\ SortedInv' /\ OwnersInv' /\ ServesInv'
  BY <1>1, PortsStay, SortedStays, OwnersStay, ServesStay, SameStore, ClaimIs
     DEF InOrder, Same, Kept, Keyed, world, mdns, LANInv
<1>8. \A q \in Procs : q # p => call[q].step = "idle" /\ call'[q].step = "idle"
  BY <1>1, <1>5, Others DEF At, Turn, Elsewhere
<1> HIDE DEF r, h
<1>9. BooksInv'
  <2>1. \A x \in Refs : reg'[x] # None => regRef'[reg'[x]] = x /\ pending'[Requested[x]] = x
    <3> SUFFICES ASSUME NEW x \in Refs, reg'[x] # None
                 PROVE  regRef'[reg'[x]] = x /\ pending'[Requested[x]] = x
      OBVIOUS
    <3>1. CASE x = r
      BY <3>1, <1>1, <1>3, <1>4
    <3>2. CASE x # r
      <4>1. reg[x] \in Handles /\ regRef[reg[x]] = x /\ pending[Requested[x]] = x
        BY <3>2, <1>4 DEF LANInv, Typed, ManagerTyped, InOrder, BooksInv
      <4>2. reg[x] # h
        BY <4>1, <1>3, NamesAssumption
      <4> QED BY <3>2, <4>1, <4>2, <1>1, <1>4
    <3> QED BY <3>1, <3>2
  <2>2. \A g \in Handles : regRef'[g] # NoRef => reg'[regRef'[g]] = g
    <3> SUFFICES ASSUME NEW g \in Handles, regRef'[g] # NoRef PROVE reg'[regRef'[g]] = g
      OBVIOUS
    <3>1. CASE g = h
      BY <3>1, <1>4
    <3>2. CASE g # h
      <4>1. regRef[g] \in Refs /\ reg[regRef[g]] = g /\ regRef'[g] = regRef[g] /\ g # None
        BY <3>2, <1>4, NoneIsNone DEF LANInv, Typed, ManagerTyped, InOrder, BooksInv
      <4> QED BY <4>1, <1>3, <1>4
    <3> QED BY <3>1, <3>2
  <2>3. \A n \in Names : pending[n] # NoRef => Requested[pending[n]] = n /\ reg'[pending[n]] # None
    <3> SUFFICES ASSUME NEW n \in Names, pending[n] # NoRef
                 PROVE  Requested[pending[n]] = n /\ reg'[pending[n]] # None
      OBVIOUS
    <3>1. /\ pending[n] \in Refs /\ Requested[pending[n]] = n
          /\ reg[pending[n]] # None \/ Reserving(pending[n])
      BY DEF LANInv, Typed, ManagerTyped, InOrder, BooksInv
    <3>2. Reserving(pending[n]) => pending[n] = r
      BY <1>8 DEF Reserving, HoldSteps, r
    <3> QED BY <3>1, <3>2, <1>2, <1>4
  <2> QED BY <2>1, <2>2, <2>3, <1>1 DEF BooksInv
<1>10. HeldInv'
  <2> SUFFICES ASSUME NEW c \in claims', NEW g \in c.handles PROVE Held(c, g)'
    BY DEF HeldInv
  <2>1. c \in claims /\ g \in Handles /\ Held(c, g)
    BY <1>1, ClaimIs DEF LANInv, mdns, InOrder, HeldInv
  <2>2. Owned(g)'
    <3>1. \A q \in Procs : Holds(q, g) => g = h
      BY <1>8 DEF Holds, h
    <3>2. regRef'[g] # NoRef \/ \E q \in Procs, x \in Refs : taken[q][x] = g
      BY <2>1, <3>1, <1>3, <1>4 DEF Held, Owned
    <3> QED BY <3>2, <1>1 DEF Owned, rest
  <2>3. regRef'[g] # NoRef => Requested[regRef'[g]] = c.requested
    <3>1. CASE g = h
      BY <3>1, <2>1, <1>1, <1>4 DEF Held, HandleSteps, r, h
    <3> QED BY <3>1, <2>1, <1>4 DEF Held
  <2>4. \A q \in Procs : call'[q].step \notin HandleSteps
    BY <1>5, <1>8 DEF HandleSteps
  <2> QED BY <2>1, <2>2, <2>3, <2>4, <1>1 DEF Held, mdns
<1> QED BY <1>6, <1>7, <1>9, <1>10 DEF InOrder

LEMMA OrderForget ==
  ASSUME LANInv, LANInv', InOrder, NEW p \in Procs, Forget(p)
  PROVE  InOrder'
<1> DEFINE r == call[p].ref
<1>1. /\ call[p].step = "forget"
      /\ pending' = [pending EXCEPT ![Requested[r]] = NoRef]
      /\ \/ net' = None /\ Closing(p, "refuse")
         \/ UNCHANGED net /\ Refuse(p)
      /\ UNCHANGED <<store, bound, world, reg, regRef, ingress, mdns, pump, rest>>
  BY DEF Forget, At
<1>2. r \in Refs /\ Requested[r] \in Names /\ r # NoRef
  BY <1>1, OnRoute, NamesAssumption DEF LANInv, RouteSteps
<1>3. reg[r] = None /\ pending[Requested[r]] = r
  BY <1>1 DEF InOrder, CallsInv, CallOrder, HoldSteps
<1>4. /\ pending'[Requested[r]] = NoRef
      /\ \A n \in Names : n # Requested[r] => pending'[n] = pending[n]
  BY <1>1, <1>2 DEF LANInv, Typed, ManagerTyped
<1>5. Elsewhere(p) /\ call'[p].step \in FreeSteps
  <2>1. CASE Closing(p, "refuse")
    BY <2>1 DEF Closing, Elsewhere, FreeSteps, LANInv, Typed, CallsTyped, Calls
  <2>2. CASE Refuse(p)
    BY <2>2, <1>2, FinishingFree DEF FreeSteps
  <2> QED BY <2>1, <2>2, <1>1
<1>6. AloneInv' /\ CallsInv'
  <2>1. CallOrder(p)'
    BY <1>1, <1>5, NothingTaken, FreeOrder DEF Withdrawing, rest
  <2> QED BY <1>1, <1>5, <2>1, CallsKept DEF At, Turn, rest
<1>7. \A c \in claims : c.net \in Nets /\ pending'[c.requested] \in {pending[c.requested], NoRef}
  BY <1>4, ClaimIs DEF LANInv
<1>8. PortsInv' /\ SortedInv' /\ OwnersInv' /\ ServesInv'
  BY <1>1, <1>7, PortsStay, SortedStays, OwnersStay, ServesStay, SameStore
     DEF InOrder, Same, Kept, Keyed, world, mdns
<1>9. \A q \in Procs : q # p => call[q].step = "idle" /\ call'[q].step = "idle"
  BY <1>1, <1>5, Others DEF At, Turn, Elsewhere
<1>10. HeldInv'
  <2>1. \A q \in Procs : \A h : ~Holds(q, h)
    BY <1>1, <1>9 DEF Holds
  <2>2. \A q \in Procs : call'[q].step \notin HandleSteps
    BY <1>5, <1>9 DEF HandleSteps, FreeSteps
  <2> QED BY <1>1, <2>1, <2>2, HeldStays DEF LANInv, InOrder, Kept, Keyed, mdns, rest
<1> HIDE DEF r
<1>11. BooksInv'
  <2>1. \A x \in Refs : reg[x] # None => regRef[reg[x]] = x /\ pending'[Requested[x]] = x
    <3> SUFFICES ASSUME NEW x \in Refs, reg[x] # None
                 PROVE  regRef[reg[x]] = x /\ pending'[Requested[x]] = x
      OBVIOUS
    <3>1. regRef[reg[x]] = x /\ pending[Requested[x]] = x /\ Requested[x] \in Names
      BY NamesAssumption DEF InOrder, BooksInv
    <3>2. Requested[x] # Requested[r]
      BY <3>1, <1>3
    <3> QED BY <3>1, <3>2, <1>4
  <2>2. \A n \in Names : pending'[n] # NoRef => Requested[pending'[n]] = n /\ reg[pending'[n]] # None
    <3> SUFFICES ASSUME NEW n \in Names, pending'[n] # NoRef
                 PROVE  Requested[pending'[n]] = n /\ reg[pending'[n]] # None
      OBVIOUS
    <3>1. n # Requested[r] /\ pending'[n] = pending[n]
      BY <1>4
    <3>2. /\ Requested[pending[n]] = n
          /\ reg[pending[n]] # None \/ Reserving(pending[n])
      BY <3>1 DEF InOrder, BooksInv
    <3>3. Reserving(pending[n]) => pending[n] = r
      BY <1>9 DEF Reserving, HoldSteps, r
    <3> QED BY <3>1, <3>2, <3>3
  <2>3. \A h \in Handles : regRef[h] # NoRef => reg[regRef[h]] = h
    BY DEF InOrder, BooksInv
  <2> QED BY <2>1, <2>2, <2>3, <1>1 DEF BooksInv
<1> QED BY <1>6, <1>8, <1>10, <1>11 DEF InOrder

\* The maps of the manager forget a route, and who does so withdraws it.
LEMMA OrderTake ==
  ASSUME LANInv, LANInv', InOrder, NEW p \in Procs, Take(p)
  PROVE  InOrder'
<1> DEFINE r == call[p].ref
           h == reg[r]
<1>1. /\ call[p].step = "take"
      /\ reg' = [reg EXCEPT ![r] = None]
      /\ IF h = None THEN UNCHANGED <<regRef, pending>>
         ELSE /\ regRef' = [regRef EXCEPT ![h] = NoRef]
              /\ pending' = [pending EXCEPT ![Requested[r]] = NoRef]
      /\ UNCHANGED <<store, bound, world, ingress, mdns, pump, rest>>
  BY DEF Take, At
<1>2. /\ r \in Refs /\ Requested[r] \in Names /\ r # NoRef /\ h \in Handles \cup {None}
  BY <1>1, OnRoute, NamesAssumption DEF LANInv, RouteSteps, Typed, ManagerTyped
<1>3. h # None => regRef[h] = r /\ pending[Requested[r]] = r
  BY <1>2 DEF InOrder, BooksInv
<1>4. /\ reg'[r] = None /\ \A x \in Refs : x # r => reg'[x] = reg[x]
      /\ h # None => pending'[Requested[r]] = NoRef /\ regRef'[h] = NoRef
      /\ \A n \in Names : n # Requested[r] \/ h = None => pending'[n] = pending[n]
      /\ \A g \in Handles : g # h => regRef'[g] = regRef[g]
  BY <1>1, <1>2 DEF LANInv, Typed, ManagerTyped
<1>5. /\ Elsewhere(p) /\ call'[p].step = "release" /\ call'[p].handle = h /\ call'[p].ref = r
  <2>1. \E n : call' = [call EXCEPT ![p].handle = h, ![p].net = n, ![p].step = "release"]
    BY DEF Take
  <2> QED BY <2>1 DEF Elsewhere, LANInv, Typed, CallsTyped, Calls
<1>6. AloneInv' /\ CallsInv'
  <2>1. CallOrder(p)'
    <3>1. \A x \in Refs : taken'[p][x] = None
      BY <1>1, NothingTaken DEF Withdrawing, rest
    <3> QED BY <3>1, <1>4, <1>5 DEF CallOrder, HoldSteps, HandleSteps, Withdraws
  <2> QED BY <1>1, <1>5, <2>1, CallsKept DEF At, Turn, rest
<1>7. \A c \in claims : c.net \in Nets /\ pending'[c.requested] \in {pending[c.requested], NoRef}
  BY <1>4, ClaimIs DEF LANInv
<1>8. PortsInv' /\ SortedInv' /\ OwnersInv' /\ ServesInv'
  BY <1>1, <1>7, PortsStay, SortedStays, OwnersStay, ServesStay, SameStore
     DEF InOrder, Same, Kept, Keyed, world, mdns
<1>9. \A q \in Procs : q # p => call[q].step = "idle" /\ call'[q].step = "idle"
  BY <1>1, <1>5, Others DEF At, Turn, Elsewhere
<1>10. \A x : ~Reserving(x)
  BY <1>1, <1>9 DEF Reserving, HoldSteps
<1> HIDE DEF r, h
<1>11. HeldInv'
  <2> SUFFICES ASSUME NEW c \in claims', NEW g \in c.handles PROVE Held(c, g)'
    BY DEF HeldInv
  <2>1. c \in claims /\ g \in Handles /\ Held(c, g)
    BY <1>1, ClaimIs DEF LANInv, mdns, InOrder, HeldInv
  <2>2. Owned(g)'
    <3>1. \A q \in Procs : ~Holds(q, g)
      BY <1>1, <1>9 DEF Holds
    <3>2. CASE g = h
      BY <3>2, <1>5 DEF Owned, Holds
    <3>3. CASE g # h
      BY <3>1, <3>3, <2>1, <1>1, <1>4 DEF Held, Owned, rest
    <3> QED BY <3>2, <3>3
  <2>3. regRef'[g] # NoRef => Requested[regRef'[g]] = c.requested
    BY <2>1, <1>3, <1>4, NoneIsNone DEF Held
  <2>4. \A q \in Procs : call'[q].step \notin HandleSteps
    BY <1>5, <1>9 DEF HandleSteps
  <2> QED BY <2>1, <2>2, <2>3, <2>4, <1>1 DEF Held, mdns
<1>12. BooksInv'
  <2>1. \A x \in Refs : reg'[x] # None => regRef'[reg'[x]] = x /\ pending'[Requested[x]] = x
    <3> SUFFICES ASSUME NEW x \in Refs, reg'[x] # None
                 PROVE  regRef'[reg'[x]] = x /\ pending'[Requested[x]] = x
      OBVIOUS
    <3>1. x # r /\ reg'[x] = reg[x] /\ reg[x] \in Handles /\ Requested[x] \in Names
      BY <1>4, NamesAssumption DEF LANInv, Typed, ManagerTyped
    <3>2. regRef[reg[x]] = x /\ pending[Requested[x]] = x
      BY <3>1 DEF InOrder, BooksInv
    <3>3. reg[x] # h
      BY <3>1, <3>2, <1>3, NoneIsNone
    <3>4. Requested[x] # Requested[r] \/ h = None
      BY <3>1, <3>2, <1>3
    <3> QED BY <3>1, <3>2, <3>3, <3>4, <1>4
  <2>2. \A n \in Names : pending'[n] # NoRef => Requested[pending'[n]] = n /\ reg'[pending'[n]] # None
    <3> SUFFICES ASSUME NEW n \in Names, pending'[n] # NoRef
                 PROVE  Requested[pending'[n]] = n /\ reg'[pending'[n]] # None
      OBVIOUS
    <3>1. pending'[n] = pending[n] /\ (n # Requested[r] \/ h = None) /\ pending[n] \in Refs
      BY <1>4 DEF LANInv, Typed, ManagerTyped
    <3>2. Requested[pending[n]] = n /\ reg[pending[n]] # None
      BY <3>1, <1>10 DEF InOrder, BooksInv
    <3>3. pending[n] # r
      BY <3>1, <3>2 DEF h
    <3> QED BY <3>1, <3>2, <3>3, <1>4
  <2>3. \A g \in Handles : regRef'[g] # NoRef => reg'[regRef'[g]] = g
    <3> SUFFICES ASSUME NEW g \in Handles, regRef'[g] # NoRef PROVE reg'[regRef'[g]] = g
      OBVIOUS
    <3>1. g # h /\ regRef'[g] = regRef[g] /\ regRef[g] \in Refs /\ g # None
      BY <1>4, NoneIsNone DEF LANInv, Typed, ManagerTyped
    <3>2. reg[regRef[g]] = g /\ regRef[g] # r
      BY <3>1 DEF InOrder, BooksInv, h
    <3> QED BY <3>1, <3>2, <1>4
  <2> QED BY <2>1, <2>2, <2>3 DEF BooksInv
<1> QED BY <1>6, <1>8, <1>11, <1>12 DEF InOrder

\* Monitor and Close: the maps are emptied, and what they had is withdrawn.
LEMMA OrderTakeAll ==
  ASSUME LANInv, LANInv', InOrder, NEW p \in Procs, TakeAll(p),
         \/ p = Monitor /\ call[p].step = "swap"
         \/ call[p].step = "takeAll",
         UNCHANGED <<store, bound, world, ingress, mdns, pump>>
  PROVE  InOrder'
<1>1. /\ taken' = [taken EXCEPT ![p] = reg]
      /\ pending' = [n \in Names |-> NoRef]
      /\ reg' = [r \in Refs |-> None]
      /\ regRef' = [h \in Handles |-> NoRef]
      /\ call' = [call EXCEPT ![p].net = net, ![p].step = "each"]
  BY DEF TakeAll
<1>2. /\ Elsewhere(p) /\ call'[p].step = "each" /\ call'[p].kind = call[p].kind
      /\ taken'[p] = reg /\ \A q \in Procs \ {p} : taken'[q] = taken[q]
  BY <1>1 DEF Elsewhere, LANInv, Typed, CallsTyped, Calls, RestTyped
<1>3. Sweeps(p)'
  BY <1>2 DEF Sweeps, InOrder, CallsInv, CallOrder
<1>4. CallOrder(p)'
  BY <1>1, <1>2, <1>3 DEF CallOrder, HoldSteps, HandleSteps, Withdraws
<1>5. AloneInv' /\ CallsInv'
  BY <1>2, <1>4, CallsKept DEF At, Turn
<1>6. \A c \in claims : c.net \in Nets /\ pending'[c.requested] \in {pending[c.requested], NoRef}
  BY <1>1, ClaimIs DEF LANInv
<1>7. PortsInv' /\ SortedInv' /\ OwnersInv' /\ ServesInv'
  BY <1>6, PortsStay, SortedStays, OwnersStay, ServesStay, SameStore
     DEF InOrder, Same, Kept, Keyed, world, mdns
<1>8. BooksInv'
  BY <1>1 DEF BooksInv
<1>9. HeldInv'
  <2> SUFFICES ASSUME NEW c \in claims', NEW g \in c.handles PROVE Held(c, g)'
    BY DEF HeldInv
  <2>1. c \in claims /\ g \in Handles /\ g # None /\ Held(c, g)
    BY ClaimIs, NoneIsNone DEF LANInv, mdns, InOrder, HeldInv
  <2>2. \A q \in Procs : ~Holds(q, g) /\ \A r \in Refs : taken[q][r] # g
    <3>1. ~Holds(p, g) /\ \A r \in Refs : taken[p][r] = None
      BY NothingTaken DEF Holds, Withdrawing
    <3> QED BY <3>1, <2>1, Others DEF Holds, At, Turn
  <2>3. regRef[g] \in Refs /\ reg[regRef[g]] = g
    BY <2>1, <2>2 DEF Held, Owned, LANInv, Typed, ManagerTyped, InOrder, BooksInv
  <2>4. Owned(g)'
    BY <1>2, <2>3 DEF Owned
  <2>5. \A q \in Procs : call'[q].step \notin HandleSteps
    BY <1>2, Others DEF HandleSteps, Elsewhere, At, Turn
  <2> QED BY <2>1, <2>4, <2>5, <1>1 DEF Held, mdns
<1> QED BY <1>5, <1>7, <1>8, <1>9 DEF InOrder

LEMMA OrderSwap ==
  ASSUME LANInv, LANInv', InOrder, NEW p \in Procs, (p = Monitor /\ Swap) \/ Shutdown(p)
  PROVE  InOrder'
<1>1. CASE p = Monitor /\ Swap
  <2>1. CASE Finish(p) /\ UNCHANGED <<manager, taken>>
    BY <1>1, <2>1, OrderLook DEF Swap
  <2>2. CASE TakeAll(p)
    BY <1>1, <2>2, OrderTakeAll DEF Swap, At
  <2> QED BY <1>1, <2>1, <2>2 DEF Swap
<1>2. CASE Shutdown(p)
  BY <1>2, OrderTakeAll DEF Shutdown, At
<1> QED BY <1>1, <1>2

LEMMA OrderWithdrawNext ==
  ASSUME LANInv, LANInv', InOrder, NEW p \in Procs, WithdrawNext(p)
  PROVE  InOrder'
<1>1. PICK r \in Refs :
        /\ call[p].step = "each" /\ taken[p][r] # None
        /\ taken' = [taken EXCEPT ![p][r] = None]
        /\ call' = [call EXCEPT ![p].step = "release", ![p].ref = r, ![p].handle = taken[p][r]]
        /\ UNCHANGED <<store, bound, world, manager, ingress, mdns, pump>>
  BY DEF WithdrawNext, At
<1>2. /\ Elsewhere(p) /\ call'[p].step = "release" /\ call'[p].kind = call[p].kind
      /\ call'[p].ref = r /\ call'[p].handle = taken[p][r]
      /\ \A q \in Procs \ {p} : taken'[q] = taken[q]
      /\ \A x \in Refs : x # r => taken'[p][x] = taken[p][x]
      /\ taken'[p][r] = None
  BY <1>1 DEF Elsewhere, LANInv, Typed, CallsTyped, Calls, RestTyped
<1>3. Withdraws(p)
  BY DEF InOrder, CallsInv, CallOrder
<1>4. CallOrder(p)'
  BY <1>1, <1>2, <1>3 DEF CallOrder, HoldSteps, HandleSteps, Withdraws, Sweeps, manager
<1>5. AloneInv' /\ CallsInv'
  BY <1>1, <1>2, <1>4, CallsKept DEF At, Turn
<1>6. PortsInv' /\ SortedInv' /\ OwnersInv' /\ ServesInv'
  BY <1>1, PortsStay, SortedStays, OwnersStay, ServesStay, SameStore, ClaimIs
     DEF InOrder, Same, Kept, Keyed, world, mdns, manager, LANInv
<1>7. BooksInv'
  <2>1. \A q \in Procs : call[q].step \notin HoldSteps
    BY <1>1, Others DEF HoldSteps, At, Turn
  <2> QED BY <2>1, <1>1, BooksStay DEF InOrder, manager
<1>8. HeldInv'
  <2> SUFFICES ASSUME NEW c \in claims', NEW g \in c.handles PROVE Held(c, g)'
    BY DEF HeldInv
  <2>1. c \in claims /\ g \in Handles /\ g # None /\ Held(c, g)
    BY <1>1, ClaimIs, NoneIsNone DEF LANInv, mdns, InOrder, HeldInv
  <2>2. \A q \in Procs : ~Holds(q, g)
    BY <1>1, Others DEF Holds, At, Turn
  <2>3. Owned(g)'
    <3>1. CASE taken[p][r] = g
      BY <3>1, <1>2 DEF Owned, Holds
    <3>2. CASE taken[p][r] # g
      <4>1. regRef[g] # NoRef \/ \E q \in Procs, x \in Refs : taken[q][x] = g
        BY <2>1, <2>2 DEF Held, Owned
      <4>2. \A q \in Procs, x \in Refs : taken[q][x] = g => taken'[q][x] = g
        BY <3>2, <1>2
      <4> QED BY <4>1, <4>2, <1>1 DEF Owned, manager
    <3> QED BY <3>1, <3>2
  <2>4. \A q \in Procs : call'[q].step \notin HandleSteps
    BY <1>1, <1>2, Others DEF HandleSteps, Elsewhere, At, Turn
  <2> QED BY <2>1, <2>3, <2>4, <1>1 DEF Held, mdns, manager
<1> QED BY <1>5, <1>6, <1>7, <1>8 DEF InOrder

\* A registration is withdrawn from its claim, and its certificate is removed.
LEMMA WithoutIs ==
  ASSUME Typed, NEW h, claims' = WithoutHandle(h)
  PROVE  \A e \in claims' : h \notin e.handles /\ \E c \in claims : Same(c, e)
<1> SUFFICES ASSUME NEW c \in claims
             PROVE  LET e == [c EXCEPT !.handles = @ \ {h}] IN h \notin e.handles /\ Same(c, e)
  BY DEF WithoutHandle
<1> QED BY ClaimIs DEF ClaimTyped, AllClaims, Same, Kept, Keyed

LEMMA OrderRelease ==
  ASSUME LANInv, LANInv', InOrder, orderly, NEW p \in Procs, Release(p)
  PROVE  InOrder'
<1> DEFINE h == call[p].handle
<1>1. /\ call[p].step = "release" /\ bound' = Unbound(call[p].ref)
      /\ \E failed \in BOOLEAN :
            call' = [call EXCEPT ![p].failed = failed,
                                 ![p].step = IF Sweeps(p) THEN "suspendOld" ELSE "remove"]
      /\ UNCHANGED <<store, world, manager, ingress, live, asked, pump, rest>>
  BY DEF Release, At
<1>2. call[p].ref \in Refs
  BY <1>1, OnRoute DEF LANInv, RouteSteps
<1>3. /\ Elsewhere(p) /\ call'[p].kind = call[p].kind /\ call'[p].ref = call[p].ref
      /\ call'[p].step = (IF Sweeps(p) THEN "suspendOld" ELSE "remove")
  BY <1>1 DEF Elsewhere, LANInv, Typed, CallsTyped, Calls
<1>4. \A e \in claims' : h \notin e.handles /\ \E c \in claims : Same(c, e)
  <2>1. CASE claims' = WithoutHandle(h)
    BY <2>1, WithoutIs DEF LANInv
  <2>2. CASE UNCHANGED claims /\ call'[p].failed
    <3>1. \A c \in claims : h \notin c.handles
      <4>1. PICK failed \in IF h # None /\ \A c \in claims : h \notin c.handles
                            THEN BOOLEAN ELSE {FALSE} :
              call' = [call EXCEPT ![p].failed = failed,
                                   ![p].step = IF Sweeps(p) THEN "suspendOld" ELSE "remove"]
        BY DEF Release
      <4>2. failed
        BY <2>2, <4>1 DEF LANInv, Typed, CallsTyped, Calls
      <4> QED BY <4>1, <4>2
    <3> QED BY <2>2, <3>1 DEF Same, Kept, Keyed
  <2> QED BY <2>1, <2>2 DEF Release
<1> HIDE DEF h
<1>5. CallOrder(p)'
  <2>1. Withdraws(p) /\ reg[call[p].ref] = None
    BY <1>1 DEF InOrder, CallsInv, CallOrder
  <2>2. Withdraws(p)'
    BY <1>1, <1>3, <2>1 DEF Withdraws, Sweeps, rest, manager
  <2> QED BY <1>1, <1>3, <2>1, <2>2 DEF CallOrder, HoldSteps, HandleSteps, manager
<1>6. AloneInv' /\ CallsInv'
  BY <1>1, <1>3, <1>5, CallsKept DEF At, Turn, rest
<1>7. \A q \in Procs : q # p => call[q].step = "idle" /\ call'[q].step = "idle"
  BY <1>1, <1>3, Others DEF At, Turn, Elsewhere
<1>8. PortsInv' /\ SortedInv' /\ BooksInv'
  <2>1. \A q \in Procs : call[q].step \notin HoldSteps
    BY <1>1, <1>7 DEF HoldSteps
  <2> QED BY <2>1, <1>1, <1>4, PortsStay, SortedStays, BooksStay DEF InOrder, world, manager
<1>9. \A e \in claims' : e.net \in Nets /\ \E c \in claims : Keyed(c, e)
  BY <1>4, ClaimIs DEF LANInv, Same, Kept, Keyed
<1>10. OwnersInv'
  BY <1>1, <1>9, OwnersStay DEF InOrder, manager
<1>11. ServesInv'
  <2>1. \A x \in Refs \ {call[p].ref} : Spared(x)
    BY <1>1, <1>2, StoreSpares
  <2>2. \A c \in claims : pending[c.requested] \in stored' => Spared(pending[c.requested])
    <3>1. \A c \in claims : pending[c.requested] # call[p].ref
      BY <1>1, NotClaimed
    <3>2. stored' \subseteq Refs
      BY <1>1 DEF LANInv, Typed, StoreTyped, store
    <3> QED BY <2>1, <3>1, <3>2
  <2> QED BY <1>1, <1>4, <2>2, ServesStay DEF Same, Kept, store, manager
<1>12. HeldInv'
  <2>1. \A q \in Procs, e \in claims' : \A g \in e.handles : Holds(q, g) => Holds(q, g)'
    BY <1>1, <1>4, <1>7 DEF Holds, h
  <2>2. \A q \in Procs : call'[q].step \notin HandleSteps
    BY <1>3, <1>7 DEF HandleSteps
  <2> QED BY <1>1, <1>4, <2>1, <2>2, HeldStays DEF LANInv, InOrder, Same, rest, manager
<1> QED BY <1>6, <1>8, <1>10, <1>11, <1>12 DEF InOrder

-----------------------------------------------------------------------------
(* The end of a network, and a new claim *)

LEMMA OrderCloseResponder ==
  ASSUME LANInv, LANInv', InOrder, NEW p \in Procs, CloseResponder(p)
  PROVE  InOrder'
<1>1. /\ call[p].step = "close" /\ Goto(p, "drain") /\ live' \subseteq live /\ claims' \subseteq claims
      /\ UNCHANGED <<store, bound, world, manager, ingress, asked, pump, rest>>
  BY DEF CloseResponder, At
<1>2. Elsewhere(p) /\ call'[p].step = "drain"
  BY <1>1, GoesTo DEF LANInv, Typed
<1>3. AloneInv' /\ CallsInv'
  <2>1. CallOrder(p)'
    BY <1>1, <1>2, NothingTaken, FreeOrder DEF Withdrawing, FreeSteps, rest
  <2> QED BY <1>1, <1>2, <2>1, CallsKept DEF At, Turn, rest
<1>4. \A q \in Procs : q # p => call[q].step = "idle" /\ call'[q].step = "idle"
  BY <1>1, <1>2, Others DEF At, Turn, Elsewhere
<1>5. \A e \in claims' : e \in claims /\ e.net \in Nets
  BY <1>1, ClaimIs DEF LANInv
<1>6. PortsInv' /\ SortedInv' /\ OwnersInv' /\ ServesInv'
  BY <1>1, <1>5, PortsStay, SortedStays, OwnersStay, ServesStay, SameStore
     DEF InOrder, Same, Kept, Keyed, world, manager
<1>7. BooksInv'
  BY <1>1, <1>4, BooksStay DEF InOrder, manager, HoldSteps
<1>8. HeldInv'
  <2>1. \A q \in Procs : (\A h : ~Holds(q, h)) /\ call'[q].step \notin HandleSteps
    BY <1>1, <1>2, <1>4 DEF Holds, HandleSteps
  <2> QED BY <1>1, <1>5, <2>1, HeldStays DEF LANInv, InOrder, Kept, Keyed, rest, manager
<1> QED BY <1>3, <1>6, <1>7, <1>8 DEF InOrder

LEMMA OrderCancelManager ==
  ASSUME LANInv, LANInv', InOrder, NEW p \in Procs, CancelManager(p)
  PROVE  InOrder'
<1>1. /\ call[p].step = "cancel" /\ Goto(p, "takeAll") /\ closed' = TRUE
      /\ live' = {} /\ claims' = {} /\ ingress' = {}
      /\ UNCHANGED <<store, bound, manager, asked, pump, rest>>
  BY DEF CancelManager, At
<1>2. Elsewhere(p) /\ call'[p].step = "takeAll" /\ call'[p].kind = call[p].kind
  BY <1>1, GoesTo DEF LANInv, Typed
<1>3. AloneInv' /\ CallsInv'
  <2>1. call[p].kind = "close"
    BY <1>1 DEF InOrder, CallsInv, CallOrder
  <2>2. \A r \in Refs : taken'[p][r] = None
    BY <1>1, NothingTaken DEF Withdrawing, rest
  <2>3. CallOrder(p)'
    BY <1>1, <1>2, <2>1, <2>2 DEF CallOrder, HoldSteps, HandleSteps, Withdraws
  <2> QED BY <1>1, <1>2, <2>3, CallsKept DEF At, Turn, rest
<1>4. \A q \in Procs : call[q].step \notin HoldSteps
  BY <1>1, Others DEF At, Turn, HoldSteps
<1>5. BooksInv'
  BY <1>1, <1>4, BooksStay DEF InOrder, manager
<1>6. PortsInv' /\ HeldInv' /\ SortedInv' /\ ServesInv'
  BY <1>1 DEF PortsInv, HeldInv, SortedInv, ServesInv
<1>7. OwnersInv'
  BY <1>1, OwnersStay DEF InOrder
<1> QED BY <1>3, <1>5, <1>6, <1>7 DEF InOrder

LEMMA OrderCloseIngress ==
  ASSUME LANInv, LANInv', InOrder, NEW p \in Procs, CloseIngress(p)
  PROVE  InOrder'
<1> DEFINE n == call[p].net
<1>1. /\ call[p].step = "drain" /\ pump[n] = NoWork
      /\ asked' = [asked EXCEPT ![n] = <<>>]
      /\ ingress' = ingress \ {n}
      /\ \/ call[p].after = "refuse" /\ Refuse(p)
         \/ Goto(p, "delete")
         \/ Finish(p)
      /\ UNCHANGED <<store, bound, closed, manager, live, claims, pump, rest>>
  BY DEF CloseIngress, At
<1>2. n \in Nets /\ n \notin live /\ CallTyped(call[p])
  <2>1. CallTyped(call[p])
    BY DEF LANInv, Typed, CallsTyped
  <2> QED BY <1>1, <2>1 DEF CallTyped, NetSteps, LANInv, ClaimsInv, At
<1>3. asked'[n] = <<>> /\ \A m \in Nets : m # n => asked'[m] = asked[m]
  BY <1>1, <1>2 DEF LANInv, Typed, AskedTyped
<1>4. Elsewhere(p) /\ call'[p].step \in FreeSteps
  BY <1>1, <1>2, GoesTo, FinishingFree DEF LANInv, Typed, CallTyped, FreeSteps
<1>5. AloneInv' /\ CallsInv'
  <2>1. CallOrder(p)'
    BY <1>1, <1>4, NothingTaken, FreeOrder DEF Withdrawing, rest
  <2> QED BY <1>1, <1>4, <2>1, CallsKept DEF At, Turn, rest
<1>6. \A q \in Procs : q # p => call[q].step = "idle" /\ call'[q].step = "idle"
  BY <1>1, <1>4, Others DEF At, Turn, Elsewhere
<1> HIDE DEF n
<1>7. PortsInv'
  <2>1. PortsInv
    BY DEF InOrder
  <2>2. \A m \in Nets : pump'[m] # NoWork \/ asked'[m] # <<>> => m \in ingress' \/ closed'
    BY <1>1, <1>3, <2>1 DEF PortsInv
  <2> QED BY <1>1, <1>2, <2>1, <2>2 DEF PortsInv
<1>8. \A c \in claims : c.net \in Nets /\ c.net # n
  BY <1>2, ClaimIs DEF LANInv, ClaimsInv
<1>9. SortedInv'
  <2>1. \A c \in claims : asked'[c.net] = asked[c.net]
    BY <1>3, <1>8
  <2> QED BY <2>1, <1>1 DEF InOrder, SortedInv, Sorted, Asks, Handled, Earlier, Due
<1>10. OwnersInv' /\ ServesInv'
  BY <1>1, <1>8, OwnersStay, ServesStay, SameStore DEF InOrder, Keyed, manager
<1>11. BooksInv'
  BY <1>1, <1>6, BooksStay DEF InOrder, manager, HoldSteps
<1>12. HeldInv'
  <2>1. \A q \in Procs : (\A h : ~Holds(q, h)) /\ call'[q].step \notin HandleSteps
    BY <1>1, <1>4, <1>6 DEF Holds, HandleSteps, FreeSteps
  <2> QED BY <1>1, <2>1, HeldStays DEF LANInv, InOrder, Kept, Keyed, rest, manager
<1> QED BY <1>5, <1>7, <1>9, <1>10, <1>11, <1>12 DEF InOrder

LEMMA OrderRegister ==
  ASSUME LANInv, LANInv', InOrder, orderly, NEW p \in Procs, Register(p)
  PROVE  InOrder'
<1> DEFINE n == call[p].net
           name == Requested[call[p].ref]
<1>01. PICK h : h = Least(FreeHandles)
  OBVIOUS
<1>02. PICK k : k = Claim(n, name, {h})
  OBVIOUS
<1>1. /\ call[p].step = "register" /\ FreeHandles # {} /\ Settled(n, name)
      /\ UNCHANGED <<store, bound, world, manager, ingress, live, asked, pump, rest>>
  BY DEF Register, At
<1>2. h \in FreeHandles
  <2>1. FreeHandles \in SUBSET Nat
    BY NoneIsNone DEF FreeHandles
  <2> QED BY <2>1, <1>1, <1>01, LeastIs
<1>3. /\ reg[call[p].ref] = None /\ pending[name] = call[p].ref /\ n = net
  BY <1>1 DEF InOrder, CallsInv, CallOrder, HoldSteps
<1>4. \A c \in claims : c.requested # name
  BY <1>1, <1>3, NameFree
<1>5. /\ claims' = claims \cup {k}
      /\ call' = [call EXCEPT ![p].handle = h, ![p].step = "waiting"]
  <2>1. ClaimOf(n, name) = {}
    BY <1>4 DEF ClaimOf
  <2> QED BY <2>1, <1>01, <1>02 DEF Register
<1>6. /\ h \in Handles /\ regRef[h] = NoRef
      /\ \A q \in Procs : (\A r \in Refs : taken[q][r] # h) /\ call[q].handle # h
      /\ \A c \in claims : h \notin c.handles
  BY <1>2 DEF FreeHandles
<1>7. /\ k.net = n /\ k.requested = name /\ k.phase = "probing" /\ k.handles = {h}
  BY <1>02 DEF Claim
<1>8. /\ Elsewhere(p) /\ call'[p].step = "waiting" /\ call'[p].handle = h
      /\ call'[p].ref = call[p].ref /\ call'[p].net = n
  BY <1>5 DEF Elsewhere, LANInv, Typed, CallsTyped, Calls
<1>9. AloneInv' /\ CallsInv'
  <2>1. \A r \in Refs : taken'[p][r] = None
    BY <1>1, NothingTaken DEF Withdrawing, rest
  <2>2. CallOrder(p)'
    BY <1>1, <1>3, <1>6, <1>8, <2>1 DEF CallOrder, HoldSteps, HandleSteps, Withdraws, manager
  <2> QED BY <1>1, <1>8, <2>2, CallsKept DEF At, Turn, rest
<1>10. \A q \in Procs : q # p => call[q].step = "idle" /\ call'[q].step = "idle"
  BY <1>1, <1>8, Others DEF At, Turn, Elsewhere
<1>11. PortsInv'
  BY <1>1, PortsStay DEF InOrder, world
<1>12. BooksInv'
  BY <1>1, <1>8, <1>10, BooksStay DEF InOrder, manager, HoldSteps
<1> HIDE DEF n, name
<1>13. HeldInv'
  <2>1. ASSUME NEW c \in claims, NEW g \in c.handles PROVE Held(c, g)'
    <3>1. Held(c, g) /\ g # h
      BY <2>1, <1>6 DEF InOrder, HeldInv
    <3>2. \A q \in Procs : ~Holds(q, g)
      BY <1>1, <1>10 DEF Holds
    <3>3. Owned(g)'
      BY <3>1, <3>2, <1>1 DEF Held, Owned, rest, manager
    <3>4. \A q \in Procs : call'[q].step \in HandleSteps => call'[q].handle = h
      BY <1>8, <1>10 DEF HandleSteps
    <3>5. \A e \in claims' : g \in e.handles => c = e
      BY <3>1, <1>5, <1>7 DEF Held
    <3> QED BY <3>1, <3>3, <3>4, <3>5, <1>1 DEF Held, manager
  <2>2. Held(k, h)'
    <3>1. Owned(h)'
      BY <1>8 DEF Owned, Holds
    <3>2. \A q \in Procs : call'[q].step \in HandleSteps => q = p
      BY <1>10 DEF HandleSteps
    <3>3. \A e \in claims' : h \in e.handles => k = e
      BY <1>5, <1>6
    <3> QED BY <3>1, <3>2, <3>3, <1>1, <1>6, <1>7, <1>8 DEF Held, manager, name
  <2> QED BY <2>1, <2>2, <1>5, <1>7 DEF HeldInv
<1>14. ~Handled(k) /\ Asks(k) = {}
  BY <1>1, <1>7 DEF Settled, Handled, Asks
<1>15. SortedInv'
  <2>1. Sorted(k)'
    BY <1>1, <1>14 DEF Sorted, Handled, Asks
  <2>2. \A c \in claims : Sorted(c)'
    BY <1>1 DEF InOrder, SortedInv, Sorted, Handled, Asks, Earlier, Due
  <2> QED BY <2>1, <2>2, <1>5 DEF SortedInv
<1>16. OwnersInv'
  <2>1. ASSUME NEW c \in claims', Handled(c)', pump'[c.net].step \in AtWork,
               pending'[c.requested] # NoRef
        PROVE  pump'[c.net].ref = pending'[c.requested]
    <3>1. c \in claims
      BY <2>1, <1>1, <1>5, <1>14 DEF Handled
    <3> QED BY <3>1, <2>1, <1>1 DEF InOrder, OwnersInv, Handled, manager
  <2> QED BY <2>1, <1>1 DEF InOrder, OwnersInv
<1>17. ServesInv'
  <2>1. \A r : Ready(k, r)'
    BY <1>1, <1>7, <1>14 DEF Ready, Handled
  <2>2. ASSUME NEW c \in claims', pending'[c.requested] \in stored'
        PROVE  Ready(c, pending[c.requested])'
    <3>1. CASE c \in claims
      BY <3>1, <2>2, <1>1 DEF InOrder, ServesInv, Ready, Handled, Serves, store, manager
    <3>2. CASE c = k
      BY <3>2, <2>1
    <3> QED BY <3>1, <3>2, <1>5
  <2> QED BY <2>2 DEF ServesInv, Ready, Handled, Serves
<1> QED BY <1>9, <1>11, <1>12, <1>13, <1>15, <1>16, <1>17 DEF InOrder

-----------------------------------------------------------------------------
(* The claims go on *)

\* All claims are those of one responder, and so is what is prepared.
LEMMA OneNet ==
  ASSUME LANInv, InOrder, NEW c \in claims
  PROVE  /\ \A e \in claims : e.net = c.net /\ (e.requested = c.requested => e = c)
         /\ \A n \in Nets : pump[n] # NoWork => n = c.net
<1>1. \A e \in claims : e.net \in ingress
  BY DEF LANInv, ClaimsInv, InOrder, PortsInv
<1>2. \A e \in claims : e.net = c.net
  BY <1>1 DEF InOrder, PortsInv
<1>3. \A n \in Nets : pump[n] # NoWork => n = c.net
  BY <1>1 DEF InOrder, PortsInv
<1> QED BY <1>2, <1>3 DEF LANInv, ClaimsInv

LEMMA CallsSame ==
  ASSUME LANInv', InOrder, UNCHANGED <<call, manager, taken>>,
         \A e \in claims' : \E c \in claims : Kept(c, e)
  PROVE  AloneInv' /\ CallsInv' /\ BooksInv' /\ HeldInv'
<1>1. UNCHANGED <<net, reg, regRef, pending>>
  BY DEF manager
<1>2. AloneInv' /\ BooksInv'
  BY <1>1 DEF InOrder, AloneInv, At, BooksInv, Reserving
<1>3. CallsInv'
  BY <1>1 DEF InOrder, CallsInv, CallOrder, Withdraws, Sweeps, Kept, Keyed
<1>4. HeldInv'
  BY <1>1, HeldStays DEF LANInv, InOrder, Holds
<1> QED BY <1>2, <1>3, <1>4

\* Those who wait for a claim are told: who is to roll back finds no claim.
LEMMA AnsweredOrder ==
  ASSUME LANInv, LANInv', InOrder, NEW c \in claims, NEW s \in {"unroute", "answered"},
         Answer(c, s), UNCHANGED <<manager, taken>>,
         \A e \in claims' : \E a \in claims : Kept(a, e),
         s = "unroute" => \A e \in claims' : e.requested # c.requested
  PROVE  AloneInv' /\ CallsInv' /\ BooksInv' /\ HeldInv'
<1>1. UNCHANGED <<net, reg, regRef, pending>>
  BY DEF manager
<1>2. call \in [Procs -> Calls]
  BY DEF LANInv, Typed, CallsTyped
<1>3. \A q \in Procs :
        /\ call'[q].ref = call[q].ref /\ call'[q].handle = call[q].handle
        /\ call'[q].net = call[q].net /\ call'[q].kind = call[q].kind
        /\ \/ call'[q].step = call[q].step
           \/ call[q].step = "waiting" /\ call[q].handle \in c.handles /\ call'[q].step = s
        /\ call[q].step = "waiting" /\ call[q].handle \in c.handles => call'[q].step = s
  BY <1>2 DEF Answer, Waiting, At, Calls
<1>4. AloneInv'
  BY <1>3, AloneStays DEF InOrder, At
<1>5. BooksInv'
  BY <1>1, <1>3, BooksStay DEF InOrder, HoldSteps
<1>6. ASSUME NEW q \in Procs PROVE CallOrder(q)'
  <2>1. CallOrder(q)
    BY DEF InOrder, CallsInv
  <2>2. Withdraws(q)'
    BY <2>1, <1>1, <1>3 DEF CallOrder, Withdraws, Sweeps
  <2>3. CASE call'[q].step = call[q].step
    BY <1>1, <1>3, <2>1, <2>2, <2>3 DEF CallOrder, HoldSteps, HandleSteps, Kept, Keyed
  <2>4. CASE call[q].step = "waiting" /\ call[q].handle \in c.handles /\ call'[q].step = s
    <3>1. Requested[call[q].ref] = c.requested
      BY <2>4 DEF InOrder, HeldInv, Held, HandleSteps
    <3> QED BY <1>1, <1>3, <2>1, <2>2, <2>4, <3>1 DEF CallOrder, HoldSteps, HandleSteps
  <2> QED BY <1>3, <2>3, <2>4
<1>7. HeldInv'
  <2>1. ASSUME NEW q \in Procs, NEW e \in claims', NEW h \in e.handles, Holds(q, h)
        PROVE  Holds(q, h)'
    <3>1. PICK a \in claims : Kept(a, e)
      OBVIOUS
    <3>2. h \in a.handles
      BY <3>1 DEF Kept
    <3>3. call[q].step = "waiting" /\ h \in c.handles => s = "answered"
      <4>1. h \in c.handles => a = c
        BY <3>2 DEF InOrder, HeldInv, Held
      <4> QED BY <3>1, <4>1 DEF Kept, Keyed
    <3> QED BY <2>1, <1>3, <3>3 DEF Holds
  <2>2. \A q \in Procs : call'[q].step \in HandleSteps =>
             /\ call[q].step \in HandleSteps
             /\ call'[q].handle = call[q].handle /\ call'[q].ref = call[q].ref
    BY <1>3 DEF HandleSteps
  <2> QED BY <1>1, <2>1, <2>2, HeldStays DEF LANInv, InOrder
<1> QED BY <1>4, <1>5, <1>6, <1>7 DEF CallsInv

LEMMA ReplacedIs ==
  ASSUME LANInv, NEW c \in claims, NEW d, Keyed(c, d), d.handles = c.handles, Replace(c, d)
  PROVE  /\ \A e \in claims' : e = d \/ (e \in claims /\ e # c)
         /\ \A e \in claims' : \E a \in claims : Kept(a, e) /\ Keyed(a, e)
         /\ \A e \in claims' : e.net \in Nets
<1>1. \A e \in claims' : e = d \/ (e \in claims /\ e # c)
  BY DEF Replace
<1>2. c.net \in Nets /\ \A e \in claims : e.net \in Nets
  BY ClaimIs DEF LANInv
<1> QED BY <1>1, <1>2 DEF Kept, Keyed

\* A claim goes on without a request.
LEMMA OrderReplace ==
  ASSUME LANInv, LANInv', InOrder, NEW c \in claims, NEW d, Keyed(c, d), d.handles = c.handles,
         Replace(c, d), UNCHANGED <<store, bound, manager, closed, ingress, live, asked, pump, taken>>,
         UNCHANGED call \/ Answer(c, "answered"),
         \A g \in Nat : Earlier(c, g) => Earlier(d, g), d.phase # "preparing",
         d.phase \in {"announcing", "active"} =>
             c.phase \in {"announcing", "active"} /\ d.current = c.current
  PROVE  InOrder'
<1>1. /\ \A e \in claims' : e = d \/ (e \in claims /\ e # c)
      /\ \A e \in claims' : \E a \in claims : Kept(a, e) /\ Keyed(a, e)
      /\ \A e \in claims' : e.net \in Nets
  BY ReplacedIs
<1>2. AloneInv' /\ CallsInv' /\ BooksInv' /\ HeldInv'
  BY <1>1, CallsSame, AnsweredOrder
<1>3. PortsInv'
  BY PortsStay DEF InOrder
<1>4. UNCHANGED pending
  BY DEF manager
<1>5. OwnersInv'
  BY <1>1, <1>4, OwnersStay DEF InOrder
<1>6. ServesInv'
  <2>1. \A e \in claims' : \E a \in claims :
            /\ Keyed(a, e)
            /\ e.phase \in {"announcing", "active"} =>
                   a.phase \in {"announcing", "active"} /\ a.current = e.current
    BY <1>1 DEF Keyed
  <2> QED BY <1>4, <2>1, SameStore, ServesStay
<1>7. ASSUME NEW e \in claims' PROVE Sorted(e)'
  <2>1. CASE e \in claims
    BY <2>1 DEF InOrder, SortedInv, Sorted, Asks, Handled, Earlier, Due
  <2>2. CASE e = d
    <3>1. Sorted(c)
      BY DEF InOrder, SortedInv
    <3>2. /\ pump[c.net].generation \in Nat
          /\ \A i \in DOMAIN asked[c.net] : asked[c.net][i].generation \in Nat
      <4>1. pump[c.net] \in Works /\ asked[c.net] \in Seq(Requests)
        BY ClaimIs DEF LANInv, Typed, PumpTyped, AskedTyped
      <4>2. \A i \in DOMAIN asked[c.net] : asked[c.net][i] \in Requests
        BY <4>1, ElementOfSeq, LenProperties
      <4> QED BY <4>1, <4>2 DEF Works, Requests
    <3>3. \A i, j \in Asks(d) : i < j => asked[d.net][i].generation < asked[d.net][j].generation
      BY <3>1 DEF Sorted, Asks, Keyed
    <3>4. Handled(d) => \A i \in Asks(d) : pump[d.net].generation < asked[d.net][i].generation
      BY <3>1 DEF Sorted, Asks, Keyed, Handled
    <3>5. \A i \in Asks(d) : Earlier(d, asked[d.net][i].generation)
      BY <3>1, <3>2 DEF Sorted, Asks, Keyed
    <3>6. Handled(d) => Earlier(d, pump[d.net].generation)
      BY <3>1, <3>2 DEF Sorted, Handled, Keyed
    <3>7. \A g, name : Due(d, g, name)
      BY DEF Due
    <3> QED BY <2>2, <3>3, <3>4, <3>5, <3>6, <3>7 DEF Sorted, Asks, Handled, Earlier, Due
  <2> QED BY <1>1, <2>1, <2>2
<1> QED BY <1>2, <1>3, <1>5, <1>6, <1>7 DEF InOrder, SortedInv

LEMMA OrderProbing ==
  ASSUME LANInv, LANInv', InOrder, NEW c \in claims, NEW name,
         Replace(c, [c EXCEPT !.candidate = name, !.phase = "probing", !.generation = @ + 1]),
         UNCHANGED <<store, bound, manager, closed, ingress, live, asked, pump, taken, call>>
  PROVE  InOrder'
<1> DEFINE d == [c EXCEPT !.candidate = name, !.phase = "probing", !.generation = @ + 1]
<1>1. c \in AllClaims
  BY ClaimIs DEF LANInv, ClaimTyped
<1>2. /\ d.net = c.net /\ d.requested = c.requested /\ d.handles = c.handles
      /\ d.phase = "probing" /\ d.generation = c.generation + 1 /\ c.generation \in Nat
  BY <1>1 DEF AllClaims
<1> HIDE DEF d
<1>3. \A g \in Nat : Earlier(c, g) => Earlier(d, g)
  BY <1>2 DEF Earlier
<1> QED BY <1>2, <1>3, OrderReplace DEF Keyed, d

LEMMA OrderConfirm ==
  ASSUME LANInv, LANInv', InOrder, NEW c \in claims, Confirm(c)
  PROVE  InOrder'
<1> DEFINE d == [c EXCEPT !.phase = "active"]
<1>1. /\ c.phase = "announcing" /\ Replace(c, d) /\ Answer(c, "answered")
      /\ UNCHANGED <<store, bound, world, manager, ingress, live, asked, pump, rest>>
  BY DEF Confirm
<1>2. c \in AllClaims
  BY ClaimIs DEF LANInv, ClaimTyped
<1>3. /\ d.net = c.net /\ d.requested = c.requested /\ d.handles = c.handles
      /\ d.phase = "active" /\ d.current = c.current
  BY <1>2 DEF AllClaims
<1> HIDE DEF d
<1>4. \A g \in Nat : Earlier(c, g) => Earlier(d, g)
  BY <1>1 DEF Earlier
<1> QED BY <1>1, <1>3, <1>4, OrderReplace DEF Keyed, world, rest

\* A claim is dropped, with its request in the hands of nobody.
LEMMA OrderDrop ==
  ASSUME LANInv, LANInv', InOrder, NEW c \in claims, Drop(c),
         UNCHANGED <<store, bound, manager, closed, ingress, live, asked, taken>>,
         \A n \in Nets : pump'[n] = pump[n] \/ pump'[n] = NoWork
  PROVE  InOrder'
<1>1. claims' = claims \ {c} /\ Answer(c, "unroute")
  BY DEF Drop
<1>2. \A e \in claims' : e \in claims /\ e.net \in Nets /\ e.requested # c.requested
  BY <1>1, OneNet, ClaimIs DEF LANInv
<1>3. AloneInv' /\ CallsInv' /\ BooksInv' /\ HeldInv'
  BY <1>1, <1>2, AnsweredOrder DEF Kept, Keyed
<1>4. PortsInv'
  BY PortsStay DEF InOrder
<1>5. \A e \in claims' : Handled(e)' => Handled(e) /\ pump'[e.net] = pump[e.net]
  BY <1>2, ClaimIs, NamesAssumption DEF Handled, NoWork, LANInv
<1>6. SortedInv'
  BY <1>2, <1>5 DEF InOrder, SortedInv, Sorted, Asks, Handled, Earlier, Due
<1>7. OwnersInv'
  <2>1. \A n \in Nets : pump'[n].step \in AtWork => pump'[n] = pump[n]
    BY DEF NoWork, AtWork
  <2>2. UNCHANGED pending
    BY DEF manager
  <2>3. ASSUME NEW e \in claims', Handled(e)', pump'[e.net].step \in AtWork, pending[e.requested] # NoRef
        PROVE  pump'[e.net].ref = pending[e.requested]
    BY <2>3, <1>2, <1>5 DEF InOrder, OwnersInv
  <2> QED BY <2>1, <2>2, <2>3 DEF InOrder, OwnersInv
<1>8. ServesInv'
  <2>1. UNCHANGED <<pending, stored, share, shareName>>
    BY DEF manager, store
  <2>2. ASSUME NEW e \in claims', pending[e.requested] \in stored PROVE Ready(e, pending[e.requested])'
    BY <2>1, <2>2, <1>2, <1>5 DEF InOrder, ServesInv, Ready, Handled, Serves
  <2> QED BY <2>1, <2>2 DEF ServesInv, Ready, Handled, Serves
<1> QED BY <1>3, <1>4, <1>6, <1>7, <1>8 DEF InOrder

LEMMA OrderDisturbed ==
  ASSUME LANInv, LANInv', InOrder, NEW c \in claims, Lose(c) \/ ProbeAgain(c) \/ WriteFails(c)
  PROVE  InOrder'
<1>1. UNCHANGED <<store, bound, world, manager, ingress, asked, pump, taken>>
  BY DEF Lose, ProbeAgain, WriteFails
<1>2. CASE Drop(c) /\ UNCHANGED live
  BY <1>1, <1>2, OrderDrop DEF world
<1>3. CASE /\ live' = live \ {c.net} /\ claims' = {d \in claims : d.net # c.net}
           /\ UNCHANGED call
  <2>2. claims' = {}
    BY <1>3, OneNet
  <2>3. AloneInv' /\ CallsInv' /\ BooksInv' /\ HeldInv'
    BY <1>1, <1>3, <2>2, CallsSame
  <2>4. PortsInv'
    BY <1>1, <1>3, PortsStay DEF InOrder, world
  <2>5. SortedInv' /\ ServesInv'
    BY <2>2 DEF SortedInv, ServesInv
  <2>6. OwnersInv'
    BY <1>1, <2>2, OwnersStay DEF InOrder
  <2> QED BY <2>3, <2>4, <2>5, <2>6 DEF InOrder
<1>4. CASE ProbeAgain(c)
  BY <1>1, <1>4, OrderProbing DEF ProbeAgain, world
<1>5. CASE Lose(c) /\ ~Drop(c)
  <2>1. PICK name : Replace(c, [c EXCEPT !.candidate = name, !.phase = "probing",
                                         !.generation = @ + 1])
    BY <1>5 DEF Lose
  <2>2. UNCHANGED <<call, live>>
    BY <1>5 DEF Lose
  <2> QED BY <1>1, <2>1, <2>2, OrderProbing DEF world
<1> QED BY <1>2, <1>3, <1>4, <1>5 DEF Lose, WriteFails

\* A request is the last of its claim.
LEMMA OrderAsk ==
  ASSUME LANInv, LANInv', InOrder, NEW c \in claims, Ask(c)
  PROVE  InOrder'
<1>1. PICK d, k :
        /\ d = [c EXCEPT !.phase = "preparing"]
        /\ Replace(c, d) /\ c.phase = "probing"
        /\ asked' = [asked EXCEPT ![c.net] = Append(@, k)]
        /\ k.requested = c.requested /\ k.generation = c.generation /\ k.proposed = c.candidate
        /\ k \in Requests
  <2>1. c.phase = "probing" /\ Replace(c, [c EXCEPT !.phase = "preparing"])
    BY DEF Ask
  <2>2. PICK h \in c.handles : asked' = [asked EXCEPT ![c.net] = Append(@,
              [handle |-> h, requested |-> c.requested, generation |-> c.generation,
               proposed |-> c.candidate, previous |-> c.current])]
    BY DEF Ask
  <2>3. c \in AllClaims
    BY ClaimIs DEF LANInv, ClaimTyped
  <2>4. [handle |-> h, requested |-> c.requested, generation |-> c.generation,
         proposed |-> c.candidate, previous |-> c.current] \in Requests
    BY <2>3 DEF AllClaims, Requests
  <2> QED BY <2>1, <2>2, <2>4
<1>2. UNCHANGED <<store, bound, world, manager, ingress, live, pump, call, rest>>
  BY DEF Ask
<1>3. c \in AllClaims /\ c.net \in Nets
  BY ClaimIs DEF LANInv, ClaimTyped
<1>4. /\ Keyed(c, d) /\ d.net = c.net /\ d.requested = c.requested /\ d.handles = c.handles
      /\ d.phase = "preparing" /\ d.generation = c.generation /\ d.candidate = c.candidate
  BY <1>1, <1>3 DEF AllClaims, Keyed
<1>5. /\ \A e \in claims' : e = d \/ (e \in claims /\ e # c)
      /\ \A e \in claims' : \E a \in claims : Kept(a, e) /\ Keyed(a, e)
      /\ \A e \in claims' : e.net \in Nets
  <2>1. Replace(c, d)
    BY <1>1
  <2> QED BY <2>1, <1>4, ReplacedIs
<1>6. AloneInv' /\ CallsInv' /\ BooksInv' /\ HeldInv'
  BY <1>2, <1>5, CallsSame DEF rest
<1>7. OwnersInv'
  BY <1>2, <1>5, OwnersStay DEF InOrder, manager
<1>8. ServesInv'
  <2>1. \A e \in claims' : \E a \in claims :
            /\ Keyed(a, e)
            /\ e.phase \in {"announcing", "active"} =>
                   a.phase \in {"announcing", "active"} /\ a.current = e.current
    BY <1>4, <1>5 DEF Keyed
  <2> QED BY <1>2, <2>1, SameStore, ServesStay DEF manager
<1> DEFINE s == asked[c.net]
<1>9. /\ s \in Seq(Requests) /\ Len(s) \in Nat /\ DOMAIN s = 1 .. Len(s)
      /\ asked'[c.net] = Append(s, k)
      /\ \A n \in Nets : n # c.net => asked'[n] = asked[n]
  <2>1. s \in Seq(Requests) /\ asked \in [Nets -> Seq(Requests)]
    BY <1>3 DEF LANInv, Typed, AskedTyped
  <2> QED BY <2>1, <1>1, <1>3, LenProperties
<1>10. /\ DOMAIN asked'[c.net] = 1 .. Len(s) + 1
       /\ \A i \in DOMAIN s : asked'[c.net][i] = s[i] /\ i < Len(s) + 1
       /\ asked'[c.net][Len(s) + 1] = k
  <2>1. /\ Append(s, k) \in Seq(Requests) /\ Len(Append(s, k)) = Len(s) + 1
        /\ \A i \in 1 .. Len(s) : Append(s, k)[i] = s[i]
        /\ Append(s, k)[Len(s) + 1] = k
    BY <1>1, <1>9, AppendProperties
  <2> HIDE DEF s
  <2>2. DOMAIN Append(s, k) = 1 .. Len(Append(s, k))
    BY <2>1, LenProperties
  <2>3. \A i \in 1 .. Len(s) : i < Len(s) + 1
    BY <1>9
  <2> QED BY <1>9, <2>1, <2>2, <2>3
<1> HIDE DEF s
<1>11. PortsInv'
  <2>1. c.net \in ingress
    BY DEF LANInv, ClaimsInv, InOrder, PortsInv
  <2>2. \A n \in Nets : pump'[n] # NoWork \/ asked'[n] # <<>> => n \in ingress' \/ closed'
    BY <1>2, <1>9, <2>1 DEF InOrder, PortsInv, world
  <2> QED BY <1>2, <2>2 DEF InOrder, PortsInv, world
<1>12. ASSUME NEW e \in claims', e # d PROVE Sorted(e)'
  <2>1. e \in claims /\ e.net = c.net /\ e.requested # c.requested /\ Sorted(e)
    BY <1>5, <1>12, OneNet DEF InOrder, SortedInv
  <2>2. Asks(e)' = Asks(e)
    BY <2>1, <1>1, <1>9, <1>10 DEF Asks, s
  <2>3. \A i \in Asks(e) : asked'[e.net][i] = asked[e.net][i]
    BY <2>1, <1>10 DEF Asks, s
  <2> QED BY <2>1, <2>2, <2>3, <1>2 DEF Sorted, Handled, Earlier, Due
<1>13. Sorted(d)'
  <2>1. Sorted(c)
    BY DEF InOrder, SortedInv
  <2>2. Asks(d)' = Asks(c) \cup {Len(s) + 1}
    BY <1>1, <1>4, <1>9, <1>10 DEF Asks, s
  <2>3. \A i \in Asks(c) : /\ i \in DOMAIN s /\ i < Len(s) + 1 /\ asked'[d.net][i] = asked[c.net][i]
                           /\ asked[c.net][i].generation \in Nat
                           /\ asked[c.net][i].generation < c.generation
    <3>1. \A i \in DOMAIN s : s[i] \in Requests
      BY <1>9, ElementOfSeq
    <3> QED BY <3>1, <2>1, <1>1, <1>4, <1>10 DEF Asks, Sorted, Earlier, s, Requests
  <2>4. Handled(c) => pump[c.net].generation < c.generation /\ pump[c.net].generation \in Nat
    <3>1. pump[c.net] \in Works
      BY <1>3 DEF LANInv, Typed, PumpTyped
    <3> QED BY <3>1, <2>1, <1>1 DEF Sorted, Earlier, Works
  <2>5. asked'[d.net][Len(s) + 1] = k /\ c.generation \in Nat /\ Len(s) + 1 \in Nat
    BY <1>3, <1>4, <1>9, <1>10 DEF AllClaims
  <2>6. \A i, j \in Asks(d)' : i < j => asked'[d.net][i].generation < asked'[d.net][j].generation
    <3> SUFFICES ASSUME NEW i \in Asks(d)', NEW j \in Asks(d)', i < j
                 PROVE  asked'[d.net][i].generation < asked'[d.net][j].generation
      OBVIOUS
    <3>1. i \in Asks(c)
      BY <2>2, <2>3, <2>5, <1>9
    <3>2. CASE j \in Asks(c)
      BY <3>1, <3>2, <2>1, <2>3 DEF Sorted
    <3>3. CASE j = Len(s) + 1
      BY <3>1, <3>3, <2>3, <2>5, <1>1
    <3> QED BY <2>2, <3>2, <3>3
  <2>7. Handled(d)' => \A i \in Asks(d)' : pump[d.net].generation < asked'[d.net][i].generation
    <3> SUFFICES ASSUME Handled(d)', NEW i \in Asks(d)'
                 PROVE  pump[d.net].generation < asked'[d.net][i].generation
      OBVIOUS
    <3>1. Handled(c)
      BY <1>2, <1>4 DEF Handled
    <3> QED BY <3>1, <2>1, <2>2, <2>3, <2>4, <2>5, <1>1, <1>4 DEF Sorted
  <2>8. \A i \in Asks(d)' : /\ Earlier(d, asked'[d.net][i].generation)
                            /\ Due(d, asked'[d.net][i].generation, asked'[d.net][i].proposed)
    <3>1. \A g : /\ Earlier(d, g) <=> g <= d.generation
                 /\ \A name : Due(d, g, name) <=> (g = d.generation => name = d.candidate)
      BY <1>4 DEF Earlier, Due
    <3>2. \A g \in Nat : g < c.generation => g <= c.generation /\ g # c.generation
      BY <2>5
    <3>3. c.generation <= c.generation
      BY <2>5
    <3> SUFFICES ASSUME NEW i \in Asks(d)'
                 PROVE  /\ Earlier(d, asked'[d.net][i].generation)
                        /\ Due(d, asked'[d.net][i].generation, asked'[d.net][i].proposed)
      OBVIOUS
    <3>4. CASE i \in Asks(c)
      BY <3>1, <3>2, <3>4, <2>3, <1>4
    <3>5. CASE i = Len(s) + 1
      BY <3>1, <3>3, <3>5, <2>5, <1>1, <1>4
    <3> QED BY <3>4, <3>5, <2>2
  <2>9. Handled(d)' => /\ Earlier(d, pump[d.net].generation)
                       /\ Due(d, pump[d.net].generation, pump[d.net].proposed)
    <3>1. \A g : /\ Earlier(d, g) <=> g <= d.generation
                 /\ \A name : Due(d, g, name) <=> (g = d.generation => name = d.candidate)
      BY <1>4 DEF Earlier, Due
    <3> SUFFICES ASSUME Handled(d)'
                 PROVE  Earlier(d, pump[d.net].generation)
                        /\ Due(d, pump[d.net].generation, pump[d.net].proposed)
      OBVIOUS
    <3>2. Handled(c)
      BY <1>2, <1>4 DEF Handled
    <3>3. /\ pump[c.net].generation <= c.generation
          /\ pump[c.net].generation # c.generation
      BY <3>2, <2>4, <2>5
    <3> QED BY <3>1, <3>3, <1>4
  <2> QED BY <2>6, <2>7, <2>8, <2>9, <1>2 DEF Sorted, Earlier, Due, Handled
<1>14. SortedInv'
  BY <1>12, <1>13 DEF SortedInv
<1> QED BY <1>6, <1>7, <1>8, <1>11, <1>14 DEF InOrder

-----------------------------------------------------------------------------
(* Prepare *)

\* A request is about the route its registration is entered for, or is to be.
AskedFor(h, name) ==
    /\ regRef[h] # NoRef => Requested[regRef[h]] = name
    /\ \A p \in Procs : call[p].step \in HandleSteps /\ call[p].handle = h =>
          Requested[call[p].ref] = name
AskedInv == \A n \in Nets : \A i \in DOMAIN asked[n] : AskedFor(asked[n][i].handle, asked[n][i].requested)

LEMMA RequestIs ==
  ASSUME Typed, NEW n \in Nets, NEW i \in DOMAIN asked[n]
  PROVE  asked[n][i] \in Requests
<1>1. asked[n] \in Seq(Requests)
  BY DEF Typed, AskedTyped
<1> QED BY <1>1, ElementOfSeq, LenProperties

\* The first request of the queue is prepared.
LEMMA OrderStartPrepare ==
  ASSUME LANInv, LANInv', InOrder, AskedInv, NEW n \in Nets, StartPrepare(n)
  PROVE  InOrder'
<1>1. PICK q : q = Head(asked[n])
  OBVIOUS
<1>2. /\ pump[n] = NoWork /\ asked[n] # <<>>
      /\ pump' = [pump EXCEPT ![n] =
                      [step |-> IF Owner(q) = NoRef THEN "failed" ELSE "bind",
                       ref |-> Owner(q), requested |-> q.requested,
                       generation |-> q.generation,
                       proposed |-> q.proposed, previous |-> q.previous, iface |-> net]]
      /\ UNCHANGED <<store, bound, world, manager, ingress, live, claims, call, rest>>
  BY <1>1 DEF StartPrepare
<1>3. asked[n] \in Seq(Requests) /\ asked \in [Nets -> Seq(Requests)] /\ pump \in [Nets -> Works]
  BY DEF LANInv, Typed, AskedTyped, PumpTyped
<1>4. asked'[n] = Tail(asked[n]) /\ \A m \in Nets : m # n => asked'[m] = asked[m]
  BY <1>3 DEF StartPrepare
<1>5. /\ q \in Requests /\ q = asked[n][1]
      /\ Len(asked[n]) \in Nat /\ Len(asked[n]) # 0
      /\ DOMAIN asked[n] = 1 .. Len(asked[n])
      /\ DOMAIN Tail(asked[n]) = 1 .. Len(asked[n]) - 1
      /\ \A i \in 1 .. Len(asked[n]) - 1 : Tail(asked[n])[i] = asked[n][i + 1]
  BY <1>1, <1>2, <1>3, HeadTailProperties, LenProperties
<1>6. /\ pump'[n].step \in {"failed", "bind"} /\ pump'[n].ref = Owner(q)
      /\ pump'[n].step = "bind" => Owner(q) # NoRef
      /\ pump'[n].requested = q.requested /\ pump'[n].generation = q.generation
      /\ pump'[n].proposed = q.proposed
      /\ \A m \in Nets : m # n => pump'[m] = pump[m]
  BY <1>2, <1>3
<1>7. AloneInv' /\ CallsInv' /\ BooksInv' /\ HeldInv'
  BY <1>2, CallsSame DEF Kept, Keyed, rest
<1>8. PortsInv'
  <2>1. n \in ingress \/ closed
    BY <1>2 DEF InOrder, PortsInv
  <2>2. \A m \in Nets : pump'[m] # NoWork \/ asked'[m] # <<>> => m \in ingress \/ closed
    BY <2>1, <1>4, <1>6 DEF InOrder, PortsInv
  <2> QED BY <1>2, <2>2 DEF InOrder, PortsInv, world
<1>9. \A c \in claims : c.net \in Nets /\ c.requested \in Names
  BY ClaimIs DEF LANInv
<1>10. ASSUME NEW c \in claims, c.net = n PROVE Sorted(c)'
  <2>1. Sorted(c) /\ ~Handled(c)
    BY <1>2, <1>9, <1>10, NamesAssumption DEF InOrder, SortedInv, Handled, NoWork
  <2>2. \A i \in Asks(c)' : /\ i \in Nat /\ i >= 1 /\ i + 1 \in Asks(c)
                            /\ asked'[n][i] = asked[n][i + 1]
    <3> SUFFICES ASSUME NEW i \in Asks(c)'
                 PROVE  i \in Nat /\ i >= 1 /\ i + 1 \in Asks(c) /\ asked'[n][i] = asked[n][i + 1]
      OBVIOUS
    <3>1. i \in DOMAIN asked'[n] /\ asked'[n][i].requested = c.requested
      BY <1>2, <1>10 DEF Asks
    <3>2. i \in 1 .. Len(asked[n]) - 1
      BY <3>1, <1>4, <1>5
    <3>3. i \in Nat /\ i >= 1 /\ i + 1 \in 1 .. Len(asked[n])
      BY <3>2, <1>5
    <3> QED BY <3>1, <3>2, <3>3, <1>4, <1>5, <1>10 DEF Asks
  <2>3. Handled(c)' => 1 \in Asks(c) /\ pump'[n].generation = asked[n][1].generation
                       /\ pump'[n].proposed = asked[n][1].proposed
    <3>1. 1 \in DOMAIN asked[n]
      BY <1>5
    <3> QED BY <3>1, <1>2, <1>5, <1>6, <1>10 DEF Handled, Asks
  <2>4. \A i, j \in Asks(c)' : i < j => asked'[n][i].generation < asked'[n][j].generation
    <3> SUFFICES ASSUME NEW i \in Asks(c)', NEW j \in Asks(c)', i < j
                 PROVE  asked'[n][i].generation < asked'[n][j].generation
      OBVIOUS
    <3>1. i + 1 < j + 1
      BY <2>2
    <3> QED BY <3>1, <2>1, <2>2, <1>10 DEF Sorted
  <2>5. Handled(c)' => \A i \in Asks(c)' : pump'[n].generation < asked'[n][i].generation
    <3> SUFFICES ASSUME Handled(c)', NEW i \in Asks(c)'
                 PROVE  pump'[n].generation < asked'[n][i].generation
      OBVIOUS
    <3>1. 1 < i + 1
      BY <2>2
    <3> QED BY <3>1, <2>1, <2>2, <2>3, <1>10 DEF Sorted
  <2>6. \A i \in Asks(c)' : /\ Earlier(c, asked'[n][i].generation)
                            /\ Due(c, asked'[n][i].generation, asked'[n][i].proposed)
    BY <2>1, <2>2, <1>10 DEF Sorted
  <2>7. Handled(c)' => /\ Earlier(c, pump'[n].generation)
                       /\ Due(c, pump'[n].generation, pump'[n].proposed)
    BY <2>1, <2>3, <1>10 DEF Sorted
  <2> QED BY <2>4, <2>5, <2>6, <2>7, <1>10 DEF Sorted, Earlier, Due
<1>11. SortedInv'
  <2>1. ASSUME NEW c \in claims, c.net # n PROVE Sorted(c)'
    BY <2>1, <1>4, <1>6, <1>9 DEF InOrder, SortedInv, Sorted, Asks, Handled, Earlier, Due
  <2> QED BY <2>1, <1>2, <1>10 DEF SortedInv
<1>12. pump'[n].step = "bind" =>
          /\ Owner(q) \in Refs /\ Requested[Owner(q)] = q.requested
          /\ pending[q.requested] # NoRef => Owner(q) = pending[q.requested]
  <2> SUFFICES ASSUME Owner(q) # NoRef
               PROVE  /\ Owner(q) \in Refs /\ Requested[Owner(q)] = q.requested
                      /\ pending[q.requested] # NoRef => Owner(q) = pending[q.requested]
    BY <1>6
  <2>1. q.handle \in Handles /\ q.requested \in Names
    BY <1>5 DEF Requests
  <2>2. CASE regRef[q.handle] # NoRef
    <3>1. 1 \in DOMAIN asked[n]
      BY <1>5
    <3>2. Requested[regRef[q.handle]] = q.requested
      BY <2>2, <3>1, <1>5 DEF AskedInv, AskedFor
    <3>3. regRef[q.handle] \in Refs /\ reg[regRef[q.handle]] = q.handle
      BY <2>1, <2>2 DEF LANInv, Typed, ManagerTyped, InOrder, BooksInv
    <3>4. pending[q.requested] = regRef[q.handle]
      BY <2>1, <3>2, <3>3, NoneIsNone DEF InOrder, BooksInv
    <3> QED BY <2>2, <3>2, <3>3, <3>4 DEF Owner
  <2>3. CASE regRef[q.handle] = NoRef
    BY <2>1, <2>3 DEF Owner, LANInv, Typed, ManagerTyped, InOrder, BooksInv
  <2> QED BY <2>2, <2>3
<1>13. OwnersInv'
  <2>1. UNCHANGED pending
    BY <1>2 DEF manager
  <2>2. ASSUME NEW m \in Nets, pump'[m].step \in AtWork
        PROVE  /\ pump'[m].ref \in Refs /\ Requested[pump'[m].ref] = pump'[m].requested
               /\ pump'[m].proposed \in Names
    BY <2>2, <1>5, <1>6, <1>12 DEF AtWork, Requests, InOrder, OwnersInv
  <2>3. ASSUME NEW c \in claims, pump'[c.net].requested = c.requested, pump'[c.net].step \in AtWork,
               pending[c.requested] # NoRef
        PROVE  pump'[c.net].ref = pending[c.requested]
    BY <2>3, <1>6, <1>9, <1>12 DEF AtWork, InOrder, OwnersInv, Handled
  <2> QED BY <2>1, <2>2, <2>3, <1>2 DEF OwnersInv, Handled
<1>14. ServesInv'
  <2>1. UNCHANGED <<pending, stored, share, shareName, bound, claims>>
    BY <1>2 DEF manager, store
  <2>2. ASSUME NEW c \in claims, pending[c.requested] \in stored PROVE Ready(c, pending[c.requested])'
    BY <2>1, <2>2, <1>6, <1>9 DEF InOrder, ServesInv, Ready, Handled, Serves
  <2> QED BY <2>1, <2>2 DEF ServesInv, Ready, Handled, Serves
<1> QED BY <1>7, <1>8, <1>11, <1>13, <1>14 DEF InOrder

\* What stays as it is while a route is prepared.
LEMMA WorkOrder ==
  ASSUME LANInv, LANInv', InOrder, NEW n \in Nets, NEW s \in {"activate", "ready", "failed"},
         Work(n, s), pump[n].step \in AtWork,
         UNCHANGED <<manager, closed, ingress, mdns, call, taken>>
  PROVE  /\ AloneInv' /\ CallsInv' /\ BooksInv' /\ HeldInv' /\ PortsInv' /\ SortedInv' /\ OwnersInv'
         /\ \A m \in Nets : m # n => pump'[m] = pump[m]
         /\ pump'[n].step = s /\ pump'[n].ref = pump[n].ref
         /\ pump'[n].requested = pump[n].requested /\ pump'[n].proposed = pump[n].proposed
<1>1. UNCHANGED <<claims, live, asked, pending>>
  BY DEF mdns, manager
<1>2. pump \in [Nets -> Works]
  BY DEF LANInv, Typed, PumpTyped
<1>3. /\ \A m \in Nets : m # n => pump'[m] = pump[m]
      /\ pump'[n].step = s /\ pump'[n].ref = pump[n].ref
      /\ pump'[n].requested = pump[n].requested /\ pump'[n].proposed = pump[n].proposed
      /\ pump'[n].generation = pump[n].generation
  BY <1>2 DEF Work, Works
<1>4. AloneInv' /\ CallsInv' /\ BooksInv' /\ HeldInv'
  BY <1>1, CallsSame DEF Kept, Keyed
<1>5. PortsInv'
  <2>1. \A m \in Nets : pump'[m] # NoWork => pump[m] # NoWork
    BY <1>3 DEF AtWork, NoWork
  <2> QED BY <2>1, <1>1, PortsStay DEF InOrder
<1>6. \A c \in claims : c.net \in Nets
  BY ClaimIs DEF LANInv
<1>7. \A m \in Nets : /\ pump'[m].requested = pump[m].requested
                      /\ pump'[m].proposed = pump[m].proposed
                      /\ pump'[m].generation = pump[m].generation
                      /\ pump'[m].ref = pump[m].ref
                      /\ pump'[m].step \in AtWork => pump[m].step \in AtWork
  BY <1>3
<1>8. SortedInv'
  BY <1>1, <1>6, <1>7 DEF InOrder, SortedInv, Sorted, Asks, Handled, Earlier, Due
<1>9. OwnersInv'
  BY <1>1, <1>6, <1>7, OwnersStay DEF InOrder, Keyed
<1> QED BY <1>3, <1>4, <1>5, <1>8, <1>9

\* The route of a claim whose name is prepared is the one that is worked on.
LEMMA WorkIsFor ==
  ASSUME LANInv, InOrder, NEW n \in Nets, pump[n].step \in AtWork, NEW c \in claims,
         pending[c.requested] # NoRef
  PROVE  /\ Handled(c) /\ c.net = n => pump[n].ref = pending[c.requested]
         /\ pump[n].ref = pending[c.requested] => Handled(c) /\ c.net = n
<1>1. n = c.net
  BY OneNet DEF AtWork, NoWork
<1>2. c.requested \in Names
  BY ClaimIs DEF LANInv
<1>3. Requested[pending[c.requested]] = c.requested
  BY <1>2 DEF InOrder, BooksInv
<1> QED BY <1>1, <1>3 DEF InOrder, OwnersInv, Handled

LEMMA ClaimedStored ==
  ASSUME LANInv, NEW c \in claims, pending[c.requested] \in stored
  PROVE  pending[c.requested] # NoRef /\ c.net \in Nets /\ pending[c.requested] \in Refs
BY ClaimIs, NamesAssumption DEF LANInv, Typed, StoreTyped

LEMMA OrderBind ==
  ASSUME LANInv, LANInv', InOrder, NEW n \in Nets, Bind(n)
  PROVE  InOrder'
<1> DEFINE w == pump[n]
<1>1. /\ w.step = "bind" /\ w.step \in AtWork
      /\ UNCHANGED <<store, world, manager, ingress, mdns, call, rest>>
  BY DEF Bind, AtWork
<1>2. PICK s \in {"activate", "failed"} : Work(n, s) /\ (s = "failed" => UNCHANGED bound)
           /\ (s = "activate" => /\ bound[w.proposed] \in {NoRef, w.ref}
                                 /\ bound' = [bound EXCEPT ![w.proposed] = w.ref])
  BY DEF Bind
<1>3. /\ AloneInv' /\ CallsInv' /\ BooksInv' /\ HeldInv' /\ PortsInv' /\ SortedInv' /\ OwnersInv'
      /\ \A m \in Nets : m # n => pump'[m] = pump[m]
      /\ pump'[n].step = s /\ pump'[n].ref = w.ref
      /\ pump'[n].requested = w.requested /\ pump'[n].proposed = w.proposed
  BY <1>1, <1>2, WorkOrder DEF world, rest
<1>4. w.ref \in Refs /\ w.ref # NoRef /\ w.proposed \in Names
  BY <1>1, NamesAssumption DEF InOrder, OwnersInv
<1> HIDE DEF w
<1>5. UNCHANGED <<claims, pending, stored, share, shareName>>
  BY <1>1 DEF mdns, manager, store
<1>6. ASSUME NEW r \in Refs, NEW name \in Names, bound[name] = r PROVE bound'[name] = r
  <2>1. r # NoRef /\ bound \in [Names -> Refs \cup {NoRef}]
    BY NamesAssumption DEF LANInv, Typed, BoundTyped
  <2> QED BY <2>1, <1>2, <1>4, <1>6
<1>7. ASSUME NEW c \in claims, pending[c.requested] \in stored
      PROVE  Ready(c, pending[c.requested])'
  <2>1. /\ pending[c.requested] # NoRef /\ c.net \in Nets /\ pending[c.requested] \in Refs
        /\ Ready(c, pending[c.requested])
    BY <1>7, ClaimedStored DEF InOrder, ServesInv
  <2>2. c.phase \in {"announcing", "active"} => c.current \in Names
    BY ClaimIs DEF LANInv, ClaimTyped
  <2>3. ASSUME c.phase \in {"announcing", "active"} PROVE Serves(pending[c.requested], c.current)'
    BY <2>1, <2>2, <2>3, <1>5, <1>6 DEF Ready, Serves
  <2>4. CASE c.net # n
    <3>1. pump'[c.net] = pump[c.net]
      BY <2>1, <2>4, <1>3
    <3>2. pump[c.net].step \in AtWork => pump[c.net].proposed \in Names
      BY <2>1 DEF InOrder, OwnersInv
    <3> QED BY <2>1, <2>3, <3>1, <3>2, <1>5, <1>6 DEF Ready, Serves, Handled, AtWork
  <2>5. CASE c.net = n
    <3>1. Handled(c)' => w.ref = pending[c.requested]
      BY <2>1, <2>5, <1>1, <1>3, <1>5, WorkIsFor DEF Handled, w
    <3>2. s = "activate" => bound'[w.proposed] = w.ref
      BY <1>2, <1>4 DEF LANInv, Typed, BoundTyped
    <3> QED BY <2>3, <2>5, <3>1, <3>2, <1>3, <1>5 DEF Ready
  <2> QED BY <2>4, <2>5
<1>8. ServesInv'
  BY <1>5, <1>7 DEF ServesInv, Ready, Serves, Handled
<1> QED BY <1>3, <1>8 DEF InOrder

LEMMA OrderActivate ==
  ASSUME LANInv, LANInv', InOrder, NEW n \in Nets, ActivateLANShare(n)
  PROVE  InOrder'
<1> DEFINE w == pump[n]
           done == ActivateShare(w.ref, w.proposed) /\ Unbind(Former(w), w.ref)
<1>1. /\ w.step = "activate" /\ w.step \in AtWork
      /\ UNCHANGED <<world, manager, ingress, mdns, call, rest>>
  BY DEF ActivateLANShare, AtWork
<1>2. PICK s \in {"ready", "failed"} : Work(n, s)
           /\ (s = "failed" => UNCHANGED store /\ Unbind(w.proposed, w.ref))
           /\ (s = "ready" => done)
  BY DEF ActivateLANShare
<1>3. /\ AloneInv' /\ CallsInv' /\ BooksInv' /\ HeldInv' /\ PortsInv' /\ SortedInv' /\ OwnersInv'
      /\ \A m \in Nets : m # n => pump'[m] = pump[m]
      /\ pump'[n].step = s /\ pump'[n].ref = w.ref
      /\ pump'[n].requested = w.requested /\ pump'[n].proposed = w.proposed
  BY <1>1, <1>2, WorkOrder DEF world, rest
<1>4. w.ref \in Refs /\ w.ref # NoRef /\ w.proposed \in Names
  BY <1>1, NamesAssumption DEF InOrder, OwnersInv
<1>5. UNCHANGED <<claims, pending, stored>>
  BY <1>1, <1>2 DEF mdns, manager, store, ActivateShare
<1>6. /\ bound \in [Names -> Refs \cup {NoRef}] /\ share \in [Refs -> ShareStates]
      /\ shareName \in [Refs -> Names \cup {NoName}]
  BY DEF LANInv, Typed, BoundTyped, StoreTyped
<1> HIDE DEF w
\* Another route keeps what it has.
<1>7. ASSUME NEW r \in Refs, r # w.ref PROVE Spared(r)
  <2>1. CASE s = "failed"
    BY <2>1, <1>2, <1>6, <1>7, NamesAssumption DEF Unbind, Spared, store
  <2>2. CASE s = "ready"
    BY <2>2, <1>2, <1>4, <1>6, <1>7, NamesAssumption DEF Unbind, Spared, ActivateShare
  <2> QED BY <2>1, <2>2
<1>8. ASSUME s = "ready", bound[w.proposed] = w.ref PROVE Serves(w.ref, w.proposed)'
  <2>1. share'[w.ref] = "active" /\ shareName'[w.ref] = w.proposed
    BY <1>2, <1>4, <1>6, <1>8 DEF ActivateShare
  <2>2. Former(w) # w.proposed
    BY <1>4, NamesAssumption DEF Former
  <2>3. bound'[w.proposed] = w.ref
    BY <1>2, <1>4, <1>6, <1>8, <2>2 DEF Unbind
  <2> QED BY <1>3, <1>4, <2>1, <2>3 DEF Serves, w
<1>9. ASSUME NEW c \in claims, pending[c.requested] \in stored
      PROVE  Ready(c, pending[c.requested])'
  <2>1. /\ pending[c.requested] # NoRef /\ c.net \in Nets /\ pending[c.requested] \in Refs
        /\ Ready(c, pending[c.requested])
    BY <1>9, ClaimedStored DEF InOrder, ServesInv
  <2>2. c.phase \in {"announcing", "active"} => c.current \in Names
    BY ClaimIs DEF LANInv, ClaimTyped
  <2>3. CASE pending[c.requested] # w.ref
    <3>1. ~(Handled(c) /\ c.net = n)
      BY <2>1, <2>3, <1>1, WorkIsFor DEF w
    <3>2. Handled(c)' => Handled(c) /\ pump'[c.net] = pump[c.net]
      BY <2>1, <3>1, <1>3, <1>5 DEF Handled, w
    <3>3. pump[c.net].step \in AtWork => pump[c.net].proposed \in Names
      BY <2>1 DEF InOrder, OwnersInv
    <3>4. Spared(pending[c.requested])
      BY <2>1, <2>3, <1>7
    <3> QED BY <2>1, <2>2, <3>2, <3>3, <3>4, <1>5 DEF Ready, Serves, Spared, AtWork
  <2>4. CASE pending[c.requested] = w.ref
    <3>1. Handled(c) /\ c.net = n
      BY <2>1, <2>4, <1>1, WorkIsFor DEF w
    <3>2. c.phase \notin {"announcing", "active"}
      BY <3>1 DEF InOrder, SortedInv, Sorted, Earlier
    <3>3. bound[w.proposed] = w.ref
      BY <2>1, <2>4, <3>1, <1>1 DEF Ready, w
    <3>4. s = "ready" => Serves(w.ref, w.proposed)'
      BY <3>3, <1>8
    <3>5. pump'[c.net].step \in {"ready", "failed"} /\ (pump'[c.net].step = "ready" => s = "ready")
          /\ pump'[c.net].proposed = w.proposed
      BY <3>1, <1>3
    <3>6. Serves(w.ref, w.proposed)' <=> Serves(pending[c.requested], pump[c.net].proposed)'
      BY <1>3, <1>5, <2>4, <3>1 DEF Serves, w
    <3> QED BY <3>2, <3>4, <3>5, <3>6, <1>5 DEF Ready
  <2> QED BY <2>3, <2>4
<1>10. ServesInv'
  BY <1>5, <1>9 DEF ServesInv, Ready, Serves, Handled
<1> QED BY <1>3, <1>10 DEF InOrder

\* The claim takes the result if it is what it waits for, and then asks no more.
LEMMA OrderDeliver ==
  ASSUME LANInv, LANInv', InOrder, NEW n \in Nets, Deliver(n)
  PROVE  InOrder'
<1>1. /\ pump[n].step \in {"ready", "failed"} /\ pump' = [pump EXCEPT ![n] = NoWork]
      /\ UNCHANGED <<store, bound, world, manager, ingress, live, asked, rest>>
  BY DEF Deliver
<1>2. pump'[n] = NoWork /\ \A m \in Nets : m # n => pump'[m] = pump[m]
  BY <1>1 DEF LANInv, Typed, PumpTyped
<1>3. CASE \E c \in claims : Drop(c)
  BY <1>1, <1>2, <1>3, OrderDrop DEF world, rest
<1>4. ASSUME UNCHANGED call, \A e \in claims' : e \in claims \/ \E c \in claims :
                /\ c.net = n /\ Handled(c) /\ c.phase = "preparing"
                /\ c.generation = pump[n].generation /\ pump[n].step = "ready"
                /\ Kept(c, e) /\ e.phase = "announcing" /\ e.current = c.candidate
      PROVE  InOrder'
  <2>1. \A e \in claims' : /\ e.net \in Nets /\ e.requested \in Names
                           /\ \E c \in claims : Kept(c, e) /\ Keyed(c, e)
    BY <1>4, ClaimIs DEF LANInv, Kept, Keyed
  <2>2. AloneInv' /\ CallsInv' /\ BooksInv' /\ HeldInv'
    BY <1>1, <1>4, <2>1, CallsSame DEF rest
  <2>3. PortsInv'
    BY <1>1, <1>2, PortsStay DEF InOrder, world
  <2>4. \A e \in claims' : pump'[e.net].requested = e.requested =>
            pump[e.net].requested = e.requested /\ e.net # n /\ pump'[e.net] = pump[e.net]
    BY <1>2, <2>1, NamesAssumption DEF NoWork
  <2>5. UNCHANGED <<pending, stored, share, shareName, bound>>
    BY <1>1 DEF manager, store
  <2>6. SortedInv'
    <3> SUFFICES ASSUME NEW e \in claims' PROVE Sorted(e)'
      BY DEF SortedInv
    <3>1. CASE e \in claims
      BY <3>1, <2>4, <1>1 DEF InOrder, SortedInv, Sorted, Asks, Handled, Earlier, Due
    <3>2. ASSUME NEW c \in claims, c.net = n, Handled(c), c.phase = "preparing",
                 c.generation = pump[n].generation, Keyed(c, e)
          PROVE  Sorted(e)'
      <4>1. Sorted(c)
        BY DEF InOrder, SortedInv
      <4>2. Asks(c) = {}
        <5> SUFFICES ASSUME NEW i \in Asks(c) PROVE FALSE
          OBVIOUS
        <5>1. asked[n][i] \in Requests /\ pump[n] \in Works
          BY <3>2, RequestIs DEF Asks, LANInv, Typed, PumpTyped
        <5>2. asked[n][i].generation \in Nat /\ pump[n].generation \in Nat
          BY <5>1 DEF Requests, Works
        <5> QED BY <4>1, <3>2, <5>2 DEF Sorted, Earlier
      <4>3. ~Handled(e)'
        BY <3>2, <2>4 DEF Handled, Keyed
      <4>4. Asks(e)' = {}
        BY <4>2, <3>2, <1>1 DEF Asks, Keyed
      <4> QED BY <4>3, <4>4 DEF Sorted
    <3> QED BY <3>1, <3>2, <1>4 DEF Kept
  <2>7. OwnersInv'
    <3>1. \A m \in Nets : pump'[m].step \in AtWork => pump'[m] = pump[m]
      BY <1>2 DEF NoWork, AtWork
    <3>2. ASSUME NEW e \in claims', Handled(e)', pump'[e.net].step \in AtWork,
                 pending[e.requested] # NoRef
          PROVE  pump'[e.net].ref = pending[e.requested]
      BY <3>2, <2>1, <2>4 DEF InOrder, OwnersInv, Handled, Keyed
    <3> QED BY <3>1, <3>2, <2>5 DEF InOrder, OwnersInv
  <2>8. ASSUME NEW e \in claims', pending[e.requested] \in stored PROVE Ready(e, pending[e.requested])'
    <3>1. CASE e \in claims
      BY <3>1, <2>4, <2>5, <2>8 DEF InOrder, ServesInv, Ready, Serves, Handled
    <3>2. ASSUME NEW c \in claims, c.net = n, Handled(c), c.phase = "preparing",
                 c.generation = pump[n].generation, pump[n].step = "ready",
                 Keyed(c, e), e.phase = "announcing", e.current = c.candidate
          PROVE  Ready(e, pending[e.requested])'
      <4>1. pump[n].proposed = c.candidate
        BY <3>2 DEF InOrder, SortedInv, Sorted, Due
      <4>2. Serves(pending[e.requested], pump[n].proposed)
        BY <3>2, <2>8 DEF InOrder, ServesInv, Ready, Keyed
      <4>3. ~Handled(e)'
        BY <3>2, <2>4 DEF Handled, Keyed
      <4> QED BY <3>2, <4>1, <4>2, <4>3, <2>5 DEF Ready, Serves
    <3> QED BY <3>1, <3>2, <1>4 DEF Kept
  <2>9. ServesInv'
    BY <2>5, <2>8 DEF ServesInv, Ready, Serves, Handled
  <2> QED BY <2>2, <2>3, <2>6, <2>7, <2>9 DEF InOrder
<1>5. CASE ~\E c \in claims : Drop(c)
  <2> DEFINE due == {c \in ClaimOf(n, pump[n].requested) :
                        c.phase = "preparing" /\ c.generation = pump[n].generation}
  <2>1. \A c \in due : /\ c \in claims /\ c.net = n /\ Handled(c) /\ c.phase = "preparing"
                       /\ c.generation = pump[n].generation
    BY DEF ClaimOf, Handled
  <2>2. CASE UNCHANGED <<claims, call>>
    BY <2>2, <1>4
  <2>3. ASSUME NEW c \in due, pump[n].step # "failed", UNCHANGED call,
               Replace(c, [c EXCEPT !.phase = "announcing", !.current = c.candidate])
        PROVE  InOrder'
    <3>1. c \in AllClaims /\ c \in claims
      BY <2>1, ClaimIs DEF LANInv, ClaimTyped
    <3>2. PICK d : d = [c EXCEPT !.phase = "announcing", !.current = c.candidate]
      OBVIOUS
    <3>3. Kept(c, d) /\ d.phase = "announcing" /\ d.current = c.candidate
      BY <3>1, <3>2 DEF AllClaims, Kept, Keyed
    <3>4. \A e \in claims' : e \in claims \/ e = d
      BY <2>3, <3>2 DEF Replace
    <3> HIDE DEF due
    <3> QED BY <1>1, <1>4, <2>1, <2>3, <3>1, <3>3, <3>4
  <2> QED BY <1>5, <2>1, <2>2, <2>3 DEF Deliver
<1> QED BY <1>3, <1>5

-----------------------------------------------------------------------------
(* The routes that requests are about *)

\* Nobody gets a registration.
Handing ==
    \A q \in Procs : call'[q].step \in HandleSteps =>
        /\ call[q].step \in HandleSteps
        /\ call'[q].handle = call[q].handle /\ call'[q].ref = call[q].ref

LEMMA AskedStays ==
  ASSUME Typed, AskedInv, Handing,
         \A n \in Nets : \A i \in DOMAIN asked'[n] :
             \E j \in DOMAIN asked[n] : asked'[n][i] = asked[n][j],
         \A h \in Handles : regRef'[h] \in {regRef[h], NoRef}
  PROVE  AskedInv'
<1>1. ASSUME NEW h \in Handles, NEW name, AskedFor(h, name) PROVE AskedFor(h, name)'
  BY <1>1 DEF AskedFor, Handing
<1>2. ASSUME NEW n \in Nets, NEW i \in DOMAIN asked'[n]
      PROVE  AskedFor(asked[n][i].handle, asked[n][i].requested)'
  <2>1. PICK j \in DOMAIN asked[n] : asked'[n][i] = asked[n][j]
    BY <1>2
  <2>2. asked[n][j].handle \in Handles
    BY RequestIs DEF Requests
  <2>3. AskedFor(asked[n][j].handle, asked[n][j].requested)
    BY DEF AskedInv
  <2> QED BY <1>1, <2>1, <2>2, <2>3 DEF AskedFor
<1> QED BY <1>2 DEF AskedInv

LEMMA AskedSame ==
  ASSUME Typed, AskedInv, Handing, UNCHANGED <<asked, regRef>>
  PROVE  AskedInv'
BY AskedStays

LEMMA HandingGoes ==
  ASSUME CallsTyped, NEW p \in Procs,
         Finish(p) \/ Refuse(p) \/ \E s \in Steps \ HandleSteps : Goto(p, s)
  PROVE  Handing
<1>1. CASE Finish(p)
  BY <1>1, Finishing DEF Handing, HandleSteps, Elsewhere
<1>2. ASSUME NEW s \in Steps \ HandleSteps, Goto(p, s) PROVE Handing
  BY <1>2, GoesTo DEF Handing, Elsewhere
<1>3. "suspend" \in Steps \ HandleSteps
  BY DEF Steps, RouteSteps, HandleSteps
<1> QED BY <1>1, <1>2, <1>3 DEF Refuse

LEMMA HandingMoves ==
  ASSUME CallsTyped, NEW p \in Procs, Elsewhere(p), call'[p].step \notin HandleSteps
  PROVE  Handing
BY DEF Handing, Elsewhere

LEMMA HandingWorks ==
  ASSUME LANInv, NEW p \in Procs, Working(p), ~Register(p)
  PROVE  Handing
<1>1. CallsTyped /\ call \in [Procs -> Calls]
  BY DEF LANInv, Typed, CallsTyped
<1>2. {"suspend", "check", "claim", "unrequest", "unroute", "unshare", "forget", "drain",
       "delete", "next", "each", "takeAll"} \subseteq Steps \ HandleSteps
  BY DEF Steps, RouteSteps, NetSteps, HandleSteps
<1>3. CASE Check(p) \/ NameTaken(p) \/ NetworkRefused(p) \/ Unrequest(p) \/ ResponderGone(p)
  BY <1>1, <1>2, <1>3, HandingGoes DEF Check, NameTaken, NetworkRefused, Unrequest, ResponderGone
<1>4. CASE Enter(p) \/ Unroute(p) \/ Unshare(p) \/ DeleteRoute(p) \/ Look(p) \/ Suspend(p)
  BY <1>1, <1>2, <1>4, HandingGoes DEF Enter, Unroute, Unshare, DeleteRoute, Look, Suspend
<1>5. CASE CloseResponder(p) \/ CloseIngress(p) \/ SuspendOld(p) \/ CancelManager(p)
  BY <1>1, <1>2, <1>5, HandingGoes DEF CloseResponder, CloseIngress, SuspendOld, CancelManager
<1>6. CASE p = Startup /\ Load
  BY <1>1, <1>2, <1>6, HandingGoes DEF Load
<1>7. CASE ReserveName(p) \/ StartNetwork(p)
  <2>1. \E n : call' = [call EXCEPT ![p].step = "register", ![p].net = n]
    BY <1>7 DEF ReserveName, StartNetwork, Reserve
  <2>2. Elsewhere(p) /\ call'[p].step = "register"
    BY <1>1, <2>1 DEF Elsewhere, Calls
  <2> QED BY <1>1, <2>2, HandingMoves DEF HandleSteps
<1>8. CASE Forget(p) \/ RemoveLANShare(p) \/ AllWithdrawn(p)
  <2>1. CASE \E n, a : call' = [call EXCEPT ![p].net = n, ![p].step = "close", ![p].after = a]
    <3>1. Elsewhere(p) /\ call'[p].step = "close"
      BY <1>1, <2>1 DEF Elsewhere, Calls
    <3> QED BY <1>1, <3>1, HandingMoves DEF HandleSteps
  <2>2. CASE \E a : call' = [call EXCEPT ![p].step = "close", ![p].after = a]
    <3>1. Elsewhere(p) /\ call'[p].step = "close"
      BY <1>1, <2>2 DEF Elsewhere, Calls
    <3> QED BY <1>1, <3>1, HandingMoves DEF HandleSteps
  <2>3. CASE Finish(p) \/ Refuse(p) \/ Goto(p, "delete")
    BY <1>1, <1>2, <2>3, HandingGoes
  <2> QED BY <1>8, <2>1, <2>2, <2>3 DEF Forget, Closing, RemoveLANShare, AllWithdrawn
<1>9. CASE Take(p)
  <2>1. \E h, n : call' = [call EXCEPT ![p].handle = h, ![p].net = n, ![p].step = "release"]
    BY <1>9 DEF Take
  <2>2. Elsewhere(p) /\ call'[p].step = "release"
    BY <1>1, <2>1 DEF Elsewhere, Calls
  <2> QED BY <1>1, <2>2, HandingMoves DEF HandleSteps
<1>10. CASE Release(p)
  <2>1. PICK s \in {"suspendOld", "remove"} :
          \E f : call' = [call EXCEPT ![p].failed = f, ![p].step = s]
    BY <1>10 DEF Release
  <2>2. Elsewhere(p) /\ call'[p].step = s
    BY <1>1, <2>1 DEF Elsewhere, Calls
  <2> QED BY <1>1, <2>1, <2>2, HandingMoves DEF HandleSteps
<1>11. CASE NextRoute(p)
  <2>1. CASE call' = [call EXCEPT ![p] = Idle]
    BY <1>1, <2>1, HandingMoves DEF Elsewhere, Idle, HandleSteps
  <2>2. ASSUME NEW r, NEW s \in {"suspend", "check", "look"},
               call' = [call EXCEPT ![p].ref = r, ![p].step = s]
        PROVE  Handing
    <3>1. Elsewhere(p) /\ call'[p].step = s
      BY <1>1, <2>2 DEF Elsewhere, Calls
    <3> QED BY <1>1, <3>1, HandingMoves DEF HandleSteps
  <2> QED BY <1>11, <2>1, <2>2 DEF NextRoute
<1>12. CASE TakeAll(p)
  <2>1. Elsewhere(p) /\ call'[p].step = "each"
    BY <1>1, <1>12 DEF TakeAll, Elsewhere, Calls
  <2> QED BY <1>1, <2>1, HandingMoves DEF HandleSteps
<1>13. CASE p = Monitor /\ Swap
  BY <1>1, <1>2, <1>12, <1>13, HandingGoes DEF Swap
<1>14. CASE Shutdown(p)
  BY <1>12, <1>14 DEF Shutdown
<1>15. CASE WithdrawNext(p)
  <2>1. PICK r \in Refs : \E h : call' = [call EXCEPT ![p].step = "release", ![p].ref = r, ![p].handle = h]
    BY <1>15 DEF WithdrawNext
  <2>2. Elsewhere(p) /\ call'[p].step = "release"
    BY <1>1, <2>1 DEF Elsewhere, Calls
  <2> QED BY <1>1, <2>2, HandingMoves DEF HandleSteps
<1> QED BY <1>3, <1>4, <1>5, <1>6, <1>7, <1>8, <1>9, <1>10, <1>11, <1>13, <1>14, <1>15
        DEF Working, Creating, Removing, Recovering

LEMMA HandingSame ==
  ASSUME Typed, UNCHANGED call
  PROVE  Handing
BY DEF Handing

LEMMA HandingAnswers ==
  ASSUME Typed, NEW c \in claims, NEW s \in {"unroute", "answered"}, Answer(c, s)
  PROVE  Handing
<1>1. call \in [Procs -> Calls]
  BY DEF Typed, CallsTyped
<1>2. ASSUME NEW q \in Procs
      PROVE  /\ call'[q].handle = call[q].handle /\ call'[q].ref = call[q].ref
             /\ call'[q].step = call[q].step \/ call[q].step = "waiting"
  BY <1>1 DEF Answer, Waiting, At, Calls
<1> QED BY <1>2 DEF Handing, HandleSteps

LEMMA AskedWork ==
  ASSUME LANInv, InOrder, AskedInv, NEW p \in Procs, Working(p), ~Register(p), ~Enter(p)
  PROVE  AskedInv'
<1>1. Handing /\ Typed
  BY HandingWorks DEF LANInv
<1>2. CASE UNCHANGED <<asked, regRef>>
  BY <1>1, <1>2, AskedSame
<1>3. CASE Check(p) \/ ReserveName(p) \/ NameTaken(p) \/ StartNetwork(p) \/ NetworkRefused(p)
           \/ Unrequest(p)
  BY <1>2, <1>3 DEF Check, ReserveName, NameTaken, StartNetwork, NetworkRefused, Unrequest,
                    manager, mdns
<1>4. CASE ResponderGone(p) \/ Unroute(p) \/ Unshare(p) \/ Forget(p) \/ Release(p)
           \/ RemoveLANShare(p) \/ DeleteRoute(p)
  BY <1>2, <1>4 DEF ResponderGone, Unroute, Unshare, Forget, Release, RemoveLANShare,
                    DeleteRoute, manager, mdns
<1>5. CASE Look(p) \/ NextRoute(p) \/ Suspend(p) \/ CloseResponder(p) \/ (p = Startup /\ Load)
           \/ WithdrawNext(p) \/ SuspendOld(p) \/ AllWithdrawn(p) \/ CancelManager(p)
  BY <1>2, <1>5 DEF Look, NextRoute, Suspend, CloseResponder, Load, WithdrawNext, SuspendOld,
                    AllWithdrawn, CancelManager, manager, mdns
<1>6. CASE CloseIngress(p)
  <2>1. asked' = [asked EXCEPT ![call[p].net] = <<>>] /\ regRef' = regRef
    BY <1>6 DEF CloseIngress, manager
  <2>2. asked \in [Nets -> Seq(Requests)]
    BY <1>1 DEF Typed, AskedTyped
  <2>3. \A n \in Nets : \A i \in DOMAIN asked'[n] :
             \E j \in DOMAIN asked[n] : asked'[n][i] = asked[n][j]
    BY <2>1, <2>2
  <2> QED BY <1>1, <2>1, <2>3, AskedStays
<1>7. ASSUME asked' = asked, \A h \in Handles : regRef'[h] \in {regRef[h], NoRef}
      PROVE  AskedInv'
  BY <1>1, <1>7, AskedStays
<1>8. CASE Take(p)
  <2>1. asked' = asked /\ (regRef' = regRef
                           \/ regRef' = [regRef EXCEPT ![reg[call[p].ref]] = NoRef])
    BY <1>8 DEF Take, mdns
  <2>2. regRef \in [Handles -> Refs \cup {NoRef}]
    BY <1>1 DEF Typed, ManagerTyped
  <2> QED BY <1>7, <2>1, <2>2
<1>9. CASE (p = Monitor /\ Swap) \/ Shutdown(p)
  BY <1>7, <1>9 DEF Swap, Shutdown, TakeAll, manager, mdns
<1> QED BY <1>3, <1>4, <1>5, <1>6, <1>8, <1>9 DEF Working, Creating, Removing, Recovering

LEMMA AskedEnter ==
  ASSUME LANInv, InOrder, AskedInv, NEW p \in Procs, Enter(p)
  PROVE  AskedInv'
<1>1. /\ call[p].step = "answered" /\ Finish(p) /\ asked' = asked
      /\ regRef' = [regRef EXCEPT ![call[p].handle] = call[p].ref]
  BY DEF Enter, At, mdns
<1>2. Handing
  BY <1>1, HandingGoes DEF LANInv, Typed
<1>3. regRef \in [Handles -> Refs \cup {NoRef}]
  BY DEF LANInv, Typed, ManagerTyped
<1>4. ASSUME NEW h \in Handles, NEW name, AskedFor(h, name) PROVE AskedFor(h, name)'
  <2>1. \A q \in Procs : call'[q].step \in HandleSteps /\ call'[q].handle = h =>
            Requested[call'[q].ref] = name
    BY <1>2, <1>4 DEF AskedFor, Handing
  <2>2. CASE h = call[p].handle
    BY <1>1, <1>3, <1>4, <2>1, <2>2 DEF AskedFor, HandleSteps
  <2>3. CASE h # call[p].handle
    BY <1>1, <1>3, <1>4, <2>1, <2>3 DEF AskedFor
  <2> QED BY <2>2, <2>3
<1>5. \A n \in Nets : \A i \in DOMAIN asked[n] :
          asked[n][i].handle \in Handles /\ AskedFor(asked[n][i].handle, asked[n][i].requested)
  BY RequestIs DEF LANInv, AskedInv, Requests
<1>6. ASSUME NEW n \in Nets, NEW i \in DOMAIN asked[n]
      PROVE  AskedFor(asked[n][i].handle, asked[n][i].requested)'
  <2>1. PICK h, name : h = asked[n][i].handle /\ name = asked[n][i].requested
    OBVIOUS
  <2>2. AskedFor(h, name)'
    BY <1>4, <1>5, <2>1
  <2>3. h = asked'[n][i].handle /\ name = asked'[n][i].requested
    BY <1>1, <2>1
  <2> QED BY <2>2, <2>3 DEF AskedFor
<1> QED BY <1>1, <1>6 DEF AskedInv, AskedFor

LEMMA AskedRegister ==
  ASSUME LANInv, AskedInv, NEW p \in Procs, Register(p)
  PROVE  AskedInv'
<1>1. PICK h : h = Least(FreeHandles)
  OBVIOUS
<1>2. h \in FreeHandles
  <2>1. FreeHandles \in SUBSET Nat /\ FreeHandles # {}
    BY NoneIsNone DEF FreeHandles, Register
  <2> QED BY <2>1, <1>1, LeastIs
<1>3. UNCHANGED <<asked, regRef>> /\ \E s : call' = [call EXCEPT ![p].handle = h, ![p].step = s]
  BY <1>1 DEF Register, manager
<1>4. Elsewhere(p) /\ call'[p].handle = h
  BY <1>3 DEF Elsewhere, LANInv, Typed, CallsTyped, Calls
<1>5. ASSUME NEW n \in Nets, NEW i \in DOMAIN asked[n]
      PROVE  AskedFor(asked[n][i].handle, asked[n][i].requested)'
  <2>1. asked[n][i].handle # h
    BY <1>2 DEF FreeHandles
  <2>2. AskedFor(asked[n][i].handle, asked[n][i].requested)
    BY DEF AskedInv
  <2> QED BY <1>3, <1>4, <2>1, <2>2 DEF AskedFor, Elsewhere
<1> QED BY <1>3, <1>5 DEF AskedInv, AskedFor

LEMMA AskedAsk ==
  ASSUME LANInv, InOrder, AskedInv, NEW c \in claims, Ask(c)
  PROVE  AskedInv'
<1>1. PICK h, k :
        /\ h \in c.handles
        /\ asked' = [asked EXCEPT ![c.net] = Append(@, k)]
        /\ k \in Requests /\ k.handle = h /\ k.requested = c.requested
  <2>1. PICK h \in c.handles : asked' = [asked EXCEPT ![c.net] = Append(@,
              [handle |-> h, requested |-> c.requested, generation |-> c.generation,
               proposed |-> c.candidate, previous |-> c.current])]
    BY DEF Ask
  <2>2. c \in AllClaims
    BY ClaimIs DEF LANInv, ClaimTyped
  <2>3. PICK k : k = [handle |-> h, requested |-> c.requested, generation |-> c.generation,
                      proposed |-> c.candidate, previous |-> c.current]
    OBVIOUS
  <2>4. k \in Requests /\ k.handle = h /\ k.requested = c.requested
    BY <2>2, <2>3 DEF AllClaims, Requests
  <2> QED BY <2>1, <2>3, <2>4
<1>2. UNCHANGED <<regRef, call>>
  BY DEF Ask, manager
<1>3. asked \in [Nets -> Seq(Requests)] /\ c.net \in Nets
  BY ClaimIs DEF LANInv, Typed, AskedTyped
<1>4. AskedFor(k.handle, k.requested)
  BY <1>1 DEF InOrder, HeldInv, Held, AskedFor
<1>5. ASSUME NEW n \in Nets, NEW i \in DOMAIN asked'[n]
      PROVE  AskedFor(asked'[n][i].handle, asked'[n][i].requested)
  <2>1. CASE n # c.net
    BY <1>1, <1>3, <1>5, <2>1 DEF AskedInv
  <2>2. CASE n = c.net
    <3>1. asked'[n] = Append(asked[n], k) /\ asked[n] \in Seq(Requests) /\ k \in Requests
      BY <1>1, <1>3, <2>2
    <3>2. /\ Len(Append(asked[n], k)) = Len(asked[n]) + 1
          /\ \A j \in 1 .. Len(asked[n]) : Append(asked[n], k)[j] = asked[n][j]
          /\ Append(asked[n], k)[Len(asked[n]) + 1] = k
          /\ Append(asked[n], k) \in Seq(Requests)
      BY <3>1, AppendProperties
    <3>3. /\ Len(asked[n]) \in Nat /\ DOMAIN asked[n] = 1 .. Len(asked[n])
          /\ DOMAIN asked'[n] = 1 .. Len(asked[n]) + 1
      BY <3>1, <3>2, LenProperties
    <3>4. CASE i = Len(asked[n]) + 1
      BY <1>4, <3>1, <3>2, <3>4
    <3>5. CASE i \in DOMAIN asked[n]
      BY <3>1, <3>2, <3>3, <3>5 DEF AskedInv
    <3>6. i = Len(asked[n]) + 1 \/ i \in DOMAIN asked[n]
      BY <3>3
    <3> QED BY <3>4, <3>5, <3>6
  <2> QED BY <2>1, <2>2
<1> QED BY <1>2, <1>5 DEF AskedInv, AskedFor

LEMMA AskedResponder ==
  ASSUME LANInv, AskedInv, NEW c \in claims, Confirm(c) \/ Lose(c) \/ ProbeAgain(c) \/ WriteFails(c)
  PROVE  AskedInv'
<1>1. UNCHANGED <<asked, regRef>>
  BY DEF Confirm, Lose, ProbeAgain, WriteFails, manager
<1>2. UNCHANGED call \/ \E s \in {"unroute", "answered"} : Answer(c, s)
  BY DEF Confirm, Lose, ProbeAgain, WriteFails, Drop
<1>3. Typed /\ Handing
  BY <1>2, HandingSame, HandingAnswers DEF LANInv
<1> QED BY <1>1, <1>3, AskedSame

LEMMA AskedPreparing ==
  ASSUME LANInv, AskedInv, NEW n \in Nets, Preparing(n)
  PROVE  AskedInv'
<1>1. Typed /\ regRef' = regRef
  BY DEF LANInv, Preparing, StartPrepare, Bind, ActivateLANShare, Deliver, manager
<1>2. CASE StartPrepare(n)
  <2>1. asked[n] # <<>> /\ asked' = [asked EXCEPT ![n] = Tail(@)] /\ UNCHANGED call
    BY <1>2 DEF StartPrepare
  <2>2. asked \in [Nets -> Seq(Requests)]
    BY <1>1 DEF Typed, AskedTyped
  <2>3. /\ Tail(asked[n]) \in Seq(Requests) /\ Len(Tail(asked[n])) = Len(asked[n]) - 1
        /\ \A i \in 1 .. Len(Tail(asked[n])) : Tail(asked[n])[i] = asked[n][i + 1]
    BY <2>1, <2>2, HeadTailProperties
  <2>4. /\ DOMAIN asked[n] = 1 .. Len(asked[n]) /\ Len(asked[n]) \in Nat
        /\ DOMAIN Tail(asked[n]) = 1 .. Len(asked[n]) - 1
    BY <2>2, <2>3, LenProperties
  <2>5. \A i \in DOMAIN Tail(asked[n]) :
            i + 1 \in DOMAIN asked[n] /\ Tail(asked[n])[i] = asked[n][i + 1]
    BY <2>3, <2>4
  <2>6. \A m \in Nets : \A i \in DOMAIN asked'[m] :
             \E j \in DOMAIN asked[m] : asked'[m][i] = asked[m][j]
    BY <2>1, <2>2, <2>5
  <2> QED BY <1>1, <2>1, <2>6, HandingSame, AskedStays
<1>3. CASE Bind(n) \/ ActivateLANShare(n)
  BY <1>1, <1>3, HandingSame, AskedSame DEF Bind, ActivateLANShare, mdns
<1>4. CASE Deliver(n)
  <2>1. asked' = asked
    BY <1>4 DEF Deliver
  <2>2. UNCHANGED call \/ \E c \in claims : Drop(c)
    BY <1>4 DEF Deliver, ClaimOf
  <2>3. Handing
    BY <1>1, <2>2, HandingSame, HandingAnswers DEF Drop
  <2> QED BY <1>1, <2>1, <2>3, AskedSame
<1> QED BY <1>2, <1>3, <1>4 DEF Preparing

LEMMA AskedBegin ==
  ASSUME LANInv, AskedInv, NEW p \in Procs, NEW kind \in Kinds, NEW r, Begin(p, kind, r)
  PROVE  AskedInv'
<1>1. UNCHANGED <<asked, regRef>>
  BY DEF Begin, manager, mdns
<1>2. call \in [Procs -> Calls] /\ CallsTyped
  BY DEF LANInv, Typed, CallsTyped
<1>3. Elsewhere(p) /\ call'[p].step = First(kind)
  BY <1>2 DEF Begin, Elsewhere, Idle
<1>4. First(kind) \notin HandleSteps
  BY DEF First, HandleSteps
<1> QED BY <1>1, <1>2, <1>3, <1>4, HandingMoves, AskedSame DEF LANInv

LEMMA AskedNotice ==
  ASSUME LANInv, AskedInv, Notice
  PROVE  AskedInv'
<1>1. UNCHANGED <<asked, regRef>>
  BY DEF Notice, manager, mdns
<1>2. call \in [Procs -> Calls] /\ CallsTyped /\ Monitor \in Procs
  BY DEF LANInv, Typed, CallsTyped, Procs
<1>3. Elsewhere(Monitor) /\ call'[Monitor].step = "swap"
  BY <1>2 DEF Notice, Elsewhere, Calls
<1> QED BY <1>1, <1>2, <1>3, HandingMoves, AskedSame DEF LANInv, HandleSteps

-----------------------------------------------------------------------------
(* Every step *)

LEMMA OrderWork ==
  ASSUME LANInv, LANInv', InOrder, orderly, NEW p \in Procs, Working(p)
  PROVE  InOrder'
<1>1. CASE Look(p) \/ NextRoute(p) \/ (p = Startup /\ Load) \/ NameTaken(p) \/ Suspend(p)
           \/ Check(p) \/ NetworkRefused(p)
  BY <1>1, OrderLook, OrderSuspend, OrderCheck
<1>2. CASE Unrequest(p) \/ RemoveLANShare(p) \/ DeleteRoute(p) \/ ResponderGone(p)
           \/ Unroute(p) \/ Unshare(p)
  BY <1>2, OrderUnrequest, OrderDelete, OrderUnroute
<1>3. CASE SuspendOld(p) \/ AllWithdrawn(p) \/ ReserveName(p) \/ StartNetwork(p) \/ Enter(p)
           \/ Forget(p) \/ Take(p)
  BY <1>3, OrderSuspendOld, OrderAllWithdrawn, OrderReserve, OrderEnter, OrderForget, OrderTake
<1>4. CASE (p = Monitor /\ Swap) \/ Shutdown(p) \/ WithdrawNext(p) \/ Release(p)
  BY <1>4, OrderSwap, OrderWithdrawNext, OrderRelease
<1>5. CASE CloseResponder(p) \/ CancelManager(p) \/ CloseIngress(p) \/ Register(p)
  BY <1>5, OrderCloseResponder, OrderCancelManager, OrderCloseIngress, OrderRegister
<1> QED BY <1>1, <1>2, <1>3, <1>4, <1>5 DEF Working, Creating, Removing, Recovering

LEMMA OrderStep ==
  ASSUME LANInv, LANInv', InOrder, AskedInv, orderly, [Next]_vars
  PROVE  InOrder' /\ AskedInv'
<1>1. CASE Rest \/ NetworkChanges \/ NetworkReturns \/ (\E r \in Refs : Vanish(r)) \/ UNCHANGED vars
  <2>1. UNCHANGED <<asked, regRef, call>>
    BY <1>1 DEF Rest, NetworkChanges, NetworkReturns, Vanish, vars, mdns, manager
  <2>2. AskedInv'
    BY <2>1, HandingSame, AskedSame DEF LANInv
  <2> QED BY <1>1, <2>2, OrderWorld
<1>2. ASSUME NEW p \in Callers, NEW r \in Refs,
             NEW kind \in {"create", "renew", "remove", "delete", "close"}, Begin(p, kind, r)
      PROVE  InOrder' /\ AskedInv'
  <2>1. p \in Procs /\ kind \in Kinds
    BY DEF Procs, Kinds
  <2> QED BY <1>2, <2>1, OrderBegin, AskedBegin
<1>3. ASSUME NEW p \in Procs, Working(p) \/ Cancelling(p) PROVE InOrder' /\ AskedInv'
  <2>1. Working(p)
    BY <1>3 DEF Cancelling, CancelWaiting, CancelAnswered
  <2>2. InOrder'
    BY <2>1, OrderWork
  <2>3. AskedInv'
    BY <2>1, AskedWork, AskedEnter, AskedRegister
  <2> QED BY <2>2, <2>3
<1>4. CASE Notice
  BY <1>4, OrderNotice, AskedNotice
<1>5. ASSUME NEW c \in claims, Ask(c) \/ Confirm(c) \/ Lose(c) \/ ProbeAgain(c) \/ WriteFails(c)
      PROVE  InOrder' /\ AskedInv'
  <2>1. InOrder'
    BY <1>5, OrderAsk, OrderConfirm, OrderDisturbed
  <2>2. AskedInv'
    BY <1>5, AskedAsk, AskedResponder
  <2> QED BY <2>1, <2>2
<1>6. ASSUME NEW n \in Nets, Preparing(n) PROVE InOrder' /\ AskedInv'
  <2>1. InOrder'
    BY <1>6, OrderStartPrepare, OrderBind, OrderActivate, OrderDeliver DEF Preparing
  <2> QED BY <1>6, <2>1, AskedPreparing
<1> QED BY <1>1, <1>2, <1>3, <1>4, <1>5, <1>6 DEF Next, Claiming, Disturbance

\* Calls overlap or do not from the start.
LEMMA OrderlyStays ==
  ASSUME [Next]_vars
  PROVE  orderly' = orderly
<1>1. CASE Rest \/ NetworkChanges \/ NetworkReturns \/ (\E r \in Refs : Vanish(r)) \/ UNCHANGED vars
           \/ Notice \/ (\E p \in Callers, r \in Refs,
                            kind \in {"create", "renew", "remove", "delete", "close"} :
                                Begin(p, kind, r))
  BY <1>1 DEF Rest, NetworkChanges, NetworkReturns, Vanish, Notice, Begin, vars, rest
<1>2. ASSUME NEW p \in Procs, Creating(p) PROVE orderly' = orderly
  BY <1>2 DEF Creating, Check, ReserveName, NameTaken, StartNetwork, NetworkRefused, Unrequest,
              Register, ResponderGone, Enter, Unroute, Unshare, Forget, rest
<1>3. ASSUME NEW p \in Procs, Removing(p) \/ Recovering(p) \/ Cancelling(p)
      PROVE  orderly' = orderly
  BY <1>3 DEF Removing, Take, Release, RemoveLANShare, DeleteRoute, Recovering, Look, NextRoute,
              Suspend, Cancelling, CancelWaiting, CancelAnswered, rest
<1>4. ASSUME NEW p \in Procs, Working(p) PROVE orderly' = orderly
  BY <1>2, <1>3, <1>4
     DEF Working, CloseResponder, CloseIngress, Load, Swap, WithdrawNext, SuspendOld,
         AllWithdrawn, CancelManager, Shutdown, rest
<1>5. ASSUME NEW c \in claims, Ask(c) \/ Confirm(c) \/ Lose(c) \/ ProbeAgain(c) \/ WriteFails(c)
      PROVE  orderly' = orderly
  BY <1>5 DEF Ask, Confirm, Lose, ProbeAgain, WriteFails, rest
<1>6. ASSUME NEW n \in Nets, Preparing(n) PROVE orderly' = orderly
  BY <1>6 DEF Preparing, StartPrepare, Bind, ActivateLANShare, Deliver, rest
<1> QED BY <1>1, <1>3, <1>4, <1>5, <1>6 DEF Next, Claiming, Disturbance

LEMMA OrderInit ==
  ASSUME Init
  PROVE  InOrder /\ AskedInv
<1>1. \A p \in Procs : call[p].step = IF p = Startup THEN "load" ELSE "idle"
  BY DEF Init, Idle
<1>2. /\ \A p \in Procs : \A r \in Refs : taken[p][r] = None
      /\ ingress = {} /\ live = {} /\ claims = {}
      /\ \A n \in Nets : pump[n] = NoWork /\ asked[n] = <<>>
      /\ \A r \in Refs : reg[r] = None
      /\ \A h \in Handles : regRef[h] = NoRef
      /\ \A n \in Names : pending[n] = NoRef
  BY DEF Init
<1>3. AloneInv /\ PortsInv /\ BooksInv
  BY <1>1, <1>2 DEF AloneInv, At, PortsInv, BooksInv
<1>4. CallsInv
  BY <1>1, <1>2 DEF CallsInv, CallOrder, HoldSteps, HandleSteps, Withdraws
<1>5. HeldInv /\ SortedInv /\ ServesInv
  BY <1>2 DEF HeldInv, SortedInv, ServesInv
<1>6. OwnersInv
  BY <1>2 DEF OwnersInv, AtWork, NoWork
<1>7. AskedInv
  <2>1. \A n \in Nets : DOMAIN asked[n] = {}
    BY <1>2
  <2> QED BY <2>1 DEF AskedInv
<1> QED BY <1>3, <1>4, <1>5, <1>6, <1>7 DEF InOrder

\* The invariant, which is inductive.
OrderlyInv == LANInv /\ (orderly => InOrder /\ AskedInv)

LEMMA OrderlyHolds == Spec => []OrderlyInv
<1>1. Init => OrderlyInv
  BY LANInit, OrderInit DEF OrderlyInv
<1>2. OrderlyInv /\ [Next]_vars => OrderlyInv'
  <2> SUFFICES ASSUME OrderlyInv, [Next]_vars PROVE OrderlyInv'
    OBVIOUS
  <2>1. LANInv /\ LANInv' /\ orderly' = orderly
    BY LANStep, OrderlyStays DEF OrderlyInv
  <2>2. orderly => InOrder' /\ AskedInv'
    BY <2>1, OrderStep DEF OrderlyInv
  <2> QED BY <2>1, <2>2 DEF OrderlyInv
<1> QED BY <1>1, <1>2, PTL DEF Spec

LEMMA ServesActive ==
  ASSUME OrderlyInv
  PROVE  AnnouncedServed
<1> SUFFICES ASSUME orderly, NEW c \in claims, NEW h \in c.handles,
                    c.phase = "active", regRef[h] \in stored
             PROVE  Serves(regRef[h], c.current)
  BY DEF AnnouncedServed, Serves
<1>1. LANInv /\ InOrder
  BY DEF OrderlyInv
<1>2. PICK r : r = regRef[h]
  OBVIOUS
<1>3. r \in Refs /\ r # NoRef /\ h \in Handles
  <2>1. c \in AllClaims /\ stored \subseteq Refs
    BY <1>1, ClaimIs DEF LANInv, ClaimTyped, Typed, StoreTyped
  <2> QED BY <1>2, <2>1, NamesAssumption DEF AllClaims
<1>4. Requested[r] = c.requested
  BY <1>1, <1>2, <1>3 DEF InOrder, HeldInv, Held
<1>5. reg[r] = h
  BY <1>1, <1>2, <1>3 DEF InOrder, BooksInv
<1>6. reg[r] # None
  BY <1>3, <1>5, NoneIsNone
<1>7. pending[c.requested] = r
  BY <1>1, <1>3, <1>4, <1>6 DEF InOrder, BooksInv
<1> QED BY <1>1, <1>2, <1>7 DEF InOrder, ServesInv, Ready

LEMMA QuietLeaves ==
  ASSUME OrderlyInv
  PROVE  NothingLeft
<1> SUFFICES ASSUME orderly, Quiet
             PROVE  /\ \A n \in Names : pending[n] # NoRef => reg[pending[n]] # None
                    /\ \A c \in claims : \A h \in c.handles :
                          regRef[h] # NoRef /\ reg[regRef[h]] = h
  BY DEF NothingLeft
<1>1. LANInv /\ InOrder
  BY DEF OrderlyInv
<1>2. \A p \in Procs : call[p].step = "idle" /\ \A r \in Refs : taken[p][r] = None
  BY <1>1 DEF Quiet, At, InOrder, CallsInv, CallOrder, Withdraws
<1>3. \A n \in Names : pending[n] # NoRef => reg[pending[n]] # None
  BY <1>1, <1>2 DEF InOrder, BooksInv, Reserving, HoldSteps
<1>4. ASSUME NEW c \in claims, NEW h \in c.handles
      PROVE  regRef[h] # NoRef /\ reg[regRef[h]] = h
  <2>1. h \in Handles
    BY <1>1, ClaimIs DEF LANInv, ClaimTyped, AllClaims
  <2>2. h # None
    BY <2>1, NoneIsNone
  <2>3. Owned(h)
    BY <1>1 DEF InOrder, HeldInv, Held
  <2>4. regRef[h] # NoRef
    BY <1>2, <2>2, <2>3 DEF Owned, Holds
  <2> QED BY <1>1, <2>1, <2>4 DEF InOrder, BooksInv
<1> QED BY <1>3, <1>4

-----------------------------------------------------------------------------
(* What is promised where no two calls overlap *)

\* Where no two calls overlap, and a name is registered anew only once what was
\* prepared for it before has ended, every name that is announced for a route
\* is the one the store shows, and the TLS server has its certificate for that
\* route: through conflicts, renewals of the network and failures of writes,
\* bindings and certificates.
\* (lan_manager.go: Prepare, Remove, reconcileNetwork, rollbackCreate)
THEOREM WhatIsAnnouncedIsServed == Spec => []AnnouncedServed
<1>1. OrderlyInv => AnnouncedServed
  BY ServesActive
<1> QED BY <1>1, OrderlyHolds, PTL

\* There, calls that have ended leave nothing behind: a name is reserved, and a
\* claim defended, for a registered route only, whatever failed on the way.
\* (lan_manager.go: Create, rollbackCreate, Remove, reconcileNetwork)
THEOREM NothingIsLeft == Spec => []NothingLeft
<1>1. OrderlyInv => NothingLeft
  BY QuietLeaves
<1> QED BY <1>1, OrderlyHolds, PTL

=============================================================================
