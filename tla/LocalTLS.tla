------------------------------ MODULE LocalTLS ------------------------------
(***************************************************************************)
(* The router's HTTP and HTTPS ports on this machine: TLS handshakes that  *)
(* issue a certificate for the route that owns the host name, the cache of *)
(* certificates behind them, and the proxy.                                *)
(*                                                                         *)
(* A handshake reads the authority and the table of routes five times, and *)
(* each time the authority first; each read is a step.  The routes change  *)
(* at any time (RouteTable says how); a change keeps or replaces the       *)
(* identity of the route.  Its generation never changes (RouteTable).      *)
(***************************************************************************)
EXTENDS CertStore, FiniteSets, Sequences, SequencesExt

CONSTANTS
    Hosts,      \* host names that routes may own
    HTTPSHosts, \* those whose routes prefer https
    Localhost,  \* the host name of the router itself
    Clients,    \* connections
    MaxRoute,   \* bound: identities of routes per host
    Capacity,   \* certificates in the cache
    CacheTTL,   \* hours a certificate stays there
    LeafLife    \* hours a certificate is valid

NoHost == "no host"

ASSUME LocalAssumption ==
    /\ IsFiniteSet(Hosts) /\ HTTPSHosts \subseteq Hosts
    /\ Localhost \notin Hosts /\ NoHost \notin Hosts \cup {Localhost}
    /\ MaxRoute \in Nat \ {0}
    /\ Capacity \in Nat \ {0} /\ CacheTTL \in Nat \ {0} /\ LeafLife \in Nat \ {0}

VARIABLES
    owner,   \* [Hosts -> the route that has the host name]
    cache,   \* the entries of the cache, the most recently used first
    client   \* [Clients -> where the connection is]

localVars == <<owner, cache, client>>

NoRoute == [id |-> 0, state |-> "none", expired |-> FALSE]
Routes == [id : 1 .. MaxRoute, state : {"pending", "active"}, expired : BOOLEAN]

\* What a certificate is issued for: id is 0 for the router itself.
Keys == [host : Hosts \cup {Localhost}, id : 0 .. MaxRoute, ca : CAs]
NoKey == [host |-> NoHost, id |-> 0, ca |-> NoCA]

\* A certificate, with the key it was issued for.
Leaves == [key : Keys, until : 0 .. MaxTime + LeafLife]
NoLeaf == [key |-> NoKey, until |-> 0]

\* loaded is the authority just read; a request came over TLS or not, and has
\* passed some hosts.
Idle == [step |-> "idle", host |-> NoHost, key |-> NoKey, loaded |-> NoCA,
         leaf |-> NoLeaf, secure |-> FALSE, hops |-> <<>>]

\* The steps that begin with LoadCA.
Checks == {"hello", "certificate", "flight", "issued", "answer", "verify"}

Entries == [key : Keys, leaf : Leaves, until : Nat]
Connections ==
    [step : Checks \cup {"idle", "join", "wait", "issue", "open", "asked"},
     host : Hosts \cup {Localhost, NoHost}, key : Keys \cup {NoKey}, loaded : CAs \cup {NoCA},
     leaf : Leaves \cup {NoLeaf}, secure : BOOLEAN, hops : Seq(Hosts)]

LocalTypeOK ==
    /\ owner \in [Hosts -> Routes \cup {NoRoute}]
    /\ cache \in Seq(Entries)
    /\ client \in [Clients -> Connections]

-----------------------------------------------------------------------------
(* The cache *)

Cached(key) == \E i \in DOMAIN cache : cache[i].key = key
Position(key) == CHOOSE i \in DOMAIN cache : cache[i].key = key
Others(key) == IF Cached(key) THEN RemoveAt(cache, Position(key)) ELSE cache

\* The certificate a look-up returns, and what it leaves behind: a hit moves
\* to the front, an entry whose time is over goes.
Hit(key) == Cached(key) /\ now < cache[Position(key)].until
Found(key) == IF Hit(key) THEN cache[Position(key)].leaf ELSE NoLeaf
Touched(key) == IF Hit(key) THEN <<cache[Position(key)]>> \o Others(key) ELSE Others(key)

Earlier(a, b) == IF a < b THEN a ELSE b

\* An entry ends with its certificate; the least recently used one is dropped.
Expiry(leaf) == Earlier(now + CacheTTL, leaf.until)
Put(key, leaf) ==
    LET all == <<[key |-> key, leaf |-> leaf, until |-> Expiry(leaf)]>> \o Others(key)
    IN  SubSeq(all, 1, Earlier(Len(all), Capacity))

-----------------------------------------------------------------------------
(* The route that has a host name *)

\* Reservation, activation, expiry, renewal, and the end of a route.  A new
\* identity is taken whenever the host name changes hands.
NextRoutes(h) ==
    LET r == owner[h]
    IN  (IF r = NoRoute
         THEN {} ELSE {NoRoute, [r EXCEPT !.expired = TRUE]})
        \cup (IF r.state = "pending" /\ ~r.expired
              THEN {[r EXCEPT !.state = "active"]} ELSE {})
        \cup (IF r.state = "active" THEN {[r EXCEPT !.expired = FALSE]} ELSE {})

RouteChanges(h) ==
    /\ owner' \in {[owner EXCEPT ![h] = r] : r \in NextRoutes(h)}
    /\ UNCHANGED <<cache, client, certVars>>

\* Identities are drawn at random; here one that is taken later is larger.
RouteTaken(h) ==
    /\ owner[h] = NoRoute \/ owner[h].expired
    /\ \E id \in (1 .. MaxRoute) \ {owner[h].id} :
         owner' = [owner EXCEPT ![h] = [id |-> id, state |-> "pending", expired |-> FALSE]]
    /\ UNCHANGED <<cache, client, certVars>>

-----------------------------------------------------------------------------
(* Authorization *)

\* A route owns its host name while its reservation or its lease runs.
Owned(h) == owner[h] # NoRoute /\ ~owner[h].expired

\* Mutant: the route's identity does not count.
Mutant_Authorized(h, ca) ==
    IF h = Localhost \/ Owned(h) THEN [host |-> h, id |-> 0, ca |-> ca] ELSE NoKey

Authorized(h, ca) ==
    IF h = Localhost THEN [host |-> h, id |-> 0, ca |-> ca]
    ELSE IF Owned(h) THEN [host |-> h, id |-> owner[h].id, ca |-> ca]
    ELSE NoKey

Confirmed(c) == Authorized(client[c].host, client[c].loaded) = client[c].key

-----------------------------------------------------------------------------
(* A handshake *)

At(c, step) == client[c].step = step
Becomes(c, record) == client' = [client EXCEPT ![c] = record]
Goes(c, step) == Becomes(c, [client[c] EXCEPT !.step = step, !.loaded = NoCA])

Hello(c, h) ==
    /\ At(c, "idle")
    /\ Becomes(c, [Idle EXCEPT !.step = "hello", !.host = h])
    /\ UNCHANGED <<owner, cache, certVars>>

\* The first half of authorize, which begins every check.
Load(c) ==
    /\ client[c].step \in Checks \ {"flight", "issued"}
    /\ client[c].loaded = NoCA
    /\ IF Loadable THEN Becomes(c, [client[c] EXCEPT !.loaded = files.cert])
       ELSE Becomes(c, Idle)
    /\ UNCHANGED <<owner, cache, certVars>>

Loaded(c, step) == At(c, step) /\ client[c].loaded # NoCA

Authorize(c) ==
    /\ Loaded(c, "hello")
    /\ LET key == Authorized(client[c].host, client[c].loaded)
       IN  Becomes(c, IF key = NoKey THEN Idle
                      ELSE [client[c] EXCEPT !.step = "certificate", !.key = key, !.loaded = NoCA])
    /\ UNCHANGED <<owner, cache, certVars>>

\* GetCertificate looks into the cache before it joins others.
Lookup(c) ==
    /\ Loaded(c, "certificate")
    /\ IF ~Confirmed(c) THEN Becomes(c, Idle) /\ UNCHANGED cache
       ELSE /\ cache' = Touched(client[c].key)
            /\ Becomes(c, [client[c] EXCEPT !.leaf = Found(client[c].key), !.loaded = NoCA,
                    !.step = IF Hit(client[c].key) THEN "verify" ELSE "join"])
    /\ UNCHANGED <<owner, certVars>>

\* One connection issues for all that want the same certificate by then.
InFlight(key) ==
    \E d \in Clients : client[d].step \in {"flight", "issue", "issued"} /\ client[d].key = key
Join(c) ==
    /\ At(c, "join")
    /\ Goes(c, IF InFlight(client[c].key) THEN "wait" ELSE "flight")
    /\ UNCHANGED <<owner, cache, certVars>>

\* The result reaches the connection that flies and those that wait for it;
\* without a certificate their handshakes fail.
Sharing(c) == {c} \cup {d \in Clients : At(d, "wait") /\ client[d].key = client[c].key}
\* Mutant: those that wait are told nothing when the one that flies fails.
Mutant_Lands(c, leaf) ==
    client' = [d \in Clients |->
        IF d \notin Sharing(c) \/ (leaf = NoLeaf /\ d # c) THEN client[d]
        ELSE IF leaf = NoLeaf THEN Idle
        ELSE [client[d] EXCEPT !.step = "answer", !.leaf = leaf, !.loaded = NoCA]]

Lands(c, leaf) ==
    client' = [d \in Clients |->
        IF d \notin Sharing(c) THEN client[d]
        ELSE IF leaf = NoLeaf THEN Idle
        ELSE [client[d] EXCEPT !.step = "answer", !.leaf = leaf, !.loaded = NoCA]]

\* The two checks of a flight: a failed load fails the flight.
LoadInFlight(c) ==
    /\ client[c].step \in {"flight", "issued"} /\ client[c].loaded = NoCA
    /\ IF Loadable THEN Becomes(c, [client[c] EXCEPT !.loaded = files.cert])
       ELSE Lands(c, NoLeaf)
    /\ UNCHANGED <<owner, cache, certVars>>

LookAgain(c) ==
    /\ Loaded(c, "flight")
    /\ LET key == client[c].key IN
         IF ~Confirmed(c) THEN Lands(c, NoLeaf) /\ UNCHANGED cache
         ELSE /\ cache' = Touched(key)
              /\ IF Hit(key) THEN Lands(c, Found(key)) ELSE Goes(c, "issue")
    /\ UNCHANGED <<owner, certVars>>

\* With the authority of the ClientHello, not with the one just read.
Issue(c) ==
    /\ At(c, "issue")
    /\ LET key == client[c].key
           leaf == [key |-> key, until |-> LeafEnd(key.ca, LeafLife)]
       IN  IF Issues(key.ca) THEN Becomes(c, [client[c] EXCEPT !.step = "issued", !.leaf = leaf])
           ELSE Lands(c, NoLeaf)
    /\ UNCHANGED <<owner, cache, certVars>>

Keep(c) ==
    /\ Loaded(c, "issued")
    /\ LET leaf == client[c].leaf IN
         IF Confirmed(c)
         THEN Lands(c, leaf) /\ cache' = Put(client[c].key, leaf)
         ELSE Lands(c, NoLeaf) /\ UNCHANGED cache
    /\ UNCHANGED <<owner, certVars>>

\* GetCertificate returns; VerifyConnection checks once more.
Answer(c) ==
    /\ \/ Loaded(c, "answer") /\ (IF Confirmed(c) THEN Goes(c, "verify") ELSE Becomes(c, Idle))
       \/ Loaded(c, "verify") /\ (IF Confirmed(c) THEN Goes(c, "open") ELSE Becomes(c, Idle))
    /\ UNCHANGED <<owner, cache, certVars>>

HangUp(c) ==
    /\ client[c].step \in {"open", "asked"}
    /\ Becomes(c, Idle)
    /\ UNCHANGED <<owner, cache, certVars>>

Handshake(c) ==
    \/ Load(c) \/ Authorize(c) \/ Lookup(c) \/ Join(c) \/ LoadInFlight(c) \/ LookAgain(c)
    \/ Issue(c) \/ Keep(c) \/ Answer(c)

-----------------------------------------------------------------------------
(* Requests: what the proxy does is read off the route of the Host header, *)
(* which need not be the host of the handshake.                            *)

\* A request on an open connection, or one without TLS, which then is all that
\* is left of it.
Ask(c, h) ==
    /\ client[c].step \in {"idle", "open"}
    /\ Becomes(c, [Idle EXCEPT !.step = "asked", !.host = h, !.secure = At(c, "open")])
    /\ UNCHANGED <<owner, cache, certVars>>

\* Mutant: only the last hop counts.
Mutant_Loop(c) == client[c].hops # <<>> /\ Last(client[c].hops) = client[c].host

\* A request that has passed through this host already.
Loop(c) == Contains(client[c].hops, client[c].host)

\* A route that prefers https answers a request without TLS by a redirection.
Redirected(c) == client[c].host \in HTTPSHosts /\ ~client[c].secure

Response(c) ==
    LET r == owner[client[c].host]
    IN  CASE r = NoRoute            -> "missing"
          [] r.state = "pending"    -> "starting"
          [] r.state = "active" /\ r.expired -> "offline"
          [] r.state = "active" /\ ~r.expired /\ Loop(c) -> "loop"
          [] r.state = "active" /\ ~r.expired /\ ~Loop(c) /\ Redirected(c) -> "redirect"
          [] OTHER -> "proxied"

\* The hop is added to those of the request that goes to the target.
Passed(c) == Append(client[c].hops, client[c].host)

\* The target answers, or passes the request on to another route, over TLS or
\* not.
Respond(c) ==
    /\ At(c, "asked") /\ client[c].host \in Hosts
    /\ \/ Becomes(c, Idle)
       \/ /\ Response(c) = "proxied"
          /\ \E h \in Hosts, secure \in BOOLEAN :
               Becomes(c, [Idle EXCEPT !.step = "asked", !.host = h, !.secure = secure,
                    !.hops = Passed(c)])
    /\ UNCHANGED <<owner, cache, certVars>>
-----------------------------------------------------------------------------
LocalInit ==
    /\ owner = [h \in Hosts |-> NoRoute]
    /\ cache = <<>>
    /\ client = [c \in Clients |-> Idle]

\* Timing assumption: the two reads of one check, and the issuing of a
\* certificate with those that wait for it, do not take an hour.
LocalCalm ==
    \A c \in Clients : client[c].loaded = NoCA /\ client[c].step \notin
        {"join", "wait", "flight", "issue", "issued", "answer"}

\* Everything at once: setups, handshakes, requests and changes of routes.
LocalNext ==
    \/ LocalCalm /\ CertTick /\ UNCHANGED localVars
    \/ (\E s \in Setups : SetupStep(s)) /\ UNCHANGED localVars
    \/ \E c \in Clients : Handshake(c) \/ HangUp(c) \/ Respond(c)
    \/ \E c \in Clients, h \in Hosts \cup {Localhost} : Hello(c, h)
    \/ \E c \in Clients, h \in Hosts : Ask(c, h)
    \/ \E h \in Hosts : RouteChanges(h) \/ RouteTaken(h)
LocalSpec == CertInit /\ LocalInit /\ [][LocalNext]_<<localVars, certVars>>

-----------------------------------------------------------------------------
\* Nobody issues what is already being issued or is in the cache, and whoever
\* waits for a certificate waits for a connection that issues it: the flight
\* ends for all that joined it, however it ends, and none joins it too late.
FlightShared ==
    /\ LocalTypeOK
    /\ \A c \in Clients :
      /\ At(c, "wait") => InFlight(client[c].key)
      /\ client[c].step \in {"issue", "issued"} =>
           /\ ~Hit(client[c].key)
           /\ \A d \in Clients \ {c} :
                client[d].step \in {"flight", "issue", "issued"} => client[d].key # client[c].key

\* A handshake is given a certificate that has not ended, for its host name,
\* the authority of its ClientHello and the route that has the name at that
\* moment, whoever issued it for whom and however long ago.
HandshakeSound ==
    [][\A c \in Clients :
         client[c].step # "verify" /\ client'[c].step = "verify" =>
           LET h == client[c].host  key == client'[c].leaf.key IN
             /\ now < client'[c].leaf.until
             /\ key.host = h /\ key.ca = client[c].key.ca
             /\ h # Localhost => Owned(h) /\ owner[h].id = key.id]_<<localVars, certVars>>

\* Targets that pass requests on to each other cannot keep one going for ever:
\* no request passes a route twice.
RequestsBounded ==
    \A c \in Clients : Len(client[c].hops) <= Cardinality(Hosts)
=============================================================================
