------------------------------- MODULE MCTLS --------------------------------
(***************************************************************************)
(* CertStore with its readers LocalTLS and LANTLS, which have nothing else *)
(* in common and change nothing in it: what one of them does is no step of *)
(* the other.  Each behaviour is therefore about one part of the system.   *)
(***************************************************************************)
EXTENDS LocalTLS, LANTLS, TLC

CONSTANT Renewals   \* the setups that run while others read

\* Setups alone; the router's handshakes, and its requests; the local network.
Parts == {"setups", "handshakes", "requests", "lan"}

VARIABLE part

others == <<localVars, lanVars, part>>
vars == <<certVars, others>>

\* The readers find an authority that a setup may replace.
Init ==
    /\ part \in Parts
    /\ CertInit /\ LocalInit /\ LANInit
    /\ part # "setups" => made = 1 /\ ends[1] = RenewBefore

Tick ==
    /\ part # "requests"
    /\ LocalCalm /\ LANCalm
    /\ CertTick
    /\ UNCHANGED others

\* Setups fail where there are others that repair what they leave; readers do
\* not see what the system trusts.
SetupsRun ==
    /\ \/ /\ part = "setups"
          /\ \E s \in Setups : SetupStep(s)
       \/ /\ part \in {"handshakes", "lan"}
          /\ \E s \in Renewals :
               Lock(s) \/ WriteCert(s) \/ WriteKey(s) \/ WritePrint(s)
    /\ UNCHANGED others

\* A route is owned alike before its activation and after it: here before.
HandshakesRun ==
    /\ part = "handshakes"
    /\ \/ \E c \in Clients : Handshake(c) \/ HangUp(c)
       \/ \E c \in Clients, h \in (Hosts \ HTTPSHosts) \cup {Localhost} : Hello(c, h)
       \/ \E h \in Hosts \ HTTPSHosts :
            (RouteChanges(h) \/ RouteTaken(h)) /\ owner'[h].state # "active"
    /\ UNCHANGED <<lanVars, part>>

RequestsRun ==
    /\ part = "requests"
    /\ \/ \E c \in Clients : Respond(c) \/ HangUp(c)
       \/ \E c \in Clients, h \in Hosts : Ask(c, h)
       \/ \E h \in Hosts : RouteChanges(h) \/ RouteTaken(h)
    /\ UNCHANGED <<lanVars, part>>

\* Bound: after two goroutines have worked on the share at a time, no other
\* Prepare begins and the share is not suspended.
Settles ==
    /\ prepare.step # "idle" \/ prepare' = prepare
    /\ \A r \in Refs : share[r].state = "active" => share'[r].state # "suspended"

LANRuns ==
    /\ part = "lan"
    /\ LANNext
    /\ crossed => Settles
    /\ UNCHANGED <<localVars, part>>

Next == Tick \/ SetupsRun \/ HandshakesRun \/ RequestsRun \/ LANRuns

Spec == Init /\ [][Next]_vars

MCSymmetry ==
    Permutations(Setups \ Renewals) \cup Permutations(Clients) \cup Permutations(Names)
=============================================================================
