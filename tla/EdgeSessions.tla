---------------------------- MODULE EdgeSessions ----------------------------
(***************************************************************************)
(* What the serving edge of WSLEdge does with the connections it accepts:  *)
(* its session manager, which shares one session with a helper process on  *)
(* Windows between them and starts another when that has ended, the tunnel *)
(* through the session, and the helper's side of it.                       *)
(*                                                                         *)
(* A helper is a number, in the order of their starts, and so is the       *)
(* session with it.  The mutex of the manager is held while a helper       *)
(* starts; all else that is done under it is one step.                     *)
(***************************************************************************)
EXTENDS WSLEdge

CONSTANTS
    Connections,  \* connections of browsers, each made once
    Helpers,      \* bound: helper processes, 1 .. n
    MaxCalls,     \* bound: commands called where connections are made
    MaxDrops      \* bound: helpers that end by themselves

ASSUME SessionAssumption ==
    /\ Helpers \subseteq Nat \ {0} /\ 1 \in Helpers
    /\ MaxCalls \in Nat /\ MaxDrops \in Nat

VARIABLES
    visited,   \* connections are made
    session,   \* the helper of the manager's session
    helper,    \* [Helpers -> phase]
    backoff,   \* the next attempt to start a helper has to wait
    conn,      \* [Connections -> where the connection is, and with which helper]
    drops      \* helpers that have ended by themselves

manager == <<session, helper, backoff, conn>>
sessionVars == <<visited, manager, drops>>
allVars == <<vars, sessionVars>>

NoHelper == 0
Helping == {h \in Helpers : helper[h] \in {"greets", "up"}}
In(steps) == {k \in Connections : conn[k].step \in steps}

\* Get holds the mutex for as long as the helper takes to start.
Locked == In({"starting"}) # {}

Cancelled == \A e \in Listening : edge[e].told

Done(h) == helper[h] = "gone"

Leads(k, step) == conn' = [conn EXCEPT ![k].step = step]

\* A connection that is closed is done with its session.
Closes(k) == conn' = [conn EXCEPT ![k] = [step |-> "closed", on |-> NoHelper]]

SessionInit ==
    /\ Init
    /\ visited \in BOOLEAN
    /\ session = NoHelper
    /\ helper = [h \in Helpers |-> "none"]
    /\ backoff = FALSE
    /\ conn = [k \in Connections |-> [step |-> "none", on |-> NoHelper]]
    /\ drops = 0

-----------------------------------------------------------------------------
(* Connections *)

Accept(k) ==
    /\ visited /\ Listening # {} /\ conn[k].step = "none"
    /\ Leads(k, "get")
    /\ UNCHANGED <<vars, visited, session, helper, backoff, drops>>

Live == session # NoHelper /\ ~Done(session)

\* Get returns the session it has, ...
Share(k) ==
    /\ conn[k].step = "get" /\ ~Locked
    /\ Live
    /\ conn' = [conn EXCEPT ![k] = [step |-> "opening", on |-> session]]
    /\ UNCHANGED <<vars, visited, session, helper, backoff, drops>>

\* ... or drops one that is done and waits for the next attempt, ...
BackOff(k) ==
    /\ conn[k].step = "get" /\ ~Locked
    /\ ~Live /\ backoff
    /\ session' = NoHelper
    /\ IF Cancelled THEN Closes(k) ELSE Leads(k, "waiting")
    /\ UNCHANGED <<vars, visited, helper, backoff, drops>>

\* Mutant: the mutex is given back while the helper starts.
Mutant_StartHelper(k) ==
    /\ conn[k].step = "get"
    /\ ~Live /\ ~backoff /\ ~Cancelled
    /\ session' = NoHelper
    /\ \E h \in Helpers :
         /\ helper[h] = "none" /\ \A g \in Helpers : g < h => helper[g] # "none"
         /\ helper' = [helper EXCEPT ![h] = "greets"]
         /\ conn' = [conn EXCEPT ![k] = [step |-> "starting", on |-> h]]
    /\ UNCHANGED <<vars, visited, backoff, drops>>

\* ... or starts a helper; a process that is told to end starts none.
StartHelper(k) ==
    /\ conn[k].step = "get" /\ ~Locked
    /\ ~Live /\ ~backoff
    /\ session' = NoHelper
    /\ \/ /\ Cancelled
          /\ backoff' = TRUE
          /\ Closes(k) /\ UNCHANGED helper
       \/ \E h \in Helpers :
            /\ ~Cancelled
            /\ helper[h] = "none" /\ \A g \in Helpers : g < h => helper[g] # "none"
            /\ helper' = [helper EXCEPT ![h] = "greets"]
            /\ conn' = [conn EXCEPT ![k] = [step |-> "starting", on |-> h]]
            /\ UNCHANGED backoff
    /\ UNCHANGED <<vars, visited, drops>>

\* NewClient: the helper answers the preface within ten seconds, or is killed.
Greeted(k) ==
    /\ conn[k].step = "starting"
    /\ helper[conn[k].on] = "greets" /\ ~Cancelled /\ Forwards # {}
    /\ helper' = [helper EXCEPT ![conn[k].on] = "up"]
    /\ session' = conn[k].on
    /\ backoff' = FALSE
    /\ Leads(k, "opening")
    /\ UNCHANGED <<vars, visited, drops>>

GreetingFails(k) ==
    /\ conn[k].step = "starting"
    /\ helper[conn[k].on] = "gone" \/ Cancelled \/ Forwards = {}
    /\ helper' = [helper EXCEPT ![conn[k].on] = "gone"]
    /\ backoff' = TRUE
    /\ Closes(k)
    /\ UNCHANGED <<vars, visited, session, drops>>

NextAttempt ==
    /\ backoff
    /\ backoff' = FALSE
    /\ UNCHANGED <<vars, visited, session, helper, conn, drops>>

Wakes(k) ==
    /\ conn[k].step = "waiting"
    /\ \/ Cancelled /\ Closes(k)
       \/ ~Cancelled /\ ~backoff /\ Leads(k, "get")
    /\ UNCHANGED <<vars, visited, session, helper, backoff, drops>>

\* The helper dials the router for each stream and answers ready or not.
Opens(k) ==
    /\ conn[k].step = "opening"
    /\ Leads(k, IF Done(conn[k].on) \/ Cancelled \/ ~windows THEN "refused" ELSE "joined")
    /\ UNCHANGED <<vars, visited, session, helper, backoff, drops>>

\* A stream that is refused is no reason to give the session up, ...
Refused(k) ==
    /\ conn[k].step = "refused"
    /\ IF Done(conn[k].on) THEN Leads(k, "invalid") ELSE Closes(k)
    /\ UNCHANGED <<vars, visited, session, helper, backoff, drops>>

\* Mutant: whatever session there is is closed.
Mutant_Invalidate(k) ==
    /\ conn[k].step = "invalid" /\ ~Locked
    /\ session' = NoHelper
    /\ helper' = [h \in Helpers |-> IF h = session THEN "gone" ELSE helper[h]]
    /\ Closes(k)
    /\ UNCHANGED <<vars, visited, backoff, drops>>

\* ... and who gives it up may find another in its place.
Invalidate(k) ==
    /\ conn[k].step = "invalid" /\ ~Locked
    /\ IF session = conn[k].on
         THEN session' = NoHelper /\ helper' = [helper EXCEPT ![session] = "gone"]
         ELSE UNCHANGED <<session, helper>>
    /\ Closes(k)
    /\ UNCHANGED <<vars, visited, backoff, drops>>

\* Either side closes, or the session ends under it.
Hangup(k) ==
    /\ conn[k].step = "joined"
    /\ Closes(k)
    /\ UNCHANGED <<vars, visited, session, helper, backoff, drops>>

HelperEnds(h) ==
    /\ h \in Helping
    /\ drops < MaxDrops /\ drops' = drops + 1
    /\ helper' = [helper EXCEPT ![h] = "gone"]
    /\ UNCHANGED <<vars, visited, session, backoff, conn>>

-----------------------------------------------------------------------------
(* The process *)

\* All that a process has is gone with it.
Disconnect ==
    /\ session' = NoHelper /\ backoff' = FALSE
    /\ helper' = [h \in Helpers |-> IF h \in Helping THEN "gone" ELSE helper[h]]
    /\ conn' = [k \in Connections |->
                  IF conn[k].step = "none" THEN conn[k]
                  ELSE [step |-> "closed", on |-> NoHelper]]
    /\ UNCHANGED <<visited, drops>>

\* Serve closes the manager before anything else, and waits for its mutex.
CloseManager(e) == ~Locked /\ End(e) /\ Disconnect

Breaks(e) ==
    /\ Crash(e)
    /\ IF e \in Listening THEN Disconnect ELSE UNCHANGED sessionVars

CallOnce(c) ==
    /\ visited => Cardinality({d \in Commands : cmd[d] # NotCalled}) < MaxCalls
    /\ Call(c)
    /\ UNCHANGED sessionVars

ConnectionStep(k) ==
    \/ Share(k) \/ BackOff(k) \/ StartHelper(k) \/ Greeted(k) \/ GreetingFails(k)
    \/ Wakes(k) \/ Opens(k) \/ Refused(k) \/ Invalidate(k) \/ Hangup(k)

Finished ==
    /\ Settled /\ \A c \in Commands : Over(c) \/ (visited /\ cmd[c] = NotCalled)
    /\ In({"get", "starting", "waiting", "opening", "refused", "invalid", "joined"}) = {}

SessionNext ==
    \/ \E e \in Edges : EdgeStep(e) /\ UNCHANGED sessionVars
    \/ \E e \in Edges : CloseManager(e) \/ Breaks(e)
    \/ \E c \in Commands : CommandStep(c) /\ UNCHANGED sessionVars
    \/ \E c \in Commands : CallOnce(c)
    \/ WindowsStops /\ UNCHANGED sessionVars
    \/ \E k \in Connections : Accept(k) \/ ConnectionStep(k)
    \/ \E h \in Helpers : HelperEnds(h)
    \/ NextAttempt
    \/ Finished /\ UNCHANGED allVars

SessionSpec == SessionInit /\ [][SessionNext]_allVars

-----------------------------------------------------------------------------
(* Properties *)

Waiting == {"none", "get", "waiting", "closed"}
Holding == {"starting", "opening", "refused", "invalid", "joined"}

Connection ==
    [step : Waiting, on : {NoHelper}] \cup [step : Holding, on : Helpers]

SessionTyped ==
    /\ visited \in BOOLEAN /\ backoff \in BOOLEAN
    /\ session \in Helpers \cup {NoHelper}
    /\ helper \in [Helpers -> {"none", "greets", "up", "gone"}]
    /\ conn \in [Connections -> Connection]
    /\ drops \in 0 .. MaxDrops

\* Every variable has its type, and a connection that waits holds no session;
\* what the manager gives out is a session whose helper has greeted.
SessionTypeOK ==
    /\ Typed
    /\ SessionTyped
    /\ session # NoHelper => helper[session] \in {"up", "gone"}

\* However many connections ask for a session at once, and whatever happened to
\* the one before, no more than one helper process runs on Windows
\* (sessionManager.Get).
OneHelper == SessionTypeOK /\ \A g, h \in Helping : g = h

\* A session that works is ended by nobody but its helper and the process: a
\* connection that found another session dead does not close the one that has
\* taken its place under the connections that use it (sessionManager.Invalidate).
SessionKept ==
    [][\A h \in Helpers :
         helper[h] = "up" /\ helper'[h] # "up" => drops' > drops \/ Listening' # Listening]_allVars

=============================================================================
