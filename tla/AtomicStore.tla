---------------------------- MODULE AtomicStore -----------------------------
(***************************************************************************)
(* What the callers of router.Store rely on: a table that each call reads  *)
(* or updates at one instant between its start and its return.             *)
(*                                                                         *)
(* An update that reports success was applied once.  One that reports an   *)
(* error may have been applied too: RouteStore.save reports a Chmod of the *)
(* new file that failed.  A caller that crashes leaves its update applied  *)
(* or not, never half of it.                                               *)
(***************************************************************************)
EXTENDS Integers

CONSTANTS
    Procs,      \* the router and the gohere commands that open the store
    Tables,     \* the contents of the store
    Empty,      \* a store without routes
    Updates,    \* update functions: the table to save, or Refused
    Refused     \* an update function that returns an error

VARIABLES
    table,     \* the contents of the store
    phase,     \* [Procs -> how far the call of a process is]
    update,    \* [Procs -> the update it asked for]
    got,       \* [Procs -> the table its load returned]
    outcome,   \* [Procs -> what its last call reported]
    lossy      \* whether the table may be lost

vars == <<table, phase, update, got, outcome, lossy>>

Phases == {"idle", "update", "applied", "load", "read", "failed"}

Init ==
    /\ table = Empty
    /\ phase = [p \in Procs |-> "idle"]
    /\ update = [p \in Procs |-> CHOOSE u \in Updates : TRUE]
    /\ got = [p \in Procs |-> Empty]
    /\ outcome = [p \in Procs |-> "none"]
    /\ lossy \in BOOLEAN

CallUpdate(p, u) ==
    /\ phase[p] = "idle"
    /\ phase' = [phase EXCEPT ![p] = "update"]
    /\ update' = [update EXCEPT ![p] = u]
    /\ outcome' = [outcome EXCEPT ![p] = "none"]
    /\ UNCHANGED <<table, got>>

CallLoad(p) ==
    /\ phase[p] = "idle"
    /\ phase' = [phase EXCEPT ![p] = "load"]
    /\ outcome' = [outcome EXCEPT ![p] = "none"]
    /\ UNCHANGED <<table, update, got>>

Apply(p) ==
    /\ phase[p] = "update"
    /\ update[p][table] # Refused
    /\ table' = update[p][table]
    /\ phase' = [phase EXCEPT ![p] = "applied"]
    /\ UNCHANGED <<update, got, outcome>>

Read(p) ==
    /\ phase[p] = "load"
    /\ got' = [got EXCEPT ![p] = table]
    /\ phase' = [phase EXCEPT ![p] = "read"]
    /\ UNCHANGED <<table, update, outcome>>

Fail(p) ==
    /\ phase[p] \in {"update", "load"}
    /\ phase' = [phase EXCEPT ![p] = "failed"]
    /\ UNCHANGED <<table, update, got, outcome>>

Return(p) ==
    /\ phase[p] \in {"applied", "read", "failed"}
    /\ \E o \in {"ok", "error"} :
          /\ o = "ok" => phase[p] # "failed"
          /\ outcome' = [outcome EXCEPT ![p] = o]
    /\ phase' = [phase EXCEPT ![p] = "idle"]
    /\ UNCHANGED <<table, update, got>>

\* A process stops; the table is lost with it only if the store is lossy.
Crash(p) ==
    /\ phase' = [phase EXCEPT ![p] = "idle"]
    /\ outcome' = [outcome EXCEPT ![p] = "none"]
    /\ \/ UNCHANGED table
       \/ lossy /\ table' = Empty
    /\ UNCHANGED <<update, got>>

\* A failed replacement that could not be undone.
Lose(p) ==
    /\ lossy
    /\ phase[p] = "update"
    /\ table' = Empty
    /\ phase' = [phase EXCEPT ![p] = "failed"]
    /\ UNCHANGED <<update, got, outcome>>

Step(p) ==
    \/ \E u \in Updates : CallUpdate(p, u)
    \/ CallLoad(p) \/ Apply(p) \/ Read(p) \/ Fail(p) \/ Return(p)
    \/ Crash(p) \/ Lose(p)

Next == UNCHANGED lossy /\ \E p \in Procs : Step(p)

Spec == Init /\ [][Next]_vars

=============================================================================
