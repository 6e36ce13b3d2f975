----------------------------- MODULE FileStore ------------------------------
(***************************************************************************)
(* RouteStore of internal/router/router.go: the route table in a file that *)
(* the router and every gohere command open at once.                       *)
(*                                                                         *)
(* An update holds an advisory file lock from its read to its last rename. *)
(* A load reads without the lock, and only when it finds no file takes the *)
(* lock and looks again: on Windows the file is missing for an instant in  *)
(* the middle of every update, because replaceFile first moves the old     *)
(* file aside and then moves the new one in.                               *)
(*                                                                         *)
(* The operating system drops the lock of a process that dies.  Backups    *)
(* have names of their own and nothing ever reads one that was left behind *)
(* by a crash, so a backup matters only to the process that made it.       *)
(***************************************************************************)
EXTENDS Integers

CONSTANTS
    Procs,      \* the router and the gohere commands that open the store
    Tables,     \* the contents of the file
    Empty,      \* a store without routes
    Updates,    \* update functions: the table to save, or Refused
    Refused,    \* an update function that returns an error
    Missing,    \* no such file
    Nobody      \* holder of the free lock

ASSUME FileAssumption ==
    /\ Empty \in Tables
    /\ Refused \notin Tables
    /\ Missing \notin Tables
    /\ Nobody \notin Procs
    /\ Updates # {}
    /\ Updates \subseteq [Tables -> Tables \cup {Refused}]

VARIABLES
    file,      \* routes.json
    backup,    \* [Procs -> the file that replaceFile moved aside]
    holder,    \* who holds routes.json.lock
    pc,        \* [Procs -> where the call of a process is]
    update,    \* [Procs -> the update function it was called with]
    next,      \* [Procs -> the table it is about to save]
    got,       \* [Procs -> the table its load returned]
    outcome,   \* [Procs -> what its last call reported]
    windows    \* whether replaceFile takes two renames; it never changes

vars == <<file, backup, holder, pc, update, next, got, outcome, windows>>

Steps == {"idle", "wait", "locked", "save", "gap", "saved",
          "load", "waitAgain", "loadAgain", "loaded", "failed"}

\* RouteStore.load: no file is no routes.
Contents(f) == IF f = Missing THEN Empty ELSE f

Goto(p, step) == pc' = [pc EXCEPT ![p] = step]

Init ==
    /\ file = Missing
    /\ backup = [p \in Procs |-> Missing]
    /\ holder = Nobody
    /\ pc = [p \in Procs |-> "idle"]
    /\ update = [p \in Procs |-> CHOOSE u \in Updates : TRUE]
    /\ next = [p \in Procs |-> Empty]
    /\ got = [p \in Procs |-> Empty]
    /\ outcome = [p \in Procs |-> "none"]
    /\ windows \in BOOLEAN

-----------------------------------------------------------------------------
(* Locking *)

\* Mutant: every process locks a file of its own.
Mutant_Acquire(p) ==
    /\ holder' = p
    /\ \/ pc[p] = "wait" /\ Goto(p, "locked")
       \/ pc[p] = "waitAgain" /\ Goto(p, "loadAgain")
    /\ UNCHANGED <<file, backup, update, next, got, outcome>>

Acquire(p) ==
    /\ holder = Nobody
    /\ holder' = p
    /\ \/ pc[p] = "wait" /\ Goto(p, "locked")
       \/ pc[p] = "waitAgain" /\ Goto(p, "loadAgain")
    /\ UNCHANGED <<file, backup, update, next, got, outcome>>

\* Mutant: an update waits for the lock without a deadline.
Mutant_TimeOut(p) ==
    /\ holder # Nobody
    /\ pc[p] = "waitAgain"
    /\ Goto(p, "failed")
    /\ UNCHANGED <<file, backup, holder, update, next, got, outcome>>

\* acquireStateLock gives up while another process holds the lock.
TimeOut(p) ==
    /\ holder # Nobody
    /\ pc[p] \in {"wait", "waitAgain"}
    /\ Goto(p, "failed")
    /\ UNCHANGED <<file, backup, holder, update, next, got, outcome>>

-----------------------------------------------------------------------------
(* Update *)

CallUpdate(p, u) ==
    /\ pc[p] = "idle"
    /\ Goto(p, "wait")
    /\ update' = [update EXCEPT ![p] = u]
    /\ outcome' = [outcome EXCEPT ![p] = "none"]
    /\ UNCHANGED <<file, backup, holder, next, got>>

\* Reads the file and runs the update function on it.
Modify(p) ==
    /\ pc[p] = "locked"
    /\ LET result == update[p][Contents(file)]
       IN  IF result = Refused
           THEN Goto(p, "failed") /\ UNCHANGED next
           ELSE Goto(p, "save") /\ next' = [next EXCEPT ![p] = result]
    /\ UNCHANGED <<file, backup, holder, update, got, outcome>>

\* The file cannot be read, the new one cannot be written, or the first
\* rename is refused.
GiveUp(p) ==
    /\ pc[p] \in {"locked", "save"}
    /\ Goto(p, "failed")
    /\ UNCHANGED <<file, backup, holder, update, next, got, outcome>>

\* replaceFile where one rename replaces a file.
Replace(p) ==
    /\ pc[p] = "save"
    /\ ~windows
    /\ file' = next[p]
    /\ Goto(p, "saved")
    /\ UNCHANGED <<backup, holder, update, next, got, outcome>>

\* replaceFile on Windows: the old file, if any, becomes the backup,
MoveAside(p) ==
    /\ pc[p] = "save"
    /\ windows
    /\ backup' = [backup EXCEPT ![p] = file]
    /\ file' = Missing
    /\ Goto(p, "gap")
    /\ UNCHANGED <<holder, update, next, got, outcome>>

\* and the new file takes its place,
MoveIn(p) ==
    /\ pc[p] = "gap"
    /\ file' = next[p]
    /\ Goto(p, "saved")
    /\ UNCHANGED <<backup, holder, update, next, got, outcome>>

\* or cannot, and the backup is moved back; that this may fail as well is
\* ignored.
MoveBack(p) ==
    /\ pc[p] = "gap"
    /\ file' = backup[p] \/ file' = Missing
    /\ Goto(p, "failed")
    /\ UNCHANGED <<backup, holder, update, next, got, outcome>>

-----------------------------------------------------------------------------
(* Load *)

CallLoad(p) ==
    /\ pc[p] = "idle"
    /\ Goto(p, "load")
    /\ outcome' = [outcome EXCEPT ![p] = "none"]
    /\ UNCHANGED <<file, backup, holder, update, next, got>>

\* Mutant: a missing file is no routes, at once.
Mutant_LoadUnlocked(p) ==
    /\ pc[p] = "load"
    /\ Goto(p, "loaded")
    /\ got' = [got EXCEPT ![p] = Contents(file)]
    /\ UNCHANGED <<file, backup, holder, update, next, outcome>>

\* Without the lock: whatever file is there is complete.
LoadUnlocked(p) ==
    /\ pc[p] = "load"
    /\ IF file = Missing
       THEN Goto(p, "waitAgain") /\ UNCHANGED got
       ELSE Goto(p, "loaded") /\ got' = [got EXCEPT ![p] = file]
    /\ UNCHANGED <<file, backup, holder, update, next, outcome>>

LoadLocked(p) ==
    /\ pc[p] = "loadAgain"
    /\ Goto(p, "loaded")
    /\ got' = [got EXCEPT ![p] = Contents(file)]
    /\ UNCHANGED <<file, backup, holder, update, next, outcome>>

LoadFails(p) ==
    /\ pc[p] \in {"load", "loadAgain"}
    /\ Goto(p, "failed")
    /\ UNCHANGED <<file, backup, holder, update, next, got, outcome>>

-----------------------------------------------------------------------------
(* Return and crash *)

\* Mutant: only the deferred unlock frees the lock.
Mutant_Released(p) ==
    IF holder = p /\ pc[p] \in {"saved", "loaded", "failed"} THEN Nobody ELSE holder

Released(p) == IF holder = p THEN Nobody ELSE holder

\* The deferred unlock.  The Chmod at the end of save may fail.
Return(p) ==
    /\ pc[p] \in {"saved", "loaded", "failed"}
    /\ \E o \in {"ok", "error"} :
          /\ o = "ok" => pc[p] # "failed"
          /\ o = "error" => pc[p] # "loaded"
          /\ outcome' = [outcome EXCEPT ![p] = o]
    /\ Goto(p, "idle")
    /\ holder' = Released(p)
    /\ backup' = [backup EXCEPT ![p] = Missing]
    /\ UNCHANGED <<file, update, next, got>>

Crash(p) ==
    /\ pc[p] # "idle"
    /\ Goto(p, "idle")
    /\ holder' = Released(p)
    /\ backup' = [backup EXCEPT ![p] = Missing]
    /\ outcome' = [outcome EXCEPT ![p] = "none"]
    /\ UNCHANGED <<file, update, next, got>>

-----------------------------------------------------------------------------

\* What a process does once it has been called.
Run(p) ==
    /\ \/ Acquire(p) \/ TimeOut(p)
       \/ Modify(p) \/ GiveUp(p) \/ Replace(p)
       \/ MoveAside(p) \/ MoveIn(p) \/ MoveBack(p)
       \/ LoadUnlocked(p) \/ LoadLocked(p) \/ LoadFails(p)
       \/ Return(p)
    /\ UNCHANGED windows

Call(p) == CallLoad(p) \/ \E u \in Updates : CallUpdate(p, u)

Next ==
    \E p \in Procs :
        \/ Run(p)
        \/ (Call(p) \/ Crash(p)) /\ UNCHANGED windows

Spec == Init /\ [][Next]_vars

\* A process that has been called is scheduled until it returns.
FairSpec == Spec /\ \A p \in Procs : WF_vars(Run(p))

-----------------------------------------------------------------------------
(* What the file store promises *)

\* The processes that have moved the old file aside and put nothing in its place.
InGap(at) == {p \in Procs : at[p] = "gap"}

\* The table that callers see, of a file, the backups and the program counters.
TableOf(f, b, at) ==
    IF InGap(at) = {} THEN Contents(f) ELSE Contents(b[CHOOSE p \in InGap(at) : TRUE])

Table == TableOf(file, backup, pc)

PhaseOf(step) ==
    CASE step = "idle" -> "idle"
      [] step \in {"wait", "locked", "save", "gap"} -> "update"
      [] step = "saved" -> "applied"
      [] step \in {"load", "waitAgain", "loadAgain"} -> "load"
      [] step = "loaded" -> "read"
      [] step = "failed" -> "failed"

Phase == [p \in Procs |-> PhaseOf(pc[p])]

Abstract == INSTANCE AtomicStore
              WITH table <- Table, phase <- Phase, lossy <- windows

\* Updates and loads of any processes take effect one at a time, each at one
\* instant, although loads take no lock and, on Windows, the file disappears in
\* the middle of an update.  On Windows a crash or a second failed rename in
\* that gap may lose the table, and nothing else may.
Linearizable == Abstract!Spec

TypeOK ==
    /\ file \in Tables \cup {Missing}
    /\ backup \in [Procs -> Tables \cup {Missing}]
    /\ holder \in Procs \cup {Nobody}
    /\ pc \in [Procs -> Steps]
    /\ update \in [Procs -> Updates]
    /\ next \in [Procs -> Tables]
    /\ got \in [Procs -> Tables]
    /\ outcome \in [Procs -> {"none", "ok", "error"}]
    /\ windows \in BOOLEAN

\* Only the process that holds the lock is between its read of the file and its
\* last rename, and the table has not changed since it read it.
Critical == {"locked", "save", "gap", "saved", "loadAgain"}

WriterOwnsTable ==
    \A p \in Procs :
        /\ pc[p] \in Critical => holder = p
        /\ pc[p] \in {"save", "gap"} => next[p] = update[p][Table]
        /\ pc[p] = "gap" => file = Missing /\ windows

\* A call returns, or its process dies: a process that holds the lock does not
\* keep the others waiting for ever.
CallsReturn == \A p \in Procs : pc[p] # "idle" ~> pc[p] = "idle"

\* Whoever takes the lock gives it back, also by dying.
LockReleased == \A p \in Procs : holder = p ~> holder # p

=============================================================================
