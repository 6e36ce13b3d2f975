------------------------------ MODULE WSLEdge -------------------------------
(***************************************************************************)
(* The loopback edge of a WSL distribution: the process that listens on    *)
(* ports 80 and 443 and forwards to the router on Windows, the lock file   *)
(* by which it is found and stopped, what gohere setup installs for it,    *)
(* and the gohere commands that reuse, replace, restore, stop and remove   *)
(* it from other processes at any time.                                    *)
(*                                                                         *)
(* An edge is a number, in the order of their starts; its record in the    *)
(* lock file holds its process ID with the time of its start, so that the  *)
(* number is the record.  An edge has the version of its binary and that   *)
(* of the companion it was given.  All its listeners are one.              *)
(***************************************************************************)
EXTENDS Integers, FiniteSets

CONSTANTS
    Edges,      \* bound: edge processes, 1 .. n
    Commands,   \* gohere commands, each called once
    Versions,   \* versions of gohere that the commands may have
    None,       \* no version
    MaxFaults   \* bound: crashes, interrupts, time-outs, losses of the router

ASSUME EdgeAssumption ==
    /\ Edges \subseteq Nat \ {0} /\ 1 \in Edges
    /\ Versions # {} /\ None \notin Versions
    /\ MaxFaults \in Nat

\* A run that needs the public URL, gohere setup, gohere uninstall.
Kinds == {"run", "setup", "uninstall"}

VARIABLES
    edge,      \* [Edges -> phase, versions, attempts at the lock, told to end]
    lock,      \* edge.lock: the edge that created it and whether it is written
    metadata,  \* metadata.json: the version of the installed edge
    staged,    \* the versions whose binaries are in the bin directory
    windows,   \* the router on Windows answers as the one that is expected
    reach,     \* the ports of Windows that WSL reaches by its own loopback
    good,      \* the versions whose edges reach Windows
    alone,     \* commands are called one after the other
    cmd,       \* [Commands -> where the command is and what it has seen]
    faults     \* faults so far

files == <<lock, metadata, staged>>
world == <<reach, good, alone>>
vars == <<edge, files, windows, world, cmd, faults>>

Another == faults < MaxFaults /\ faults' = faults + 1

-----------------------------------------------------------------------------
(* Edges *)

Phase(e) == edge[e].phase
Is(phases) == {e \in Edges : Phase(e) \in phases}

Starting == {"begun", "open", "made", "look", "unlink", "listen"}
Living == Edges \ Is({"none", "gone"})
Listening == Is({"serving"})

\* A connection to an edge that has been told to end is not forwarded.
Forwards == {e \in Listening : ~edge[e].told /\ edge[e].binary \in good}

\* http://127.0.0.1 leads to the edge, or else to what Windows lends it.
Reachable ==
    /\ windows
    /\ IF Listening # {} THEN Forwards # {} ELSE "public" \in reach

NoLock == [by |-> 0, written |-> FALSE]
Record(e) == [by |-> e, written |-> TRUE]

Goes(e, phase) == edge' = [edge EXCEPT ![e].phase = phase]

\* edgeProcessOwnerMatches: the record names a process that still runs.
Owned == lock.written /\ lock.by \in Living

\* verifiedRunningInfo: its binary is still in the bin directory.
Verified(e) == edge[e].binary \in staged

NotStarted ==
    [phase |-> "none", binary |-> None, companion |-> None, tries |-> 0, told |-> FALSE]

\* calm is for the properties only: the faults before a call that finds nothing
\* in its way, or more than there are.
NotCalled ==
    [kind |-> "none", step |-> "idle", version |-> None, want |-> None, seen |-> 0,
     target |-> 0, then |-> "none", installed |-> FALSE, cancelled |-> FALSE,
     calm |-> 0, result |-> "none"]

\* The lock can be read, and no edge is about to end.
Ready == (lock.written \/ lock = NoLock) /\ \A e \in Living : ~edge[e].told

Fresh(e) == Phase(e) = "none" /\ \A f \in Edges : f < e => Phase(f) # "none"

\* Nothing is installed yet, or an edge serves.
Init ==
    /\ \E v \in Versions, first \in BOOLEAN :
        /\ edge = [e \in Edges |->
                     IF first /\ e = 1
                     THEN [NotStarted EXCEPT !.phase = "serving", !.binary = v, !.companion = v]
                     ELSE NotStarted]
        /\ lock = IF first THEN Record(1) ELSE NoLock
        /\ metadata = IF first THEN v ELSE None
        /\ staged = IF first THEN {v} ELSE {}
    /\ windows = TRUE
    /\ reach \in {{}, {"admin"}, {"admin", "public"}}
    /\ alone \in BOOLEAN
    /\ good \in {g \in SUBSET Versions : alone \/ g = Versions}
    /\ cmd = [c \in Commands |-> NotCalled]
    /\ faults = 0

\* Serve reads its own binary before anything else.
Begin(e) ==
    /\ Phase(e) = "begun"
    /\ Goes(e, IF Verified(e) THEN "open" ELSE "gone")
    /\ UNCHANGED <<files, windows, world, cmd, faults>>

\* acquireEdgeLock creates the file, and writes it in the next step.
Open(e) ==
    /\ Phase(e) = "open"
    /\ IF lock = NoLock
         THEN lock' = [by |-> e, written |-> FALSE] /\ Goes(e, "made")
         ELSE Goes(e, "look") /\ UNCHANGED lock
    /\ UNCHANGED <<metadata, staged, windows, world, cmd, faults>>

\* Who has lost the file meanwhile writes one that has no name.
Write(e) ==
    /\ Phase(e) = "made"
    /\ lock' = IF lock.by = e THEN Record(e) ELSE lock
    /\ Goes(e, "listen")
    /\ UNCHANGED <<metadata, staged, windows, world, cmd, faults>>

\* Mutant: a record is enough, whether its process runs or not.
Mutant_Look(e) ==
    /\ Phase(e) = "look"
    /\ Goes(e, IF lock.written THEN "gone" ELSE "unlink")
    /\ UNCHANGED <<files, windows, world, cmd, faults>>

\* A record that cannot be read is as good as one of a process that has ended.
Look(e) ==
    /\ Phase(e) = "look"
    /\ Goes(e, IF Owned THEN "gone" ELSE "unlink")
    /\ UNCHANGED <<files, windows, world, cmd, faults>>

\* After the second attempt it takes the lock for held.
Unlink(e) ==
    /\ Phase(e) = "unlink"
    /\ lock' = NoLock
    /\ edge' = [edge EXCEPT ![e].tries = @ + 1,
                            ![e].phase = IF edge[e].tries = 0 THEN "open" ELSE "gone"]
    /\ UNCHANGED <<metadata, staged, windows, world, cmd, faults>>

Listen(e) ==
    /\ Phase(e) = "listen"
    /\ Goes(e, IF Listening = {} THEN "serving" ELSE "release")
    /\ UNCHANGED <<files, windows, world, cmd, faults>>

\* The context of a process that is told to end is cancelled, and Serve returns.
End(e) ==
    /\ Phase(e) = "serving" /\ edge[e].told
    /\ Goes(e, "release")
    /\ UNCHANGED <<files, windows, world, cmd, faults>>

\* Release removes the file if the record in it is its own.
Release(e) ==
    /\ Phase(e) = "release"
    /\ Goes(e, IF lock = Record(e) THEN "erase" ELSE "gone")
    /\ UNCHANGED <<files, windows, world, cmd, faults>>

Erase(e) ==
    /\ Phase(e) = "erase"
    /\ lock' = NoLock
    /\ Goes(e, "gone")
    /\ UNCHANGED <<metadata, staged, windows, world, cmd, faults>>

Crash(e) ==
    /\ e \in Living
    /\ Another
    /\ Goes(e, "gone")
    /\ UNCHANGED <<files, windows, world, cmd>>

WindowsStops ==
    /\ windows
    /\ Another
    /\ windows' = FALSE
    /\ UNCHANGED <<edge, files, world, cmd>>

-----------------------------------------------------------------------------
(* Commands *)

At(c, kinds, step) == cmd[c].kind \in kinds /\ cmd[c].step = step

Settled == Living \subseteq Listening
Over(c) == cmd[c].step = "over"

To(c, step) == cmd' = [cmd EXCEPT ![c].step = step]
Ends(c, result) ==
    cmd' = [cmd EXCEPT ![c] = [NotCalled EXCEPT !.kind = cmd[c].kind, !.calm = cmd[c].calm,
                                                !.step = "over", !.result = result]]
Fails(c) == Ends(c, "failed")

\* A call of Stop that goes on with a step if it succeeds.
Stops(c, next) == [cmd EXCEPT ![c].step = "stop", ![c].then = next]

\* What a cancelled command asks over the network fails.
Finds(c) == Reachable /\ ~cmd[c].cancelled

Call(c) ==
    /\ cmd[c] = NotCalled
    /\ alone => Settled /\ \A d \in Commands : cmd[d] = NotCalled \/ Over(d)
    /\ \E kind \in Kinds, v \in Versions :
         cmd' = [cmd EXCEPT ![c] =
                   [NotCalled EXCEPT !.kind = kind, !.version = v,
                      !.calm = IF alone /\ Ready THEN faults ELSE MaxFaults + 1,
                      !.step = CASE kind = "run"       -> "identify"
                                 [] kind = "setup"     -> "stage"
                                 [] kind = "uninstall" -> "stop",
                      !.then = IF kind = "uninstall" THEN "remove" ELSE "none"]]
    /\ UNCHANGED <<edge, files, windows, world, faults>>

Interrupt(c) ==
    /\ cmd[c].kind = "run" /\ ~Over(c) /\ ~cmd[c].cancelled
    /\ Another
    /\ cmd' = [cmd EXCEPT ![c].cancelled = TRUE]
    /\ UNCHANGED <<edge, files, windows, world>>

\* ensureWSLRunIdentity: metadata of another version calls for a setup, once,
\* unless the user declines.
Identify(c) ==
    /\ At(c, {"run"}, "identify")
    /\ \/ metadata = cmd[c].version /\ To(c, "inspect")
       \/ metadata # cmd[c].version /\ ~cmd[c].installed /\ To(c, "stage")
       \/ metadata # cmd[c].version /\ Ends(c, IF cmd[c].installed THEN "failed" ELSE "declined")
    /\ UNCHANGED <<edge, files, windows, world, faults>>

\* installWSLIntegration: the binary first, the metadata last.
Stage(c) ==
    /\ At(c, {"run", "setup"}, "stage")
    /\ staged' = staged \cup {cmd[c].version}
    /\ To(c, "install")
    /\ UNCHANGED <<edge, lock, metadata, windows, world, faults>>

Install(c) ==
    /\ At(c, {"run", "setup"}, "install")
    /\ metadata' = cmd[c].version
    /\ IF cmd[c].kind = "run"
         THEN cmd' = [cmd EXCEPT ![c].step = "identify", ![c].installed = TRUE]
         ELSE Ends(c, "installed")
    /\ UNCHANGED <<edge, lock, staged, windows, world, faults>>

\* Inspect: a lock that cannot be read, or names a process that cannot be
\* verified, is an error in the end.
Inspect(c) ==
    /\ At(c, {"run"}, "inspect")
    /\ IF lock # NoLock /\ ~(lock.written /\ (Owned => Verified(lock.by)))
         THEN Fails(c)
         ELSE cmd' = [cmd EXCEPT ![c].seen = IF Owned THEN lock.by ELSE 0, ![c].step = "probe"]
    /\ UNCHANGED <<edge, files, windows, world, faults>>

\* With a direct path to the router no edge is needed.
Probe(c) ==
    /\ At(c, {"run"}, "probe")
    /\ IF windows /\ "admin" \in reach /\ ~cmd[c].cancelled
         THEN IF cmd[c].seen # 0 THEN cmd' = Stops(c, "validate") ELSE To(c, "validate")
         ELSE To(c, "choose")
    /\ UNCHANGED <<edge, files, windows, world, faults>>

Validate(c) ==
    /\ At(c, {"run"}, "validate")
    /\ \/ Finds(c) /\ Ends(c, "direct")
       \/ ~Finds(c) /\ cmd[c].seen # 0 /\ To(c, "restore")
       \/ ~Finds(c) /\ cmd[c].seen = 0 /\ Fails(c)
    /\ UNCHANGED <<edge, files, windows, world, faults>>

\* The edge that the metadata names now; a running one of the same versions
\* is kept if it leads to the router, and replaced otherwise.
Choose(c) ==
    /\ At(c, {"run"}, "choose")
    /\ LET e == cmd[c].seen
           same == e # 0 /\ edge[e].binary = metadata /\ edge[e].companion = cmd[c].version
       IN  \/ metadata \notin staged /\ Fails(c)
           \/ metadata \in staged /\ same /\ Finds(c) /\ Ends(c, "edge")
           \/ /\ metadata \in staged /\ ~(same /\ Finds(c))
              /\ cmd' = [cmd EXCEPT ![c].want = metadata, ![c].then = "launch",
                                    ![c].step = IF e # 0 THEN "stop" ELSE "launch"]
    /\ UNCHANGED <<edge, files, windows, world, faults>>

\* StartDetached.
CanStart(c, v) == ~cmd[c].cancelled /\ v \in staged

Starts(v, companion) ==
    \E e \in Edges :
        /\ Fresh(e)
        /\ edge' = [edge EXCEPT ![e].phase = "begun", ![e].binary = v, ![e].companion = companion]

Launch(c) ==
    /\ At(c, {"run"}, "launch")
    /\ \/ CanStart(c, cmd[c].want) /\ Starts(cmd[c].want, cmd[c].version) /\ To(c, "wait")
       \/ ~CanStart(c, cmd[c].want) /\ To(c, "rollback") /\ UNCHANGED edge
    /\ UNCHANGED <<files, windows, world, faults>>

\* Commands that have yet to start an edge for the one they stop.
Replacing ==
    {c \in Commands :
        \/ cmd[c].step \in {"stop", "judge", "stopping", "clear", "sweep"} /\ cmd[c].kind = "run"
        \/ cmd[c].step \in {"launch", "rollback", "restore"}}

\* Ten seconds are enough for an edge, and for a command, on their way.
GivesUp(c) ==
    \/ cmd[c].cancelled
    \/ ~Reachable /\ Is(Starting) = {} /\ Replacing = {}

Wait(c) ==
    /\ At(c, {"run"}, "wait")
    /\ \/ Finds(c) /\ Ends(c, "edge")
       \/ GivesUp(c) /\ cmd' = Stops(c, "rollback")
    /\ UNCHANGED <<edge, files, windows, world, faults>>

\* Mutant: a failed replacement is stopped and nothing put in its place.
Mutant_Rollback(c) ==
    /\ At(c, {"run"}, "rollback")
    /\ Fails(c)
    /\ UNCHANGED <<edge, files, windows, world, faults>>

Rollback(c) ==
    /\ At(c, {"run"}, "rollback")
    /\ IF cmd[c].seen # 0 THEN To(c, "restore") ELSE Fails(c)
    /\ UNCHANGED <<edge, files, windows, world, faults>>

\* restoreWSLEdge: the run fails, however this goes.
Restore(c) ==
    /\ At(c, {"run"}, "restore")
    /\ LET e == cmd[c].seen
       IN  \/ /\ CanStart(c, edge[e].binary)
              /\ Starts(edge[e].binary, edge[e].companion)
              /\ To(c, "restored")
           \/ ~CanStart(c, edge[e].binary) /\ Fails(c) /\ UNCHANGED edge
    /\ UNCHANGED <<files, windows, world, faults>>

Restored(c) ==
    /\ At(c, {"run"}, "restored")
    /\ Finds(c) \/ GivesUp(c)
    /\ Fails(c)
    /\ UNCHANGED <<edge, files, windows, world, faults>>

\* Stop reads the lock, ...
StopReads(c) ==
    /\ cmd[c].step = "stop"
    /\ \/ lock = NoLock /\ To(c, cmd[c].then)
       \/ lock # NoLock /\ ~lock.written /\ Fails(c)
       \/ lock.written /\ cmd' = [cmd EXCEPT ![c].target = lock.by, ![c].step = "judge"]
    /\ UNCHANGED <<edge, files, windows, world, faults>>

\* ... tells the process that it names to end, if it is the edge, ...
StopSignals(c) ==
    /\ cmd[c].step = "judge"
    /\ LET e == cmd[c].target
       IN  \/ e \notin Living /\ To(c, "sweep") /\ UNCHANGED edge
           \/ e \in Living /\ ~Verified(e) /\ Fails(c) /\ UNCHANGED edge
           \/ /\ e \in Living /\ Verified(e)
              /\ edge' = [edge EXCEPT ![e].told = TRUE]
              /\ To(c, "stopping")
    /\ UNCHANGED <<files, windows, world, faults>>

\* Mutant: Stop does not wait for the process that it has told to end.
Mutant_StopWaits(c) ==
    /\ cmd[c].step = "stopping"
    /\ To(c, "clear")
    /\ UNCHANGED <<edge, files, windows, world, faults>>

\* ... waits for three seconds, ...
StopWaits(c) ==
    /\ cmd[c].step = "stopping"
    /\ cmd[c].target \notin Living
    /\ To(c, "clear")
    /\ UNCHANGED <<edge, files, windows, world, faults>>

StopTimesOut(c) ==
    /\ cmd[c].step = "stopping"
    /\ cmd[c].target \in Living
    /\ Another
    /\ Fails(c)
    /\ UNCHANGED <<edge, files, windows, world>>

\* ... and removes the file, whosever it is by now; that there is none is an
\* error only if there was no process to stop.
StopClears(c) ==
    /\ cmd[c].step \in {"clear", "sweep"}
    /\ lock' = NoLock
    /\ IF cmd[c].step = "sweep" /\ lock = NoLock THEN Fails(c) ELSE To(c, cmd[c].then)
    /\ UNCHANGED <<edge, metadata, staged, windows, world, faults>>

\* uninstallWSLIntegration ends with the whole directory, the lock included.
Remove(c) ==
    /\ At(c, {"uninstall"}, "remove")
    /\ lock' = NoLock /\ metadata' = None /\ staged' = {}
    /\ Ends(c, "removed")
    /\ UNCHANGED <<edge, windows, world, faults>>

RemoveFails(c) ==
    /\ At(c, {"uninstall"}, "remove")
    /\ Another
    /\ Fails(c)
    /\ UNCHANGED <<edge, files, windows, world>>

-----------------------------------------------------------------------------

EdgeStep(e) ==
    \/ Begin(e) \/ Open(e) \/ Write(e) \/ Look(e) \/ Unlink(e) \/ Listen(e)
    \/ Release(e) \/ Erase(e)

CommandStep(c) ==
    \/ Identify(c) \/ Stage(c) \/ Install(c) \/ Inspect(c) \/ Probe(c)
    \/ Validate(c) \/ Choose(c) \/ Launch(c) \/ Wait(c) \/ Rollback(c) \/ Restore(c)
    \/ Restored(c) \/ StopReads(c) \/ StopSignals(c) \/ StopWaits(c) \/ StopClears(c)
    \/ Remove(c) \/ Interrupt(c) \/ StopTimesOut(c) \/ RemoveFails(c)

AllDone == (\A c \in Commands : Over(c)) /\ Settled

Next ==
    \/ \E e \in Edges : EdgeStep(e) \/ End(e) \/ Crash(e)
    \/ \E c \in Commands : Call(c) \/ CommandStep(c)
    \/ WindowsStops
    \/ AllDone /\ UNCHANGED vars

Spec == Init /\ [][Next]_vars

-----------------------------------------------------------------------------
(* Properties *)

Phases == Starting \cup {"none", "serving", "release", "erase", "gone"}
Steps ==
    {"idle", "identify", "stage", "install", "inspect", "probe", "validate", "choose",
     "launch", "wait", "rollback", "restore", "restored", "stop", "judge", "stopping",
     "clear", "sweep", "remove", "over"}
Results == {"none", "edge", "direct", "installed", "removed", "declined", "failed"}

Version == Versions \cup {None}
Maybe == Edges \cup {0}

Process ==
    [phase : Phases, binary : Version, companion : Version, tries : 0 .. 2, told : BOOLEAN]

Invocation ==
    [kind : Kinds \cup {"none"}, step : Steps, version : Version, want : Version, seen : Maybe,
     target : Maybe, then : {"none", "validate", "launch", "rollback", "remove"},
     installed : BOOLEAN, cancelled : BOOLEAN, calm : 0 .. MaxFaults + 1, result : Results]

\* Every variable has its type.
Typed ==
    /\ edge \in [Edges -> Process]
    /\ lock \in [by : Maybe, written : BOOLEAN]
    /\ metadata \in Version /\ staged \subseteq Versions
    /\ windows \in BOOLEAN /\ alone \in BOOLEAN
    /\ reach \subseteq {"admin", "public"} /\ good \subseteq Versions
    /\ cmd \in [Commands -> Invocation]
    /\ faults \in 0 .. MaxFaults

\* What a run has found to lead to the router still leads there when all is
\* quiet: whatever other runs replace, stop and restore on top of each other,
\* and although a version may be installed whose edge does not work
\* (ensureWSLPublicTransport and its rollback), as long as nothing fails and
\* nothing is removed.
TransportKept ==
    (/\ AllDone /\ faults = 0
     /\ \A c \in Commands : cmd[c].result # "removed"
     /\ \E c \in Commands : cmd[c].result \in {"edge", "direct"})
       => Reachable

\* One failure, such as the crash of an edge at any of its steps or a run that
\* was interrupted while it replaced one, does not make the next run fail: its
\* Inspect, Stop and acquireEdgeLock find their way past what is left behind.
\* Left out are a lock that was created and never written, which every command
\* refuses, and a WSL that reaches only one of the two ports of the router.
RunRecovers ==
    \A c \in Commands :
        /\ cmd[c].kind = "run" /\ cmd[c].calm = faults
        /\ windows /\ good = Versions /\ reach # {"admin"}
        => cmd[c].result # "failed"

\* gohere uninstall "removes the WSL edge": none runs when it removes the
\* directory with its lock and its binary, if commands come one after the other
\* and no more than one thing has failed. With two faults a Stop that has found
\* the lock of a crashed edge stale may remove the file only after the edge that
\* is coming up has put its own lock there: no uninstall finds that edge then.
UninstallRemovesEdge ==
    [][alone /\ faults <= 1 => \A c \in Commands : Remove(c) => Living = {}]_vars

=============================================================================
