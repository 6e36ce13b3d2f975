--------------------------- MODULE RouterProcess ----------------------------
(***************************************************************************)
(* The router as a process: router.Start and Running.Close, the records of *)
(* runtime_records.go that name the running router, and the commands that  *)
(* start, stop, set up and uninstall it from other processes at any time.  *)
(*                                                                         *)
(* A router process is a number, in the order of their starts, and so are  *)
(* its process ID and its instance ID.  The ID of a router that has ended  *)
(* may name another program later, but no other router: that an ID comes   *)
(* round to a router while a command still holds it is left out.  The HTTP *)
(* and the HTTPS port are one.  What is done to the records under their    *)
(* lock is one step, except that a router writes two of them; what the two *)
(* renames do that replace a file on Windows is in FileStore.              *)
(***************************************************************************)
EXTENDS Integers

CONSTANTS
    Routers,    \* bound: router processes, 1 .. n
    Commands,   \* gohere commands, each called once
    MaxFaults   \* bound: crashes, failed and interrupted steps, reboots

ASSUME RouterAssumption ==
    /\ Routers \subseteq Nat \ {0} /\ 1 \in Routers
    /\ MaxFaults \in Nat

\* A command that needs a router (ensureRouter), gohere service stop, a stop
\* followed by a setup, gohere uninstall.
Kinds == {"run", "stop", "refresh", "uninstall"}

VARIABLES
    proc,      \* [Routers -> phase, started by systemd, told to end, and
               \*  whether its token is the one on disk]
    pid,       \* router.pid
    old,       \* router.pid was written before the last boot
    instance,  \* router.instance
    disk,      \* the installed binary and the state directory
    systemd,   \* whether setup finds a systemd
    unit,      \* its unit for the router
    cmd,       \* [Commands -> where the command is and what it has seen]
    faults     \* faults so far

records == <<pid, old, instance>>
service == <<systemd, unit>>
vars == <<proc, records, disk, service, cmd, faults>>

None == 0

Another == faults < MaxFaults /\ faults' = faults + 1

-----------------------------------------------------------------------------
(* Processes *)

Phase(r) == proc[r].phase
Is(phases) == {r \in Routers : Phase(r) \in phases}

Ended == {"none", "gone", "failed"}
HTTPOpen == {"http", "bound", "publishing", "serving", "closing"}
AdminOpen == {"bound", "publishing", "serving", "closing", "drained"}
OnItsWay == {"begun", "http", "bound", "publishing", "serving"}

Living == Routers \ Is(Ended)
Serving == Is({"serving"})
Managed == {r \in Living : proc[r].managed}

\* Until its admin server is shut down a router answers, also while it closes.
Answering == Is({"serving", "closing", "drained"})
Healthy == Answering # {}

Locked == Is({"publishing"}) # {}

Fresh(r) == Phase(r) = "none" /\ \A q \in Routers : q < r => Phase(q) # "none"

Begun(managed) ==
    [phase |-> "begun", managed |-> managed, told |-> FALSE, token |-> FALSE]

Goes(r, phase) == proc' = [proc EXCEPT ![r].phase = phase]

NotStarted == [phase |-> "none", managed |-> FALSE, told |-> FALSE, token |-> FALSE]
NotCalled ==
    [kind |-> "none", step |-> "idle", saw |-> None, found |-> "absent", boot |-> FALSE,
     accepted |-> FALSE, manager |-> "none", target |-> None, again |-> FALSE,
     before |-> {}]

\* Nothing is installed yet, or a router serves.
Init ==
    /\ systemd \in BOOLEAN
    /\ \/ /\ proc = [r \in Routers |-> NotStarted]
          /\ pid = None /\ instance = None /\ unit = "none"
          /\ disk = [binary |-> FALSE, state |-> FALSE]
       \/ /\ proc = [r \in Routers |->
                       IF r = 1 THEN [Begun(systemd) EXCEPT !.phase = "serving", !.token = TRUE]
                       ELSE NotStarted]
          /\ pid = 1 /\ instance = 1
          /\ unit = IF systemd THEN "active" ELSE "none"
          /\ disk = [binary |-> TRUE, state |-> TRUE]
    /\ old = FALSE
    /\ cmd = [c \in Commands |-> NotCalled]
    /\ faults = 0

-----------------------------------------------------------------------------
(* Start: the ports are taken one after the other, then the records written *)

\* EnsureToken, then the HTTP listeners.
ListenHTTP(r) ==
    /\ Phase(r) = "begun"
    /\ proc' = [proc EXCEPT ![r].phase = IF Is(HTTPOpen) = {} THEN "http" ELSE "failed",
                            ![r].token = TRUE]
    /\ disk' = [disk EXCEPT !.state = TRUE]
    /\ UNCHANGED <<records, service, cmd, faults>>

ListenAdmin(r) ==
    /\ Phase(r) = "http"
    /\ Goes(r, IF Is(AdminOpen) = {} THEN "bound" ELSE "failed")
    /\ UNCHANGED <<records, disk, service, cmd, faults>>

PublishPID(r) ==
    /\ Phase(r) = "bound" /\ ~Locked
    /\ Goes(r, "publishing")
    /\ pid' = r /\ old' = FALSE
    /\ UNCHANGED <<instance, disk, service, cmd, faults>>

PublishInstance(r) ==
    /\ Phase(r) = "publishing"
    /\ Goes(r, "serving")
    /\ instance' = r
    /\ UNCHANGED <<pid, old, disk, service, cmd, faults>>

\* It takes the first record back; the second may be there all the same.
PublishFails(r) ==
    /\ Phase(r) = "publishing"
    /\ Another
    /\ Goes(r, "failed")
    /\ pid' = IF pid = r THEN None ELSE pid
    /\ instance' \in {instance, r}
    /\ UNCHANGED <<old, disk, service, cmd>>

-----------------------------------------------------------------------------
(* Close: the ports are free before the records are released *)

\* The context of a router that was told to end closes it.
CloseTold(r) ==
    /\ Phase(r) = "serving" /\ proc[r].told
    /\ Goes(r, "closing")
    /\ UNCHANGED <<records, disk, service, cmd, faults>>

CloseHTTP(r) ==
    /\ Phase(r) = "closing"
    /\ Goes(r, "drained")
    /\ UNCHANGED <<records, disk, service, cmd, faults>>

CloseAdmin(r) ==
    /\ Phase(r) = "drained"
    /\ Goes(r, "closed")
    /\ UNCHANGED <<records, disk, service, cmd, faults>>

\* Mutant: whatever records there are, they are removed.
Mutant_Release(r) ==
    /\ Phase(r) = "closed" /\ ~Locked
    /\ Goes(r, "gone")
    /\ pid' = None /\ instance' = None
    /\ UNCHANGED <<old, disk, service, cmd, faults>>

\* releaseRuntimeRecords: only what is still its own.
Release(r) ==
    /\ Phase(r) = "closed" /\ ~Locked
    /\ Goes(r, "gone")
    /\ pid' = IF pid = r THEN None ELSE pid
    /\ instance' = IF instance = r THEN None ELSE instance
    /\ UNCHANGED <<old, disk, service, cmd, faults>>

\* main returns as soon as the process is told to end, whatever Close has done
\* by then; on Windows the process is ended from outside.
Obey(r) ==
    /\ r \in Living /\ proc[r].told
    /\ Goes(r, "gone")
    /\ UNCHANGED <<records, disk, service, cmd, faults>>

\* A crash, an error of Start that is not about ports or records, or a release
\* that does not get the lock.
Crash(r) ==
    /\ r \in Living
    /\ Another
    /\ Goes(r, "failed")
    /\ UNCHANGED <<records, disk, service, cmd>>

-----------------------------------------------------------------------------
(* systemd *)

\* Restart=on-failure
Restart(r) ==
    /\ unit = "active" /\ Managed = {} /\ Fresh(r)
    /\ \E q \in Is({"failed"}) :
          /\ proc[q].managed
          /\ proc' = [proc EXCEPT ![q].phase = "gone", ![r] = Begun(TRUE)]
    /\ UNCHANGED <<records, disk, service, cmd, faults>>

\* The limit of restarts, or there is no unit any more.
NoRestart(r) ==
    /\ Phase(r) = "failed" /\ proc[r].managed
    /\ Goes(r, "gone")
    /\ UNCHANGED <<records, disk, service, cmd, faults>>

-----------------------------------------------------------------------------
(* ensureRouter and setup *)

At(c, step) == cmd[c].step = step
Steps(c, step) == cmd' = [cmd EXCEPT ![c].step = step]

Look(c) ==
    /\ At(c, "idle")
    /\ cmd' = [cmd EXCEPT ![c].kind = "run", ![c].step = IF Healthy THEN "done" ELSE "launch"]
    /\ UNCHANGED <<proc, records, disk, service, faults>>

\* startDetached; no process is left to start: the bound.
Launches(c) ==
    \/ \E r \in Routers :
          /\ Fresh(r)
          /\ proc' = [proc EXCEPT ![r] = Begun(FALSE)]
          /\ cmd' = [cmd EXCEPT ![c].step = "record", ![c].target = r]
    \/ /\ Is({"none"}) = {}
       /\ Steps(c, "cut")
       /\ UNCHANGED proc

\* StartInstalledRouter
Launch(c) ==
    /\ At(c, "launch")
    /\ IF disk.binary /\ disk.state THEN Launches(c)
       ELSE Steps(c, "setup") /\ UNCHANGED proc
    /\ UNCHANGED <<records, disk, service, faults>>

\* writeDetachedRouterPID: the command records the process it has started.
Record(c) ==
    /\ At(c, "record") /\ ~Locked
    /\ pid' = cmd[c].target /\ old' = FALSE
    /\ Steps(c, "wait")
    /\ UNCHANGED <<proc, instance, disk, service, faults>>

\* It cannot, and kills the process.
RecordFails(c) ==
    /\ At(c, "record")
    /\ Another
    /\ IF cmd[c].target \in Living THEN Goes(cmd[c].target, "failed") ELSE UNCHANGED proc
    /\ Steps(c, "failed")
    /\ UNCHANGED <<records, disk, service>>

\* waitForRouterHealth
WaitReady(c) ==
    /\ At(c, "wait") /\ Healthy
    /\ Steps(c, "done")
    /\ UNCHANGED <<proc, records, disk, service, faults>>

\* Mutant: the command gives up when the process it has started has ended.
Mutant_WaitFails(c) ==
    /\ At(c, "wait") /\ cmd[c].target # None /\ cmd[c].target \notin Living
    /\ Steps(c, "failed")
    /\ UNCHANGED <<proc, records, disk, service, faults>>

\* Its ten seconds are enough for any start, so they are over when no router
\* is about to serve; the first time the user is asked whether to set up.
WaitFails(c) ==
    /\ At(c, "wait") /\ Is(OnItsWay) = {}
    /\ Steps(c, "failed") \/ (~cmd[c].again /\ Steps(c, "setup"))
    /\ UNCHANGED <<proc, records, disk, service, faults>>

\* setup.Linux, Windows and Darwin leave a router that answers alone.
SetUp(c) ==
    /\ At(c, "setup")
    /\ cmd' = [cmd EXCEPT ![c].again = TRUE,
                          ![c].step = IF Healthy THEN "wait" ELSE "install"]
    /\ UNCHANGED <<proc, records, disk, service, faults>>

\* systemctl enable --now; systemd ends a stop of the unit first.
StartUnit(c) ==
    /\ systemd /\ \A r \in Managed : ~proc[r].told
    /\ unit' = "active"
    /\ IF Managed = {} /\ Is({"none"}) # {}
       THEN \E r \in Routers : Fresh(r) /\ proc' = [proc EXCEPT ![r] = Begun(TRUE)]
       ELSE UNCHANGED proc
    /\ Steps(c, "wait")
    /\ UNCHANGED faults

\* They install the binary and the token, and start the router by systemd, or
\* themselves if there is none or it fails.
Install(c) ==
    /\ At(c, "install")
    /\ disk' = [binary |-> TRUE, state |-> TRUE]
    /\ \/ StartUnit(c)
       \/ /\ ~systemd
          /\ Launches(c) /\ UNCHANGED <<unit, faults>>
       \/ /\ systemd /\ Another
          /\ unit' = IF unit = "none" THEN "loaded" ELSE unit
          /\ Launches(c)
    /\ UNCHANGED <<records, systemd>>

-----------------------------------------------------------------------------
(* stopInstalledRouter *)

ReadRecord(c) ==
    /\ At(c, "idle")
    /\ \E k \in Kinds \ {"run"} :
          cmd' = [cmd EXCEPT ![c].kind = k, ![c].step = "inspect",
                             ![c].saw = pid, ![c].boot = old, ![c].before = Serving]
    /\ UNCHANGED <<proc, records, disk, service, faults>>

\* What is behind the recorded ID: the router, no process, another program, or
\* one that cannot be inspected, which is another program if the record is
\* older than the last boot.
Inspect(c) ==
    /\ At(c, "inspect")
    /\ LET r == cmd[c].saw
           found == IF r = None THEN {"absent"}
                    ELSE IF r \in Living THEN {"matched", "unknown"}
                    ELSE {"absent", "other", "unknown"}
       IN  \E f \in found :
              IF f = "unknown" /\ ~cmd[c].boot
              THEN Steps(c, "failed")
              ELSE cmd' = [cmd EXCEPT ![c].step = "ask",
                                      ![c].found = IF f = "unknown" THEN "other" ELSE f,
                                      ![c].boot = (f = "unknown")]
    /\ UNCHANGED <<proc, records, disk, service, faults>>

AfterAsking(c) == IF unit = "none" THEN "judge" ELSE "unit"

\* The admin request to shut down; the token is read from the disk.
Asked == {r \in Answering : disk.state /\ proc[r].token}
Closing(asked) ==
    [r \in Routers |->
        IF r \in asked \cap Serving THEN [proc[r] EXCEPT !.phase = "closing"] ELSE proc[r]]

Ask(c) ==
    /\ At(c, "ask")
    /\ proc' = Closing(Asked)
    /\ cmd' = [cmd EXCEPT ![c].step = AfterAsking(c), ![c].accepted = Asked # {}]
    /\ UNCHANGED <<records, disk, service, faults>>

\* There is no answer, whether the request was served or not.
AskFails(c) ==
    /\ At(c, "ask")
    /\ Another
    /\ \E asked \in {{}, Asked} : proc' = Closing(asked)
    /\ Steps(c, AfterAsking(c))
    /\ UNCHANGED <<records, disk, service>>

\* systemctl stop returns when the processes of the unit have ended.
StopUnit(c) ==
    /\ At(c, "unit")
    /\ proc' = [r \in Routers |-> IF r \in Managed THEN [proc[r] EXCEPT !.told = TRUE] ELSE proc[r]]
    /\ unit' = IF unit = "none" THEN unit ELSE "loaded"
    /\ Steps(c, "unitStopping")
    /\ UNCHANGED <<records, disk, systemd, faults>>

UnitStopped(c) ==
    /\ At(c, "unitStopping")
    /\ \/ /\ \A r \in Managed : ~proc[r].told
          /\ cmd' = [cmd EXCEPT ![c].step = "judge", ![c].manager = "stopped"]
          /\ UNCHANGED faults
       \/ Another /\ cmd' = [cmd EXCEPT ![c].step = "judge", ![c].manager = "failed"]
    /\ UNCHANGED <<proc, records, disk, service>>

\* Mutant: a router that does not end by itself is not signalled.
Mutant_Judge(c) ==
    /\ At(c, "judge")
    /\ Steps(c, IF cmd[c].found = "matched" /\ (cmd[c].accepted \/ cmd[c].manager = "stopped")
                THEN "grace" ELSE "forget")
    /\ UNCHANGED <<proc, records, disk, service, faults>>

Judge(c) ==
    /\ At(c, "judge")
    /\ LET me == cmd[c]
       IN  Steps(c, IF me.found = "matched"
                    THEN IF me.accepted \/ me.manager = "stopped" THEN "grace" ELSE "signal"
                    ELSE IF me.boot /\ (me.accepted \/ Healthy) THEN "failed" ELSE "forget")
    /\ UNCHANGED <<proc, records, disk, service, faults>>

\* Mutant: when the time of grace is over, the router is taken to be gone.
Mutant_GraceEnds(c) ==
    /\ At(c, "grace")
    /\ Steps(c, "forget")
    /\ UNCHANGED <<proc, records, disk, service, faults>>

GraceEnds(c) ==
    /\ At(c, "grace")
    /\ Steps(c, IF cmd[c].saw \in Living THEN "signal" ELSE "forget")
    /\ UNCHANGED <<proc, records, disk, service, faults>>

Signal(c) ==
    /\ At(c, "signal")
    /\ IF cmd[c].saw \in Living
       THEN proc' = [proc EXCEPT ![cmd[c].saw].told = TRUE] /\ Steps(c, "signalled")
       ELSE UNCHANGED proc /\ Steps(c, "forget")
    /\ UNCHANGED <<records, disk, service, faults>>

Signalled(c) ==
    /\ At(c, "signalled")
    /\ \/ cmd[c].saw \notin Living /\ Steps(c, "forget") /\ UNCHANGED faults
       \/ Another /\ Steps(c, "failed")
    /\ UNCHANGED <<proc, records, disk, service>>

\* What a stop reports in the end.
Verdict(c) ==
    LET me == cmd[c]
    IN  IF me.manager = "failed" THEN "failed"
        ELSE IF me.found = "matched" \/ me.manager = "stopped" THEN "stopped"
        ELSE IF me.accepted THEN "unconfirmed"
        ELSE IF Healthy THEN "failed"
        ELSE "nothing"

\* Mutant: RemovePIDRecordIf does not look at the record again.
Mutant_Forget(c) ==
    /\ At(c, "forget") /\ ~Locked
    /\ pid' = None
    /\ Steps(c, Verdict(c))
    /\ UNCHANGED <<proc, old, instance, disk, service, faults>>

\* RemovePIDRecordIf
Forget(c) ==
    /\ At(c, "forget") /\ ~Locked
    /\ LET saw == cmd[c].saw
           changed == saw # None /\ pid \notin {None, saw}
       IN  /\ pid' = IF saw # None /\ pid = saw THEN None ELSE pid
           /\ Steps(c, IF changed THEN "failed" ELSE Verdict(c))
    /\ UNCHANGED <<proc, old, instance, disk, service, faults>>

-----------------------------------------------------------------------------
(* After the stop *)

Refresh(c) ==
    /\ cmd[c].kind = "refresh" /\ cmd[c].step \in {"stopped", "nothing"}
    /\ Steps(c, "setup")
    /\ UNCHANGED <<proc, records, disk, service, faults>>

Remove(c) ==
    /\ cmd[c].kind = "uninstall" /\ cmd[c].step \in {"stopped", "nothing"}
    /\ unit' = "none" /\ disk' = [disk EXCEPT !.binary = FALSE]
    /\ Steps(c, "removed")
    /\ UNCHANGED <<proc, records, systemd, faults>>

RemoveState(c) ==
    /\ At(c, "removed")
    /\ \/ Steps(c, "done") /\ UNCHANGED <<proc, records, disk>>
       \/ /\ Steps(c, "wiped")
          /\ proc' = [r \in Routers |-> [proc[r] EXCEPT !.token = FALSE]]
          /\ disk' = [disk EXCEPT !.state = FALSE]
          /\ pid' = None /\ instance' = None /\ UNCHANGED old
    /\ UNCHANGED <<service, faults>>

Final(c) ==
    \/ cmd[c].step \in {"done", "wiped", "failed", "unconfirmed", "cut"}
    \/ cmd[c].kind = "stop" /\ cmd[c].step \in {"stopped", "nothing"}

\* A command is interrupted.
Interrupt(c) ==
    /\ ~At(c, "idle") /\ ~Final(c)
    /\ Another
    /\ Steps(c, "failed")
    /\ UNCHANGED <<proc, records, disk, service>>

\* Everything ends; systemd starts the unit again.
Reboot ==
    /\ Another
    /\ cmd' = [c \in Commands |->
                  IF At(c, "idle") \/ Final(c) THEN cmd[c] ELSE [cmd[c] EXCEPT !.step = "failed"]]
    /\ old' = (pid # None)
    /\ LET ended == [r \in Routers |->
                        IF Phase(r) = "none" THEN proc[r] ELSE [proc[r] EXCEPT !.phase = "gone"]]
       IN  IF unit = "none" \/ Is({"none"}) = {}
           THEN proc' = ended /\ UNCHANGED unit
           ELSE \E r \in Routers :
                   /\ Fresh(r)
                   /\ proc' = [ended EXCEPT ![r] = Begun(TRUE)]
                   /\ unit' = "active"
    /\ UNCHANGED <<pid, instance, disk, systemd>>

\* Nothing else is asked of the routers.
AllDone == (\A c \in Commands : Final(c)) /\ UNCHANGED vars

-----------------------------------------------------------------------------

Runs(r) ==
    \/ ListenHTTP(r) \/ ListenAdmin(r) \/ PublishPID(r) \/ PublishInstance(r)
    \/ CloseTold(r) \/ CloseHTTP(r) \/ CloseAdmin(r) \/ Release(r) \/ Obey(r)

Starts(c) ==
    \/ Launch(c) \/ Record(c) \/ WaitReady(c) \/ WaitFails(c) \/ SetUp(c) \/ Install(c)

Stops(c) ==
    \/ Inspect(c) \/ Ask(c) \/ StopUnit(c) \/ UnitStopped(c) \/ Judge(c)
    \/ GraceEnds(c) \/ Signal(c) \/ Signalled(c) \/ Forget(c)
    \/ Refresh(c) \/ Remove(c) \/ RemoveState(c)

Next ==
    \/ \E r \in Routers : Runs(r) \/ PublishFails(r) \/ Crash(r) \/ Restart(r) \/ NoRestart(r)
    \/ \E c \in Commands :
          Look(c) \/ ReadRecord(c) \/ Starts(c) \/ Stops(c) \/ RecordFails(c) \/ AskFails(c)
          \/ Interrupt(c)
    \/ Reboot
    \/ AllDone

Spec == Init /\ [][Next]_vars

-----------------------------------------------------------------------------
(* Properties *)

Phases == Ended \cup HTTPOpen \cup AdminOpen \cup {"begun", "closed"}
StepNames ==
    {"idle", "launch", "record", "wait", "setup", "install", "done", "cut", "failed",
     "inspect", "ask", "unit", "unitStopping", "judge", "grace", "signal", "signalled",
     "forget", "stopped", "nothing", "unconfirmed", "removed", "wiped"}

Process == [phase : Phases, managed : BOOLEAN, told : BOOLEAN, token : BOOLEAN]
Call ==
    [kind : Kinds \cup {"none"}, step : StepNames, saw : Routers \cup {None},
     found : {"absent", "matched", "other"}, boot : BOOLEAN, accepted : BOOLEAN,
     manager : {"none", "stopped", "failed"}, target : Routers \cup {None},
     again : BOOLEAN, before : SUBSET Routers]

Typed ==
    /\ proc \in [Routers -> Process]
    /\ pid \in Routers \cup {None}
    /\ instance \in Routers \cup {None}
    /\ old \in BOOLEAN
    /\ disk \in [binary : BOOLEAN, state : BOOLEAN]
    /\ systemd \in BOOLEAN
    /\ unit \in {"none", "loaded", "active"}
    /\ cmd \in [Commands -> Call]
    /\ faults \in 0 .. MaxFaults

PortsOwned ==
    /\ \A q, r \in Is(HTTPOpen) : q = r
    /\ \A q, r \in Is(AdminOpen) : q = r

\* The variables have their types, and no two routers have one port, which is
\* all that keeps them from publishing and serving at once.
TypeOK == Typed /\ PortsOwned

\* While a router serves, router.instance names it, so that WSL recognises the
\* router it has been promised: routers that end late, fail to start or are
\* stopped leave it alone.  Only an uninstall that removes the state, and the
\* token with it, takes it away.
InstanceKept == \A r \in Serving : instance = r \/ ~proc[r].token

\* Nobody removes the record of a router that serves, however long ago it has
\* read the record; an uninstall that removes the state apart.
RecordNotErased ==
    [][\A r \in Serving : pid = r => pid' # None \/ ~proc'[r].token]_vars

\* As long as nothing is stopped and nothing fails, every command that needs a
\* router gets one, although others start routers at the same time and all but
\* one of those fail.
OnlyRuns == faults = 0 /\ \A c \in Commands : cmd[c].kind \in {"none", "run"}
StartsSucceed == OnlyRuns => \A c \in Commands : ~At(c, "failed")

\* A router that served when a stop began does not serve any more when the stop
\* reports that it has stopped it, or that there is none to stop.  A router
\* escapes a stop that reports success only if router.pid did not name it when
\* the stop began (a command that looked before this router served has recorded
\* a process of its own over it, or an uninstall has wiped the state), and no
\* router accepted the request to shut down.
Escapes(c, r) == cmd[c].saw # r /\ ~cmd[c].accepted /\ cmd'[c].step = "stopped"
StopTakesEffect ==
    [][\A c \in Commands :
          cmd[c].step = "forget" /\ cmd'[c].step \in {"stopped", "nothing"} =>
              \A r \in cmd[c].before : proc'[r].phase = "serving" => Escapes(c, r)]_vars

\* Uninstall removes nothing before the router whose record it has read has
\* ended, if that router served when it began.
RemovesAfterStop ==
    \A c \in Commands :
        cmd[c].step \in {"removed", "wiped"} /\ cmd[c].saw \in cmd[c].before =>
            cmd[c].saw \notin Living

\* LockRuntimeRecords: "a stale writer cannot erase a newer router's records".
\* Once every command that starts a router has ended, and nothing has failed
\* or been stopped, router.pid names the router that serves.
RecordNames ==
    (OnlyRuns /\ \A c \in Commands : Final(c)) => \A r \in Serving : pid = r
=============================================================================
