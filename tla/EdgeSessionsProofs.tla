------------------------- MODULE EdgeSessionsProofs -------------------------
(***************************************************************************)
(* The session manager of the WSL edge starts one helper at a time and     *)
(* ends no session that works; a run that meets no fault does not fail;    *)
(* uninstall finds the edge there is; and what one run has found to lead   *)
(* to the router is kept by the others.  All this for any number of        *)
(* connections, helpers, edges and commands.                               *)
(*                                                                         *)
(* Types come first, for the edges and commands of WSLEdge too: they need  *)
(* that an edge which has not ended has tried the lock once at most, and   *)
(* what a command that is under way knows.  Then who may have a helper:    *)
(* the connection that holds the mutex while it starts one, and else only  *)
(* the session of the manager.  Then edges and commands alone: what a      *)
(* command on its way, at each of its steps, leaves for edges to be there. *)
(* Last, the transport, by two arguments: of commands at the same time     *)
(* always one has an edge that leads to the router, or is to start one, or *)
(* waits for one on its way; of commands in turn each leaves the edge that *)
(* it found, or puts it back.                                              *)
(***************************************************************************)
EXTENDS EdgeSessions, TLAPS

Stopping == {"stop", "judge", "stopping", "clear", "sweep"}
Underway == Steps \ {"idle", "over"}

\* A command under way has a version, one that stops an edge knows how it goes
\* on, and one that restores an edge has seen it.
Knows(x) ==
  /\ x.step \in Underway => x.version \in Versions
  /\ x.step \in Stopping => x.then # "none"
  /\ x.step = "restore" => x.seen # 0

CmdInv == cmd \in [Commands -> Invocation] /\ \A c \in Commands : Knows(cmd[c])

\* An edge that has not ended has made one attempt at most.
EdgeInv ==
    /\ edge \in [Edges -> Process]
    /\ \A e \in Edges : Phase(e) # "gone" => edge[e].tries \in 0 .. 1

FilesInv ==
    /\ lock \in [by : Maybe, written : BOOLEAN]
    /\ metadata \in Version /\ staged \subseteq Versions

WorldInv ==
    /\ windows \in BOOLEAN /\ alone \in BOOLEAN
    /\ reach \subseteq {"admin", "public"} /\ good \subseteq Versions

FaultsInv == faults \in 0 .. MaxFaults

TypeInv == EdgeInv /\ FilesInv /\ WorldInv /\ CmdInv /\ FaultsInv

LEMMA TypeInvTyped == TypeInv => Typed
BY DEF TypeInv, EdgeInv, FilesInv, WorldInv, CmdInv, FaultsInv, Typed

-----------------------------------------------------------------------------
(* Edges *)

LEMMA GoesTyped ==
  ASSUME NEW e \in Edges, NEW phase \in Phases, EdgeInv, Phase(e) # "gone", Goes(e, phase)
  PROVE  EdgeInv'
<1>1. edge'[e] \in Process /\ edge'[e].tries \in 0 .. 1
  BY DEF EdgeInv, Goes, Process, Phase
<1>2. \A f \in Edges \ {e} : edge'[f] = edge[f]
  BY DEF EdgeInv, Goes
<1>3. DOMAIN edge' = Edges /\ edge' = [f \in Edges |-> edge'[f]]
  BY DEF EdgeInv, Goes
<1>4. edge' \in [Edges -> Process]
  BY <1>1, <1>2, <1>3 DEF EdgeInv
<1> QED BY <1>1, <1>2, <1>4 DEF EdgeInv, Phase

\* Every record in the lock file is one of an edge.
LEMMA RecordTyped ==
  ASSUME NEW e \in Edges
  PROVE  /\ NoLock \in [by : Maybe, written : BOOLEAN]
         /\ Record(e) \in [by : Maybe, written : BOOLEAN]
         /\ [by |-> e, written |-> FALSE] \in [by : Maybe, written : BOOLEAN]
BY DEF NoLock, Record, Maybe

LEMMA EdgeStepTyped ==
  ASSUME NEW e \in Edges, EdgeInv, FilesInv, EdgeStep(e) \/ End(e)
  PROVE  EdgeInv' /\ FilesInv'
<1>1. CASE Begin(e) \/ Look(e) \/ Listen(e) \/ End(e) \/ Release(e)
  <2>1. Phase(e) # "gone" /\ UNCHANGED files
    BY <1>1 DEF Begin, Look, Listen, End, Release
  <2>2. PICK phase \in Phases : Goes(e, phase)
    BY <1>1 DEF Begin, Look, Listen, End, Release, Phases, Starting
  <2> QED BY <2>1, <2>2, GoesTyped DEF FilesInv, files
<1>2. CASE Open(e) \/ Write(e) \/ Erase(e)
  <2>1. Phase(e) # "gone"
    BY <1>2 DEF Open, Write, Erase
  <2>2. PICK phase \in Phases : Goes(e, phase)
    BY <1>2 DEF Open, Write, Erase, Phases, Starting
  <2>3. FilesInv'
    BY <1>2, RecordTyped DEF Open, Write, Erase, FilesInv
  <2> QED BY <2>1, <2>2, <2>3, GoesTyped
<1>3. CASE Unlink(e)
  <2>1. edge[e].tries \in 0 .. 1 /\ edge[e] \in Process
    BY <1>3 DEF Unlink, EdgeInv
  <2>2. /\ edge'[e] = [edge[e] EXCEPT !.tries = edge[e].tries + 1,
                                      !.phase = IF edge[e].tries = 0 THEN "open" ELSE "gone"]
        /\ \A f \in Edges \ {e} : edge'[f] = edge[f]
        /\ edge' = [f \in Edges |-> edge'[f]]
    BY <1>3 DEF Unlink, EdgeInv
  <2> DEFINE n == edge[e].tries + 1
             p == IF edge[e].tries = 0 THEN "open" ELSE "gone"
  <2>3. n \in 0 .. 2 /\ p \in Phases /\ (p # "gone" => n \in 0 .. 1)
    BY <2>1 DEF Phases, Starting
  <2>5. edge'[e] = [edge[e] EXCEPT !.tries = n, !.phase = p]
    BY <2>2
  <2> HIDE DEF n, p
  <2>6. edge'[e] \in Process /\ edge'[e].phase = p /\ edge'[e].tries = n
    BY <2>1, <2>3, <2>5 DEF Process
  <2>4. EdgeInv'
    BY <2>2, <2>3, <2>6 DEF EdgeInv, Phase
  <2> QED BY <1>3, <2>4, RecordTyped DEF Unlink, FilesInv
<1> QED BY <1>1, <1>2, <1>3 DEF EdgeStep

LEMMA CrashTyped ==
  ASSUME NEW e \in Edges, TypeInv, Crash(e)
  PROVE  TypeInv'
<1>1. Phase(e) # "gone"
  BY DEF Crash, Living, Is
<1>2. EdgeInv'
  BY <1>1, GoesTyped DEF TypeInv, Crash, Phases
<1>3. FaultsInv'
  BY SessionAssumption, EdgeAssumption DEF TypeInv, FaultsInv, Crash, Another
<1> QED BY <1>2, <1>3 DEF TypeInv, FilesInv, WorldInv, CmdInv, Crash, files, world

\* A detached process begins as any other does.
LEMMA StartsTyped ==
  ASSUME NEW v \in Version, NEW companion \in Version, EdgeInv, Starts(v, companion)
  PROVE  EdgeInv'
<1>1. PICK e \in Edges :
        /\ Fresh(e)
        /\ edge' = [edge EXCEPT ![e].phase = "begun", ![e].binary = v, ![e].companion = companion]
  BY DEF Starts
<1>2. edge[e] \in Process /\ edge[e].tries \in 0 .. 1
  BY <1>1 DEF EdgeInv, Fresh
<1>3. /\ edge'[e] = [edge[e] EXCEPT !.phase = "begun", !.binary = v, !.companion = companion]
      /\ \A f \in Edges \ {e} : edge'[f] = edge[f]
      /\ edge' = [f \in Edges |-> edge'[f]]
  BY <1>1 DEF EdgeInv
<1>4. edge'[e] \in Process /\ edge'[e].tries \in 0 .. 1
  BY <1>2, <1>3 DEF Process, Phases, Starting
<1> QED BY <1>3, <1>4 DEF EdgeInv, Phase

-----------------------------------------------------------------------------
(* Commands *)

LEMMA CmdBecomes ==
  ASSUME NEW c \in Commands, NEW x \in Invocation, CmdInv, Knows(x), cmd' = [cmd EXCEPT ![c] = x]
  PROVE  CmdInv'
<1>1. cmd'[c] = x /\ \A d \in Commands \ {c} : cmd'[d] = cmd[d]
  BY DEF CmdInv
<1>2. cmd' \in [Commands -> Invocation]
  BY DEF CmdInv
<1> QED BY <1>1, <1>2 DEF CmdInv

LEMMA ToTyped ==
  ASSUME NEW c \in Commands, NEW step \in Underway, CmdInv, cmd[c].step \in Underway,
         step \in Stopping => cmd[c].then # "none", step = "restore" => cmd[c].seen # 0,
         To(c, step)
  PROVE  CmdInv'
<1> DEFINE x == [cmd[c] EXCEPT !.step = step]
<1>1. x \in Invocation /\ Knows(x)
  BY DEF CmdInv, Invocation, Knows, Underway
<1>2. cmd' = [cmd EXCEPT ![c] = x]
  BY DEF To
<1> QED BY <1>1, <1>2, CmdBecomes

LEMMA CommandTyped ==
  ASSUME NEW c \in Commands, CmdInv
  PROVE  /\ cmd[c] \in Invocation /\ Knows(cmd[c])
         /\ cmd[c].step \in Underway => cmd[c].version \in Versions
         /\ cmd[c].step \in Stopping =>
              /\ cmd[c].step \in Underway
              /\ cmd[c].then # "none" /\ cmd[c].then \in Underway \ {"restore"}
         /\ cmd[c].step = "restore" => cmd[c].seen \in Edges
<1>1. cmd[c] \in Invocation /\ Knows(cmd[c])
  BY DEF CmdInv
<1>2. cmd[c].then \in {"none", "validate", "launch", "rollback", "remove"} /\ cmd[c].seen \in Maybe
  BY <1>1 DEF Invocation
<1>3. cmd[c].step \in Stopping => cmd[c].then # "none"
  BY <1>1 DEF Knows
<1>4. cmd[c].step = "restore" => cmd[c].seen # 0
  BY <1>1 DEF Knows
<1>5. cmd[c].step \in Stopping => cmd[c].step \in Underway
  BY DEF Underway, Steps, Stopping
<1>6. cmd[c].then # "none" => cmd[c].then \in Underway \ {"restore"}
  BY <1>2 DEF Underway, Steps
<1>7. cmd[c].step \in Underway => cmd[c].version \in Versions
  BY <1>1 DEF Knows
<1> QED BY <1>1, <1>2, <1>3, <1>4, <1>5, <1>6, <1>7 DEF Maybe

LEMMA EndsTyped ==
  ASSUME NEW c \in Commands, NEW result \in Results, CmdInv, Ends(c, result)
  PROVE  CmdInv'
<1> DEFINE x == [NotCalled EXCEPT !.kind = cmd[c].kind, !.calm = cmd[c].calm,
                                  !.step = "over", !.result = result]
<1>1. cmd[c] \in Invocation
  BY DEF CmdInv
<1>2. x \in Invocation
  BY <1>1 DEF Invocation, NotCalled, Steps, Version, Maybe
<1>3. Knows(x)
  BY DEF Knows, NotCalled, Underway, Stopping
<1> QED BY <1>2, <1>3, CmdBecomes DEF Ends

LEMMA FailsTyped ==
  ASSUME NEW c \in Commands, CmdInv, Fails(c)
  PROVE  CmdInv'
BY EndsTyped DEF Fails, Results

LEMMA StopsTyped ==
  ASSUME NEW c \in Commands, NEW next \in {"validate", "launch", "rollback", "remove"},
         CmdInv, cmd[c].step \in Underway, cmd' = Stops(c, next)
  PROVE  CmdInv'
<1> DEFINE x == [cmd[c] EXCEPT !.step = "stop", !.then = next]
<1>3. cmd[c] \in Invocation /\ Knows(cmd[c]) /\ "stop" \in Steps
  BY DEF CmdInv, Steps
<1>4. x \in Invocation
  BY <1>3 DEF Invocation
<1>5. Knows(x)
  BY <1>3 DEF Knows, Underway, Invocation
<1>1. x \in Invocation /\ Knows(x)
  BY <1>4, <1>5
<1>2. cmd' = [cmd EXCEPT ![c] = x]
  BY DEF Stops
<1> QED BY <1>1, <1>2, CmdBecomes

\* What a command does changes no more of the edges than what Starts and a
\* signal do.
LEMMA CallTyped ==
  ASSUME NEW c \in Commands, TypeInv, Call(c)
  PROVE  TypeInv'
<1>1. PICK kind \in Kinds, v \in Versions :
        cmd' = [cmd EXCEPT ![c] =
                   [NotCalled EXCEPT !.kind = kind, !.version = v,
                      !.calm = IF alone /\ Ready THEN faults ELSE MaxFaults + 1,
                      !.step = CASE kind = "run"       -> "identify"
                                 [] kind = "setup"     -> "stage"
                                 [] kind = "uninstall" -> "stop",
                      !.then = IF kind = "uninstall" THEN "remove" ELSE "none"]]
  BY DEF Call
<1> DEFINE calm == IF alone /\ Ready THEN faults ELSE MaxFaults + 1
           step == CASE kind = "run" -> "identify" [] kind = "setup" -> "stage"
                     [] kind = "uninstall" -> "stop"
           then == IF kind = "uninstall" THEN "remove" ELSE "none"
           x == [NotCalled EXCEPT !.kind = kind, !.version = v, !.calm = calm,
                                  !.step = step, !.then = then]
<1>2. calm \in 0 .. MaxFaults + 1
  BY EdgeAssumption DEF TypeInv, FaultsInv
<1>3. /\ step \in Underway /\ then \in {"none", "remove"}
      /\ step # "restore" /\ (step \in Stopping => then # "none")
  BY DEF Kinds, Underway, Steps, Stopping
<1> HIDE DEF calm, step, then
<1>4. x \in Invocation
  BY <1>2, <1>3 DEF NotCalled, Invocation, Kinds, Version, Maybe, Results, Underway
<1>5. x.step = step /\ x.version = v /\ x.then = then
  BY DEF NotCalled
<1>6. Knows(x)
  BY <1>3, <1>5 DEF Knows
<1>7. cmd' = [cmd EXCEPT ![c] = x]
  BY <1>1 DEF calm, step, then
<1>8. CmdInv'
  BY <1>4, <1>6, <1>7, CmdBecomes DEF TypeInv
<1> QED BY <1>8 DEF TypeInv, EdgeInv, FilesInv, WorldInv, FaultsInv, Call, Phase, files, world

\* Steps that change their command alone.
LEMMA QuietTyped ==
  ASSUME NEW c \in Commands, CmdInv, FilesInv,
         \/ Identify(c) \/ Inspect(c) \/ Probe(c) \/ Validate(c) \/ Choose(c) \/ Wait(c)
         \/ Rollback(c) \/ Restored(c) \/ StopReads(c) \/ StopWaits(c)
  PROVE  CmdInv'
<1>1. CASE Identify(c)
  BY <1>1, ToTyped, EndsTyped DEF Identify, At, Underway, Steps, Results, Stopping
<1>2. CASE Inspect(c)
  <2>1. CASE Fails(c)
    BY <2>1, FailsTyped
  <2>2. CASE cmd' = [cmd EXCEPT ![c].seen = IF Owned THEN lock.by ELSE 0, ![c].step = "probe"]
    <3> DEFINE seen == IF Owned THEN lock.by ELSE 0
               x == [cmd[c] EXCEPT !.seen = seen, !.step = "probe"]
    <3>1. seen \in Maybe
      BY DEF FilesInv, Maybe
    <3>2. cmd' = [cmd EXCEPT ![c] = x]
      BY <2>2
    <3> HIDE DEF seen
    <3>3. cmd[c] \in Invocation /\ cmd[c].version \in Versions
      <4>1. cmd[c].step \in Underway
        BY <1>2 DEF Inspect, At, Underway, Steps
      <4> QED BY <4>1, CommandTyped
    <3>4. x \in Invocation /\ Knows(x)
      BY <3>1, <3>3 DEF Invocation, Knows, Steps, Stopping
    <3> QED BY <3>2, <3>4, CmdBecomes
  <2> QED BY <1>2, <2>1, <2>2 DEF Inspect
<1>3. CASE Probe(c)
  <2>1. cmd[c].step \in Underway
    BY <1>3 DEF Probe, At, Underway, Steps
  <2>2. cmd' = Stops(c, "validate") \/ To(c, "validate") \/ To(c, "choose")
    BY <1>3 DEF Probe
  <2> QED BY <2>1, <2>2, ToTyped, StopsTyped DEF Underway, Steps, Stopping
<1>4. CASE Validate(c)
  BY <1>4, ToTyped, EndsTyped, FailsTyped DEF Validate, At, Underway, Steps, Stopping, Results
<1>5. CASE Choose(c)
  <2>1. CASE Fails(c) \/ Ends(c, "edge")
    BY <2>1, FailsTyped, EndsTyped DEF Results
  <2>2. CASE \E next \in {"stop", "launch"} :
               cmd' = [cmd EXCEPT ![c].want = metadata, ![c].then = "launch", ![c].step = next]
    <3>1. PICK next \in {"stop", "launch"} :
             cmd' = [cmd EXCEPT ![c].want = metadata, ![c].then = "launch", ![c].step = next]
      BY <2>2
    <3> DEFINE x == [cmd[c] EXCEPT !.want = metadata, !.then = "launch", !.step = next]
    <3>2. cmd[c] \in Invocation /\ cmd[c].version \in Versions /\ metadata \in Version
        <4>1. cmd[c].step \in Underway
        BY <1>5 DEF Choose, At, Underway, Steps
      <4> QED BY <4>1, CommandTyped DEF FilesInv
    <3>3. x \in Invocation /\ Knows(x)
      BY <3>2 DEF Invocation, Knows, Steps
    <3>4. cmd' = [cmd EXCEPT ![c] = x]
      BY <3>1
    <3> QED BY <3>3, <3>4, CmdBecomes
  <2>3. Fails(c) \/ Ends(c, "edge")
        \/ cmd' = [cmd EXCEPT ![c].want = metadata, ![c].then = "launch",
                              ![c].step = IF cmd[c].seen # 0 THEN "stop" ELSE "launch"]
    BY <1>5 DEF Choose
  <2> QED BY <2>1, <2>2, <2>3
<1>6. CASE Wait(c)
  <2>1. cmd[c].step \in Underway
    BY <1>6 DEF Wait, At, Underway, Steps
  <2> QED BY <1>6, <2>1, EndsTyped, StopsTyped DEF Wait, Results
<1>7. CASE Rollback(c)
  BY <1>7, ToTyped, FailsTyped DEF Rollback, At, Underway, Steps, Stopping
<1>8. CASE Restored(c)
  BY <1>8, FailsTyped DEF Restored
<1>9. CASE StopReads(c)
  <2>1. cmd[c].step \in Stopping
    BY <1>9 DEF StopReads, Stopping
  <2>2. CASE To(c, cmd[c].then)
    BY <2>1, <2>2, CommandTyped, ToTyped
  <2>3. CASE Fails(c)
    BY <2>3, FailsTyped
  <2>4. CASE lock.written /\ cmd' = [cmd EXCEPT ![c].target = lock.by, ![c].step = "judge"]
    <3> DEFINE x == [cmd[c] EXCEPT !.target = lock.by, !.step = "judge"]
    <3>1. cmd[c] \in Invocation /\ cmd[c].version \in Versions /\ cmd[c].then # "none"
          /\ lock.by \in Maybe
      BY <2>1, CommandTyped DEF FilesInv
    <3>2. x \in Invocation /\ Knows(x)
      BY <3>1 DEF Invocation, Knows, Steps
    <3>3. cmd' = [cmd EXCEPT ![c] = x]
      BY <2>4
    <3> QED BY <3>2, <3>3, CmdBecomes
  <2> QED BY <1>9, <2>2, <2>3, <2>4 DEF StopReads
<1>10. CASE StopWaits(c)
  <2>1. cmd[c].step \in Stopping
    BY <1>10 DEF StopWaits, Stopping
  <2>2. cmd[c].step \in Underway /\ cmd[c].then # "none"
    BY <2>1, CommandTyped
  <2> QED BY <1>10, <2>2, ToTyped DEF StopWaits, Underway, Steps
<1> QED BY <1>1, <1>2, <1>3, <1>4, <1>5, <1>6, <1>7, <1>8, <1>9, <1>10

\* A command takes a version that it had.
LEMMA VersionTyped ==
  ASSUME NEW c \in Commands, CmdInv, cmd[c].step \in Underway
  PROVE  cmd[c].version \in Version /\ cmd[c].version # None
BY CommandTyped, EdgeAssumption DEF Version

LEMMA FaultTyped ==
  ASSUME FaultsInv, Another
  PROVE  FaultsInv'
BY EdgeAssumption DEF FaultsInv, Another

\* Steps that install a version or remove all.
LEMMA FileStepTyped ==
  ASSUME NEW c \in Commands, CmdInv, FilesInv, Stage(c) \/ Install(c) \/ StopClears(c) \/ Remove(c)
  PROVE  CmdInv' /\ FilesInv'
<1>1. CASE Stage(c)
  <2>1. cmd[c].step \in Underway
    BY <1>1 DEF Stage, At, Underway, Steps
  <2>2. cmd[c].version \in Versions
    BY <2>1, CommandTyped
  <2>3. FilesInv'
    BY <1>1, <2>2 DEF Stage, FilesInv
  <2> QED BY <1>1, <2>1, <2>3, ToTyped DEF Stage, Underway, Steps, Stopping
<1>2. CASE Install(c)
  <2>1. cmd[c].step \in Underway
    BY <1>2 DEF Install, At, Underway, Steps
  <2>2. cmd[c].version \in Versions /\ cmd[c] \in Invocation
    BY <2>1, CommandTyped
  <2>3. FilesInv'
    BY <1>2, <2>2 DEF Install, FilesInv, Version
  <2>4. CASE cmd' = [cmd EXCEPT ![c].step = "identify", ![c].installed = TRUE]
    <3> DEFINE x == [cmd[c] EXCEPT !.step = "identify", !.installed = TRUE]
    <3>1. x \in Invocation /\ Knows(x)
      BY <2>2 DEF Invocation, Knows, Steps, Stopping
    <3>2. cmd' = [cmd EXCEPT ![c] = x]
      BY <2>4
    <3> QED BY <2>3, <3>1, <3>2, CmdBecomes
  <2>5. CASE Ends(c, "installed")
    BY <2>3, <2>5, EndsTyped DEF Results
  <2> QED BY <1>2, <2>4, <2>5 DEF Install
<1>3. CASE StopClears(c)
  <2>1. cmd[c].step \in Stopping
    BY <1>3 DEF StopClears, Stopping
  <2>2. FilesInv'
    BY <1>3, RecordTyped, EdgeAssumption DEF StopClears, FilesInv
  <2>3. CASE Fails(c)
    BY <2>2, <2>3, FailsTyped
  <2>4. CASE To(c, cmd[c].then)
    BY <2>1, <2>2, <2>4, CommandTyped, ToTyped
  <2> QED BY <1>3, <2>3, <2>4 DEF StopClears
<1>4. CASE Remove(c)
  <2>1. FilesInv'
    BY <1>4, RecordTyped, EdgeAssumption DEF Remove, FilesInv, Version
  <2> QED BY <1>4, <2>1, EndsTyped DEF Remove, Results
<1> QED BY <1>1, <1>2, <1>3, <1>4

\* Steps that start an edge or tell one to end.
LEMMA ReplacingTyped ==
  ASSUME NEW c \in Commands, CmdInv, EdgeInv, Launch(c) \/ Restore(c) \/ StopSignals(c)
  PROVE  CmdInv' /\ EdgeInv'
<1>1. CASE Launch(c)
  <2>1. cmd[c].step \in Underway
    BY <1>1 DEF Launch, At, Underway, Steps
  <2>2. CmdInv'
    BY <1>1, <2>1, ToTyped DEF Launch, Underway, Steps, Stopping
  <2>3. cmd[c].want \in Version /\ cmd[c].version \in Version
    BY CommandTyped DEF Invocation
  <2>4. CASE Starts(cmd[c].want, cmd[c].version)
    BY <2>2, <2>3, <2>4, StartsTyped
  <2>5. CASE UNCHANGED edge
    BY <2>2, <2>5 DEF EdgeInv, Phase
  <2> QED BY <1>1, <2>4, <2>5 DEF Launch
<1>2. CASE Restore(c)
  <2>1. cmd[c].step \in Underway
    BY <1>2 DEF Restore, At, Underway, Steps
  <2>2. CmdInv'
    BY <1>2, <2>1, ToTyped, FailsTyped DEF Restore, Underway, Steps, Stopping
  <2>3. cmd[c].seen \in Edges
    BY <1>2, CommandTyped DEF Restore, At
  <2>4. edge[cmd[c].seen].binary \in Version /\ edge[cmd[c].seen].companion \in Version
    BY <2>3 DEF EdgeInv, Process
  <2>5. CASE Starts(edge[cmd[c].seen].binary, edge[cmd[c].seen].companion)
    BY <2>2, <2>4, <2>5, StartsTyped
  <2>6. CASE UNCHANGED edge
    BY <2>2, <2>6 DEF EdgeInv, Phase
  <2> QED BY <1>2, <2>5, <2>6 DEF Restore
<1>3. CASE StopSignals(c)
  <2>1. cmd[c].step \in Stopping
    BY <1>3 DEF StopSignals, Stopping
  <2>2. cmd[c].step \in Underway /\ cmd[c].then # "none"
    BY <2>1, CommandTyped
  <2>3. CmdInv'
    BY <1>3, <2>2, ToTyped, FailsTyped DEF StopSignals, Underway, Steps
  <2>4. CASE UNCHANGED edge
    BY <2>3, <2>4 DEF EdgeInv, Phase
  <2>5. CASE \E e \in Edges : edge' = [edge EXCEPT ![e].told = TRUE]
    <3>1. PICK e \in Edges : edge' = [edge EXCEPT ![e].told = TRUE]
      BY <2>5
    <3>2. /\ edge'[e] = [edge[e] EXCEPT !.told = TRUE]
          /\ \A f \in Edges \ {e} : edge'[f] = edge[f]
          /\ edge' = [f \in Edges |-> edge'[f]]
      BY <3>1 DEF EdgeInv
    <3>4. edge[e] \in Process
      BY DEF EdgeInv
    <3>3. edge'[e] \in Process /\ edge'[e].phase = edge[e].phase /\ edge'[e].tries = edge[e].tries
      BY <3>2, <3>4 DEF Process
    <3> QED BY <2>3, <3>2, <3>3 DEF EdgeInv, Phase
  <2> QED BY <1>3, <2>4, <2>5 DEF StopSignals, Living
<1> QED BY <1>1, <1>2, <1>3

LEMMA CommandStepTyped ==
  ASSUME NEW c \in Commands, TypeInv, CommandStep(c)
  PROVE  TypeInv'
<1> USE DEF TypeInv
<1>1. CASE \/ Identify(c) \/ Inspect(c) \/ Probe(c) \/ Validate(c) \/ Choose(c) \/ Wait(c)
           \/ Rollback(c) \/ Restored(c) \/ StopReads(c) \/ StopWaits(c)
  <2>1. CmdInv'
    BY <1>1, QuietTyped
  <2>2. UNCHANGED <<edge, files, windows, world, faults>>
    BY <1>1 DEF Identify, Inspect, Probe, Validate, Choose, Wait, Rollback, Restored, StopReads,
                StopWaits
  <2> QED BY <2>1, <2>2 DEF EdgeInv, FilesInv, WorldInv, FaultsInv, Phase, files, world
<1>2. CASE Stage(c) \/ Install(c) \/ StopClears(c) \/ Remove(c)
  <2>1. CmdInv' /\ FilesInv'
    BY <1>2, FileStepTyped
  <2>2. UNCHANGED <<edge, windows, world, faults>>
    BY <1>2 DEF Stage, Install, StopClears, Remove
  <2> QED BY <2>1, <2>2 DEF EdgeInv, WorldInv, FaultsInv, Phase, world
<1>3. CASE Launch(c) \/ Restore(c) \/ StopSignals(c)
  <2>1. CmdInv' /\ EdgeInv'
    BY <1>3, ReplacingTyped
  <2>2. UNCHANGED <<files, windows, world, faults>>
    BY <1>3 DEF Launch, Restore, StopSignals
  <2> QED BY <2>1, <2>2 DEF FilesInv, WorldInv, FaultsInv, files, world
<1>4. CASE StopTimesOut(c) \/ RemoveFails(c) \/ Interrupt(c)
  <2>1. FaultsInv' /\ UNCHANGED <<edge, files, windows, world>>
    BY <1>4, FaultTyped DEF StopTimesOut, RemoveFails, Interrupt
  <2>2. CmdInv'
    <3>1. CASE Fails(c)
      BY <3>1, FailsTyped
    <3>2. CASE cmd' = [cmd EXCEPT ![c].cancelled = TRUE]
      <4> DEFINE x == [cmd[c] EXCEPT !.cancelled = TRUE]
      <4>1. cmd[c] \in Invocation /\ Knows(cmd[c])
        BY CommandTyped
      <4>2. x \in Invocation /\ Knows(x)
        BY <4>1 DEF Invocation, Knows
      <4>3. cmd' = [cmd EXCEPT ![c] = x]
        BY <3>2
      <4> QED BY <4>2, <4>3, CmdBecomes
    <3> QED BY <1>4, <3>1, <3>2 DEF StopTimesOut, RemoveFails, Interrupt
  <2> QED BY <2>1, <2>2 DEF EdgeInv, FilesInv, WorldInv, Phase, files, world
<1> QED BY <1>1, <1>2, <1>3, <1>4 DEF CommandStep

LEMMA WindowsStopsTyped ==
  ASSUME TypeInv, WindowsStops
  PROVE  TypeInv'
<1>1. FaultsInv'
  BY FaultTyped DEF WindowsStops, TypeInv
<1> QED BY <1>1 DEF TypeInv, WindowsStops, EdgeInv, FilesInv, WorldInv, CmdInv, Phase, files, world

-----------------------------------------------------------------------------
(* Sessions *)

\* The mutex: the connection that starts a helper is alone, the manager has no
\* session meanwhile, and no other helper runs.
Sole ==
  /\ \A j, k \in In({"starting"}) : j = k
  /\ \A k \in In({"starting"}) :
       /\ session = NoHelper
       /\ Helping \subseteq {conn[k].on}
       /\ helper[conn[k].on] \in {"greets", "gone"}
  /\ ~Locked => Helping \subseteq {session}
  /\ session # NoHelper => helper[session] \in {"up", "gone"}

\* Who gives a session up has found it dead, and it stays so.
Dead == \A k \in In({"invalid"}) : Done(conn[k].on)

SessionInv == SessionTyped /\ Sole /\ Dead

Inv == TypeInv /\ SessionInv

LEMMA InvGivesOneHelper ==
  ASSUME Inv
  PROVE  OneHelper
<1>1. Typed
  BY TypeInvTyped DEF Inv
<1>2. SessionTyped /\ (session # NoHelper => helper[session] \in {"up", "gone"})
  BY DEF Inv, SessionInv, Sole
<1>3. \A g, h \in Helping : g = h
  <2>1. CASE Locked
    <3>1. PICK k \in In({"starting"}) : TRUE
      BY <2>1 DEF Locked
    <3> QED BY <3>1 DEF Inv, SessionInv, Sole
  <2>2. CASE ~Locked
    BY <2>2 DEF Inv, SessionInv, Sole
  <2> QED BY <2>1, <2>2
<1> QED BY <1>1, <1>2, <1>3 DEF OneHelper, SessionTypeOK

\* What the manager of a process had is gone with it.
LEMMA DisconnectKeeps ==
  ASSUME SessionInv, Disconnect
  PROVE  SessionInv'
<1> USE DEF SessionInv
<1>1. helper' \in [Helpers -> {"none", "greets", "up", "gone"}] /\ Helping' = {}
  BY DEF Disconnect, SessionTyped, Helping
<1>2. \A k \in Connections : conn'[k] \in Connection /\ conn'[k].step \in {"none", "closed"}
  BY DEF Disconnect, SessionTyped, Connection, Waiting, Holding
<1>3. In({"starting"})' = {} /\ In({"invalid"})' = {}
  BY <1>2 DEF In
<1>4. conn' \in [Connections -> Connection]
  BY <1>2 DEF Disconnect
<1>5. SessionTyped'
  BY <1>1, <1>4 DEF Disconnect, SessionTyped
<1>6. Sole'
  BY <1>1, <1>3 DEF Sole, Locked, Disconnect
<1>7. Dead'
  BY <1>3 DEF Dead
<1> QED BY <1>5, <1>6, <1>7

\* A connection that takes a step and is not the one that starts a helper.
LEMMA ConnBecomes ==
  ASSUME NEW k \in Connections, NEW x \in Connection, SessionTyped,
         conn' = [conn EXCEPT ![k] = x]
  PROVE  /\ conn' \in [Connections -> Connection]
         /\ conn'[k] = x /\ \A j \in Connections \ {k} : conn'[j] = conn[j]
BY DEF SessionTyped

\* A connection outside the mutex neither enters it nor leaves it.
LEMMA OutsideKeeps ==
  ASSUME NEW k \in Connections, NEW x \in Connection, SessionInv,
         conn' = [conn EXCEPT ![k] = x], conn[k].step # "starting", x.step # "starting",
         x.step = "invalid" => Done(x.on),
         UNCHANGED <<visited, helper, drops>>, backoff' \in BOOLEAN,
         \/ UNCHANGED session
         \/ session' = NoHelper /\ ~Locked /\ (session # NoHelper => Done(session))
  PROVE  SessionInv'
<1> USE DEF SessionInv
<1>1. /\ conn' \in [Connections -> Connection]
      /\ conn'[k] = x /\ \A j \in Connections \ {k} : conn'[j] = conn[j]
  BY ConnBecomes
<1>2. SessionTyped'
  BY <1>1 DEF SessionTyped
<1>3. In({"starting"})' = In({"starting"}) /\ \A j \in In({"starting"}) : conn'[j] = conn[j]
  BY <1>1 DEF In
<1>4. Helping' = Helping
  BY DEF Helping
<1>5. Sole'
  <2>1. CASE UNCHANGED session
    BY <1>3, <1>4, <2>1 DEF Sole, Locked
  <2>2. CASE session' = NoHelper /\ ~Locked /\ (session # NoHelper => Done(session))
    <3>1. Helping = {}
      BY <2>2, SessionAssumption DEF Sole, Helping, Done, NoHelper
    <3> QED BY <1>3, <1>4, <2>2, <3>1 DEF Sole, Locked
  <2> QED BY <2>1, <2>2
<1>6. Dead'
  BY <1>1 DEF Dead, In, Done
<1> QED BY <1>2, <1>5, <1>6

\* The step of a connection, and who it is with.
LEMMA StepOf ==
  ASSUME NEW k \in Connections, SessionTyped
  PROVE  /\ conn[k].step \in Waiting \cup Holding
         /\ conn[k].step \in Waiting => conn[k] = [step |-> conn[k].step, on |-> NoHelper]
         /\ conn[k].step \in Holding =>
              conn[k] = [step |-> conn[k].step, on |-> conn[k].on] /\ conn[k].on \in Helpers
<1>1. conn[k] \in Connection
  BY DEF SessionTyped
<1>2. CASE conn[k] \in [step : Waiting, on : {NoHelper}]
  BY <1>2 DEF Waiting, Holding
<1>3. CASE conn[k] \in [step : Holding, on : Helpers]
  BY <1>3 DEF Waiting, Holding
<1> QED BY <1>1, <1>2, <1>3 DEF Connection

LEMMA LeadsTo ==
  ASSUME NEW k \in Connections, NEW step, SessionTyped, Leads(k, step),
         \/ conn[k].step \in Waiting /\ step \in Waiting
         \/ conn[k].step \in Holding /\ step \in Holding
  PROVE  /\ conn' = [conn EXCEPT ![k] = [step |-> step, on |-> conn[k].on]]
         /\ [step |-> step, on |-> conn[k].on] \in Connection
<1>1. CASE conn[k].step \in Waiting /\ step \in Waiting
  <2>1. conn[k] = [step |-> conn[k].step, on |-> NoHelper]
    BY <1>1, StepOf
  <2>2. PICK s \in Waiting, h \in {NoHelper} : conn[k] = [step |-> s, on |-> h]
    BY <1>1, <2>1
  <2>3. conn[k].on = NoHelper /\ [conn[k] EXCEPT !.step = step] = [step |-> step, on |-> NoHelper]
    BY <2>2
  <2> QED BY <1>1, <2>3 DEF Leads, Connection
<1>2. CASE conn[k].step \in Holding /\ step \in Holding
  <2>1. conn[k] = [step |-> conn[k].step, on |-> conn[k].on] /\ conn[k].on \in Helpers
    BY <1>2, StepOf
  <2>2. [conn[k] EXCEPT !.step = step] = [step |-> step, on |-> conn[k].on]
    <3>1. PICK s \in Holding, h \in Helpers : conn[k] = [step |-> s, on |-> h]
      BY <1>2, <2>1
    <3> QED BY <3>1
  <2> QED BY <1>2, <2>1, <2>2 DEF Leads, Connection
<1> QED BY <1>1, <1>2

\* A connection that is closed, or not made yet.
LEMMA ClosedTyped ==
  /\ [step |-> "closed", on |-> NoHelper] \in Connection
  /\ [step |-> "none", on |-> NoHelper] \in Connection
BY DEF Connection, Waiting

LEMMA LeadsKeeps ==
  ASSUME NEW k \in Connections, NEW step, SessionInv, Leads(k, step),
         \/ conn[k].step \in Waiting /\ step \in Waiting
         \/ conn[k].step \in Holding /\ step \in Holding,
         conn[k].step # "starting", step # "starting", step = "invalid" => Done(conn[k].on),
         UNCHANGED <<visited, helper, drops>>, backoff' \in BOOLEAN,
         \/ UNCHANGED session
         \/ session' = NoHelper /\ ~Locked /\ (session # NoHelper => Done(session))
  PROVE  SessionInv'
<1> DEFINE x == [step |-> step, on |-> conn[k].on]
<1>1. conn' = [conn EXCEPT ![k] = x] /\ x \in Connection
  BY LeadsTo DEF SessionInv
<1>2. x.step = step /\ x.on = conn[k].on
  OBVIOUS
<1> HIDE DEF x
<1> QED BY <1>1, <1>2, OutsideKeeps

\* Steps of connections outside the mutex that change no helper.
LEMMA OutsideSteps ==
  ASSUME NEW k \in Connections, SessionInv,
         \/ Accept(k) \/ Share(k) \/ BackOff(k) \/ Wakes(k) \/ Opens(k) \/ Refused(k)
         \/ Hangup(k)
  PROVE  SessionInv'
<1> USE DEF SessionInv
<1>1. CASE Accept(k)
  BY <1>1, LeadsKeeps DEF Accept, Waiting, SessionTyped
<1>2. CASE Share(k)
  <2>1. [step |-> "opening", on |-> session] \in Connection
    BY <1>2 DEF Share, Live, SessionTyped, Connection, Holding
  <2> QED BY <1>2, <2>1, OutsideKeeps DEF Share, SessionTyped
<1>3. CASE BackOff(k)
  <2>1. ~Locked /\ (session # NoHelper => Done(session))
    BY <1>3 DEF BackOff, Live
  <2>2. CASE Closes(k)
    BY <1>3, <2>1, <2>2, ClosedTyped, OutsideKeeps DEF BackOff, Closes, SessionTyped
  <2>3. CASE Leads(k, "waiting")
    BY <1>3, <2>1, <2>3, LeadsKeeps DEF BackOff, Waiting, SessionTyped
  <2> QED BY <1>3, <2>2, <2>3 DEF BackOff
<1>4. CASE Wakes(k)
  <2>1. CASE Closes(k)
    BY <1>4, <2>1, ClosedTyped, OutsideKeeps DEF Wakes, Closes, SessionTyped
  <2>2. CASE Leads(k, "get")
    BY <1>4, <2>2, LeadsKeeps DEF Wakes, Waiting, SessionTyped
  <2> QED BY <1>4, <2>1, <2>2 DEF Wakes
<1>5. CASE Opens(k)
  <2>1. PICK step \in {"refused", "joined"} : Leads(k, step)
    BY <1>5 DEF Opens
  <2> QED BY <1>5, <2>1, LeadsKeeps DEF Opens, Holding, SessionTyped
<1>6. CASE Refused(k)
  <2>1. CASE Closes(k)
    BY <1>6, <2>1, ClosedTyped, OutsideKeeps DEF Refused, Closes, SessionTyped
  <2>2. CASE Done(conn[k].on) /\ Leads(k, "invalid")
    BY <1>6, <2>2, LeadsKeeps DEF Refused, Holding, SessionTyped
  <2> QED BY <1>6, <2>1, <2>2 DEF Refused
<1>7. CASE Hangup(k)
  BY <1>7, ClosedTyped, OutsideKeeps DEF Hangup, Closes, SessionTyped
<1> QED BY <1>1, <1>2, <1>3, <1>4, <1>5, <1>6, <1>7

\* The mutex is free when a helper is to be started, and no helper runs.
LEMMA StartKeeps ==
  ASSUME NEW k \in Connections, SessionInv, StartHelper(k)
  PROVE  SessionInv'
<1> USE DEF SessionInv
<1>1. ~Locked /\ session' = NoHelper /\ (session # NoHelper => Done(session))
  BY DEF StartHelper, Live
<1>2. Helping = {}
  BY <1>1, SessionAssumption DEF Sole, Helping, Done, NoHelper
<1>3. CASE Closes(k) /\ UNCHANGED helper
  BY <1>1, <1>3, ClosedTyped, OutsideKeeps DEF StartHelper, Closes, SessionTyped
<1>4. CASE \E h \in Helpers :
             /\ helper[h] = "none"
             /\ helper' = [helper EXCEPT ![h] = "greets"]
             /\ conn' = [conn EXCEPT ![k] = [step |-> "starting", on |-> h]]
             /\ UNCHANGED backoff
  <2>1. PICK h \in Helpers :
             /\ helper[h] = "none"
             /\ helper' = [helper EXCEPT ![h] = "greets"]
             /\ conn' = [conn EXCEPT ![k] = [step |-> "starting", on |-> h]]
             /\ UNCHANGED backoff
    BY <1>4
  <2>2. [step |-> "starting", on |-> h] \in Connection
    BY DEF Connection, Holding
  <2>3. /\ conn' \in [Connections -> Connection]
        /\ conn'[k] = [step |-> "starting", on |-> h]
        /\ \A j \in Connections \ {k} : conn'[j] = conn[j]
    BY <2>1, <2>2, ConnBecomes
  <2>4. /\ helper' \in [Helpers -> {"none", "greets", "up", "gone"}]
        /\ helper'[h] = "greets" /\ \A g \in Helpers \ {h} : helper'[g] = helper[g]
    BY <2>1 DEF SessionTyped
  <2>5. SessionTyped'
    BY <1>1, <2>1, <2>3, <2>4 DEF SessionTyped, StartHelper
  <2>6. In({"starting"})' = {k}
    BY <1>1, <2>3 DEF In, Locked
  <2>7. Helping' = {h}
    BY <1>2, <2>4 DEF Helping
  <2>8. Sole'
    BY <1>1, <2>3, <2>4, <2>6, <2>7 DEF Sole, Locked
  <2>9. Dead'
    BY <2>1, <2>3, <2>4 DEF Dead, In, Done, StartHelper
  <2> QED BY <2>5, <2>8, <2>9
<1> QED BY <1>3, <1>4 DEF StartHelper

\* A helper that has answered is up, and the session of the manager; one that
\* has not is gone.
LEMMA GreetingKeeps ==
  ASSUME NEW k \in Connections, SessionInv, Greeted(k) \/ GreetingFails(k)
  PROVE  SessionInv'
<1> USE DEF SessionInv
<1>1. k \in In({"starting"}) /\ conn[k].step = "starting"
  BY DEF Greeted, GreetingFails, In
<1>2. In({"starting"}) = {k} /\ session = NoHelper /\ Helping \subseteq {conn[k].on}
  BY <1>1 DEF Sole
<1>3. conn[k].on \in Helpers
  BY <1>1, StepOf DEF Holding
<1> DEFINE h == conn[k].on
<1>4. CASE Greeted(k)
  <2>1. /\ conn' = [conn EXCEPT ![k] = [step |-> "opening", on |-> h]]
        /\ [step |-> "opening", on |-> h] \in Connection
    BY <1>1, <1>4, LeadsTo DEF Greeted, Holding
  <2>2. /\ conn' \in [Connections -> Connection]
        /\ conn'[k] = [step |-> "opening", on |-> h]
        /\ \A j \in Connections \ {k} : conn'[j] = conn[j]
    BY <2>1, ConnBecomes
  <2>3. /\ helper' \in [Helpers -> {"none", "greets", "up", "gone"}]
        /\ helper'[h] = "up" /\ \A g \in Helpers \ {h} : helper'[g] = helper[g]
    BY <1>3, <1>4 DEF Greeted, SessionTyped
  <2>4. SessionTyped'
    BY <1>3, <1>4, <2>2, <2>3 DEF Greeted, SessionTyped
  <2>5. In({"starting"})' = {}
    BY <1>2, <2>2 DEF In
  <2>6. Helping' \subseteq {h} /\ session' = h
    BY <1>2, <1>4, <2>3 DEF Helping, Greeted
  <2>7. Sole'
    BY <2>3, <2>5, <2>6 DEF Sole, Locked
  <2>8. helper[h] # "gone"
    BY <1>4 DEF Greeted
  <2>9. \A j \in In({"invalid"}) : conn[j].on \in Helpers
    BY StepOf DEF In, Holding
  <2>10. Dead'
    BY <2>2, <2>3, <2>8, <2>9 DEF Dead, In, Done
  <2> QED BY <2>4, <2>7, <2>10
<1>5. CASE GreetingFails(k)
  <2>1. /\ conn' \in [Connections -> Connection]
        /\ conn'[k] = [step |-> "closed", on |-> NoHelper]
        /\ \A j \in Connections \ {k} : conn'[j] = conn[j]
    BY <1>5, ClosedTyped, ConnBecomes DEF GreetingFails, Closes
  <2>2. /\ helper' \in [Helpers -> {"none", "greets", "up", "gone"}]
        /\ helper'[h] = "gone" /\ \A g \in Helpers \ {h} : helper'[g] = helper[g]
    BY <1>3, <1>5 DEF GreetingFails, SessionTyped
  <2>3. SessionTyped'
    BY <1>5, <2>1, <2>2 DEF GreetingFails, SessionTyped
  <2>4. In({"starting"})' = {}
    BY <1>2, <2>1 DEF In
  <2>5. Helping' = {} /\ session' = NoHelper
    BY <1>2, <1>5, <2>2 DEF Helping, GreetingFails
  <2>6. Sole'
    BY <2>4, <2>5 DEF Sole, Locked
  <2>7. \A j \in In({"invalid"}) : conn[j].on \in Helpers
    BY StepOf DEF In, Holding
  <2>8. Dead'
    BY <2>1, <2>2, <2>7 DEF Dead, In, Done
  <2> QED BY <2>3, <2>6, <2>8
<1> QED BY <1>4, <1>5

\* A session that is given up is dead, so that its helper changes no more.
LEMMA InvalidateKeeps ==
  ASSUME NEW k \in Connections, SessionInv, Invalidate(k)
  PROVE  SessionInv' /\ helper' = helper
<1> USE DEF SessionInv
<1>1. conn[k].step = "invalid" /\ Done(conn[k].on) /\ conn[k].on \in Helpers
  BY StepOf DEF Invalidate, Dead, In, Holding
<1>2. helper' = helper /\ (UNCHANGED session \/ (session' = NoHelper /\ Done(session)))
  BY <1>1 DEF Invalidate, Done, SessionTyped
<1> QED
  BY <1>1, <1>2, ClosedTyped, OutsideKeeps DEF Invalidate, Closes, SessionTyped

\* A helper may end at any time.
LEMMA HelperEndsKeeps ==
  ASSUME NEW h \in Helpers, SessionInv, HelperEnds(h)
  PROVE  SessionInv'
<1> USE DEF SessionInv
<1>1. /\ helper' \in [Helpers -> {"none", "greets", "up", "gone"}]
      /\ helper'[h] = "gone" /\ \A g \in Helpers \ {h} : helper'[g] = helper[g]
  BY DEF HelperEnds, SessionTyped
<1>2. drops' \in 0 .. MaxDrops
  BY SessionAssumption DEF HelperEnds, SessionTyped
<1>3. SessionTyped'
  BY <1>1, <1>2 DEF HelperEnds, SessionTyped
<1>4. Helping' \subseteq Helping
  BY <1>1 DEF Helping
<1>5. In({"starting"})' = In({"starting"}) /\ UNCHANGED <<conn, session>>
  BY DEF HelperEnds, In
<1>6. \A k \in In({"starting"}) : conn[k].on \in Helpers
  BY StepOf DEF In, Holding
<1>7. Sole'
  <2>1. \A k \in In({"starting"}) : helper'[conn[k].on] \in {"greets", "gone"}
    BY <1>1, <1>6 DEF Sole
  <2>2. session # NoHelper => helper'[session] \in {"up", "gone"}
    BY <1>1 DEF Sole, SessionTyped
  <2> QED BY <1>4, <1>5, <2>1, <2>2 DEF Sole, Locked
<1>8. Dead'
  <2>1. \A k \in In({"invalid"}) : conn[k].on \in Helpers
    BY StepOf DEF In, Holding
  <2>2. In({"invalid"})' = In({"invalid"})
    BY DEF HelperEnds, In
  <2> QED BY <1>1, <1>5, <2>1, <2>2 DEF Dead, Done
<1> QED BY <1>3, <1>7, <1>8

LEMMA QuietSession ==
  ASSUME SessionInv, UNCHANGED <<visited, session, helper, conn, drops>>, backoff' \in BOOLEAN
  PROVE  SessionInv'
<1>1. SessionTyped'
  BY DEF SessionInv, SessionTyped
<1>2. Sole'
  BY DEF SessionInv, Sole, Locked, In, Helping
<1>3. Dead'
  BY DEF SessionInv, Dead, In, Done
<1> QED BY <1>1, <1>2, <1>3 DEF SessionInv

-----------------------------------------------------------------------------
(* The invariant, and what a step may not do *)

LEMMA InitInv == SessionInit => Inv
<1> SUFFICES ASSUME SessionInit PROVE Inv
  OBVIOUS
<1>1. EdgeInv
  <2>1. PICK v \in Versions, first \in BOOLEAN :
          edge = [e \in Edges |->
                    IF first /\ e = 1
                    THEN [NotStarted EXCEPT !.phase = "serving", !.binary = v, !.companion = v]
                    ELSE NotStarted]
    BY DEF SessionInit, Init
  <2> DEFINE serving == [NotStarted EXCEPT !.phase = "serving", !.binary = v, !.companion = v]
  <2>2. NotStarted \in Process /\ NotStarted.tries = 0
    BY DEF NotStarted, Process, Phases, Version
  <2>4. serving \in Process /\ serving.tries = 0
    BY <2>2 DEF Process, Phases, Version, NotStarted
  <2>5. \A e \in Edges : edge[e] = serving \/ edge[e] = NotStarted
    BY <2>1
  <2> HIDE DEF serving
  <2>6. edge \in [Edges -> Process] /\ \A e \in Edges : edge[e].tries = 0
    BY <2>1, <2>2, <2>4, <2>5
  <2>3. \A e \in Edges : edge[e] \in Process /\ edge[e].tries \in 0 .. 1
    BY <2>6
  <2> QED BY <2>3, <2>6 DEF EdgeInv
<1>2. FilesInv
  <2>1. PICK v \in Versions, first \in BOOLEAN :
          /\ lock = IF first THEN Record(1) ELSE NoLock
          /\ metadata = IF first THEN v ELSE None
          /\ staged = IF first THEN {v} ELSE {}
    BY DEF SessionInit, Init
  <2> QED BY <2>1, RecordTyped, EdgeAssumption DEF FilesInv, Version
<1>3. WorldInv
  BY DEF SessionInit, Init, WorldInv
<1>4. CmdInv
  <2>1. NotCalled \in Invocation /\ Knows(NotCalled)
    BY EdgeAssumption
    DEF NotCalled, Invocation, Knows, Underway, Stopping, Steps, Version, Maybe, Results
  <2> QED BY <2>1 DEF SessionInit, Init, CmdInv
<1>5. FaultsInv
  BY EdgeAssumption DEF SessionInit, Init, FaultsInv
<1>6. SessionTyped
  <2>1. SessionInit => conn \in [Connections -> Connection]
    BY ClosedTyped DEF SessionInit
  <2>2. SessionInit => drops \in 0 .. MaxDrops
    BY SessionAssumption DEF SessionInit
  <2>3. SessionInit => helper \in [Helpers -> {"none", "greets", "up", "gone"}]
    BY DEF SessionInit
  <2> QED BY <2>1, <2>2, <2>3 DEF SessionInit, SessionTyped
<1>7. Sole
  BY DEF SessionInit, Sole, Locked, In, Helping
<1>8. Dead
  BY DEF SessionInit, Dead, In
<1> QED BY <1>1, <1>2, <1>3, <1>4, <1>5, <1>6, <1>7, <1>8 DEF Inv, TypeInv, SessionInv

\* Steps of WSLEdge that leave the sessions alone.
LEMMA EdgeSideKeeps ==
  ASSUME Inv, UNCHANGED sessionVars,
         \/ \E e \in Edges : EdgeStep(e) \/ Crash(e)
         \/ \E c \in Commands : CommandStep(c) \/ Call(c)
         \/ WindowsStops
  PROVE  Inv'
<1>1. SessionInv'
  BY QuietSession DEF Inv, SessionInv, SessionTyped, sessionVars, manager
<1>2. TypeInv'
  <2>1. ASSUME NEW e \in Edges, EdgeStep(e)
        PROVE  TypeInv'
    <3>1. EdgeInv' /\ FilesInv'
      BY <2>1, EdgeStepTyped DEF Inv, TypeInv
    <3>2. UNCHANGED <<windows, world, cmd, faults>>
      BY <2>1 DEF EdgeStep, Begin, Open, Write, Look, Unlink, Listen, Release, Erase
    <3> QED BY <3>1, <3>2 DEF Inv, TypeInv, WorldInv, CmdInv, FaultsInv, world
  <2> QED BY <2>1, CrashTyped, CommandStepTyped, CallTyped, WindowsStopsTyped DEF Inv
<1> QED BY <1>1, <1>2 DEF Inv

\* The process of the manager ends, and the manager with it.
LEMMA ProcessEnds ==
  ASSUME NEW e \in Edges, Inv, CloseManager(e) \/ Breaks(e)
  PROVE  Inv'
<1>1. CASE CloseManager(e)
  <2>1. EdgeInv' /\ FilesInv'
    BY <1>1, EdgeStepTyped DEF CloseManager, Inv, TypeInv
  <2>2. UNCHANGED <<windows, world, cmd, faults>>
    BY <1>1 DEF CloseManager, End
  <2>3. TypeInv'
    BY <2>1, <2>2 DEF Inv, TypeInv, WorldInv, CmdInv, FaultsInv, world
  <2> QED BY <1>1, <2>3, DisconnectKeeps DEF CloseManager, Inv
<1>2. CASE Breaks(e) /\ Disconnect
  BY <1>2, CrashTyped, DisconnectKeeps DEF Breaks, Inv
<1>3. CASE Breaks(e) /\ UNCHANGED sessionVars
  BY <1>3, EdgeSideKeeps DEF Breaks
<1> QED BY <1>1, <1>2, <1>3 DEF Breaks

\* Steps of the manager and its connections.
LEMMA SessionSideKeeps ==
  ASSUME Inv,
         \/ \E k \in Connections : Accept(k) \/ ConnectionStep(k)
         \/ \E h \in Helpers : HelperEnds(h)
         \/ NextAttempt
  PROVE  Inv'
<1>1. UNCHANGED vars
  BY DEF Accept, ConnectionStep, Share, BackOff, StartHelper, Greeted, GreetingFails, Wakes, Opens,
         Refused, Invalidate, Hangup, HelperEnds, NextAttempt
<1>2. TypeInv'
  BY <1>1
  DEF Inv, TypeInv, EdgeInv, FilesInv, WorldInv, CmdInv, FaultsInv, Phase, vars, files, world
<1>3. SessionInv'
  <2>1. ASSUME NEW k \in Connections, Accept(k) \/ ConnectionStep(k)
        PROVE  SessionInv'
    BY <2>1, OutsideSteps, StartKeeps, GreetingKeeps, InvalidateKeeps DEF ConnectionStep, Inv
  <2>2. CASE NextAttempt
    BY <2>2, QuietSession DEF NextAttempt, Inv
  <2> QED BY <2>1, <2>2, HelperEndsKeeps DEF Inv
<1> QED BY <1>2, <1>3 DEF Inv

LEMMA StepInv == Inv /\ [SessionNext]_allVars => Inv'
<1> SUFFICES ASSUME Inv, [SessionNext]_allVars PROVE Inv'
  OBVIOUS
<1>1. CASE UNCHANGED allVars
  <2>1. TypeInv'
    BY <1>1
    DEF Inv, TypeInv, EdgeInv, FilesInv, WorldInv, CmdInv, FaultsInv, Phase, allVars, vars, files,
        world
  <2>2. SessionInv'
    BY <1>1, QuietSession DEF Inv, SessionInv, SessionTyped, allVars, sessionVars, manager
  <2> QED BY <2>1, <2>2 DEF Inv
<1>2. CASE \/ \E e \in Edges : EdgeStep(e) /\ UNCHANGED sessionVars
           \/ \E c \in Commands : CommandStep(c) /\ UNCHANGED sessionVars
           \/ \E c \in Commands : CallOnce(c)
           \/ WindowsStops /\ UNCHANGED sessionVars
  BY <1>2, EdgeSideKeeps DEF CallOnce
<1>3. CASE \E e \in Edges : CloseManager(e) \/ Breaks(e)
  BY <1>3, ProcessEnds
<1>4. CASE \/ \E k \in Connections : Accept(k) \/ ConnectionStep(k)
           \/ \E h \in Helpers : HelperEnds(h)
           \/ NextAttempt
  BY <1>4, SessionSideKeeps
<1> QED BY <1>1, <1>2, <1>3, <1>4 DEF SessionNext, Finished

\* However many connections ask for a session at once, one helper runs at most
\* (the mutex of sessionManager.Get).
THEOREM OneHelperHolds == SessionSpec => []OneHelper
<1>1. SessionSpec => []Inv
  BY InitInv, StepInv, PTL DEF SessionSpec
<1> QED BY <1>1, InvGivesOneHelper, PTL

\* No step but those of the helper and of the process ends a session that works
\* (sessionManager.Invalidate compares the session that failed with its own).
THEOREM SessionIsKept == SessionSpec => SessionKept
<1> DEFINE Kept ==
      \A h \in Helpers :
        helper[h] = "up" /\ helper'[h] # "up" => drops' > drops \/ Listening' # Listening
<1>1. Inv /\ [SessionNext]_allVars => [Kept]_allVars
  <2> SUFFICES ASSUME Inv, [SessionNext]_allVars, NEW h \in Helpers,
                      helper[h] = "up", helper'[h] # "up"
               PROVE  drops' > drops \/ Listening' # Listening
    OBVIOUS
  <2>1. CASE UNCHANGED helper
    BY <2>1
  <2>2. ASSUME NEW k \in Connections, Accept(k) \/ ConnectionStep(k)
        PROVE  FALSE
    <3>1. CASE StartHelper(k)
      BY <3>1 DEF StartHelper, Inv, SessionInv, SessionTyped
    <3>2. CASE Greeted(k)
      BY <3>2 DEF Greeted, Inv, SessionInv, SessionTyped
    <3>3. CASE GreetingFails(k)
      <4>1. k \in In({"starting"}) /\ conn[k].on \in Helpers
        BY <3>3, StepOf DEF GreetingFails, In, Holding, Inv, SessionInv
      <4>2. h = conn[k].on
        BY <3>3, <4>1 DEF GreetingFails, Inv, SessionInv, SessionTyped
      <4> QED BY <4>1, <4>2 DEF Inv, SessionInv, Sole
    <3>4. CASE Invalidate(k)
      BY <3>4, InvalidateKeeps DEF Inv
    <3> QED
      BY <2>2, <3>1, <3>2, <3>3, <3>4
      DEF ConnectionStep, Accept, Share, BackOff, Wakes, Opens, Refused, Hangup
  <2>3. ASSUME NEW g \in Helpers, HelperEnds(g)
        PROVE  drops' > drops
    BY <2>3, SessionAssumption DEF HelperEnds, Inv, SessionInv, SessionTyped
  <2>4. ASSUME NEW e \in Edges, e \in Listening, End(e) \/ Crash(e)
        PROVE  Listening' # Listening
    <3>1. edge \in [Edges -> Process]
      BY DEF Inv, TypeInv, EdgeInv
    <3>2. edge'[e].phase \in {"release", "gone"}
      BY <2>4, <3>1 DEF End, Crash, Goes, Process
    <3>3. e \notin Listening'
      BY <3>2 DEF Listening, Is, Phase
    <3> QED BY <2>4, <3>3
  <2>5. ASSUME NEW e \in Edges, CloseManager(e) \/ Breaks(e)
        PROVE  Listening' # Listening
    <3>1. CASE CloseManager(e)
      BY <2>4, <3>1 DEF CloseManager, End, Listening, Is
    <3>2. CASE Breaks(e)
      BY <2>4, <3>2 DEF Breaks, sessionVars, manager
    <3> QED BY <2>5, <3>1, <3>2
  <2> QED
    BY <2>1, <2>2, <2>3, <2>5
    DEF SessionNext, CallOnce, NextAttempt, Finished, allVars, sessionVars, manager
<1>2. SessionSpec => []Inv
  BY InitInv, StepInv, PTL DEF SessionSpec
<1> QED BY <1>1, <1>2, PTL DEF SessionSpec, SessionKept

-----------------------------------------------------------------------------
(* Commands and edges *)

NoneStarts == Is(Starting) = {}

\* A number that is still free is as it was at the start, an edge that has not
\* looked for the lock has tried it once at most, and who has no lock yet or has
\* found it taken is not in it.
Begun(e) ==
    /\ Phase(e) \in {"none", "begun"} => edge[e].tries = 0
    /\ Phase(e) = "none" => ~edge[e].told
    /\ Phase(e) # "none" => edge[e].binary \in Versions
    /\ Phase(e) \in {"none", "begun", "open", "look", "unlink"} => lock.by # e

\* A command is cancelled by a fault, and the faults it counts are not later ones.
Counted(c) ==
    /\ cmd[c].cancelled => faults > 0
    /\ cmd[c].calm <= faults \/ cmd[c].calm = MaxFaults + 1

InTurn ==
    alone => \A c, d \in Commands :
               cmd[c].step \in Underway /\ cmd[d].step \in Underway => c = d

BasicInv ==
    /\ \A e \in Edges : Begun(e)
    /\ \A e, f \in Listening : e = f
    /\ \A c \in Commands : Counted(c)
    /\ InTurn

-----------------------------------------------------------------------------

\* What the step of an edge leaves alone.
LEMMA EdgeMoves ==
  ASSUME TypeInv, NEW e \in Edges, EdgeStep(e) \/ End(e) \/ Crash(e)
  PROVE  /\ \A f \in Edges \ {e} : edge'[f] = edge[f]
         /\ edge'[e].binary = edge[e].binary /\ edge'[e].told = edge[e].told
         /\ e \in Living /\ edge'[e].phase \notin {"none", "begun"}
         /\ Living' \subseteq Living /\ Living \subseteq Living' \cup {e}
         /\ UNCHANGED <<metadata, staged, windows, world, cmd>>
<1>1. edge \in [Edges -> Process] /\ edge[e] \in Process
  BY DEF TypeInv, EdgeInv
<1>2. CASE \E phase \in {"open", "made", "look", "unlink", "listen", "serving", "release", "erase", "gone"} :
             Goes(e, phase) /\ e \in Living /\ UNCHANGED <<metadata, staged, windows, world, cmd>>
  <2>1. PICK phase \in {"open", "made", "look", "unlink", "listen", "serving", "release", "erase", "gone"} :
             Goes(e, phase) /\ e \in Living
    BY <1>2
  <2>2. edge'[e] = [edge[e] EXCEPT !.phase = phase] /\ \A f \in Edges \ {e} : edge'[f] = edge[f]
    BY <1>1, <2>1 DEF Goes
  <2>3. edge'[e].phase = phase /\ edge'[e].binary = edge[e].binary /\ edge'[e].told = edge[e].told
    BY <1>1, <2>2 DEF Process
  <2> QED BY <1>2, <2>1, <2>2, <2>3 DEF Living, Is, Phase
<1>3. CASE Unlink(e)
  <2>1. /\ edge'[e] = [edge[e] EXCEPT !.tries = @ + 1,
                                      !.phase = IF edge[e].tries = 0 THEN "open" ELSE "gone"]
        /\ \A f \in Edges \ {e} : edge'[f] = edge[f]
    BY <1>1, <1>3 DEF Unlink
  <2>2. /\ edge'[e].phase \in {"open", "gone"} /\ edge'[e].binary = edge[e].binary
        /\ edge'[e].told = edge[e].told
    BY <1>1, <2>1 DEF Process
  <2> QED BY <1>3, <2>1, <2>2 DEF Living, Is, Phase, Unlink, world
<1>4. Begin(e) \/ Open(e) \/ Write(e) \/ Look(e) \/ Listen(e) \/ Release(e) \/ Erase(e) \/ End(e)
        => e \in Living
  BY DEF Begin, Open, Write, Look, Listen, Release, Erase, End, Living, Is
<1> QED
  BY <1>2, <1>3, <1>4
  DEF EdgeStep, Begin, Open, Write, Look, Listen, Release, Erase, End, Crash, files

\* How the lock changes at the step of an edge.
LEMMA EdgeLocks ==
  ASSUME TypeInv, NEW e \in Edges, EdgeStep(e) \/ End(e) \/ Crash(e)
  PROVE  \/ lock' = lock
         \/ lock' = NoLock /\ Phase(e) \in {"unlink", "erase"}
         \/ lock' = [by |-> e, written |-> FALSE] /\ Phase(e) = "open" /\ lock = NoLock
              /\ edge'[e].phase = "made"
         \/ lock' = Record(e) /\ Phase(e) = "made" /\ lock.by = e
BY DEF EdgeStep, Begin, Open, Write, Look, Unlink, Listen, Release, Erase, End, Crash, files, Goes,
       TypeInv, EdgeInv, Process


LEMMA ToGives ==
  ASSUME CmdInv, NEW c \in Commands, NEW step, To(c, step)
  PROVE  /\ cmd'[c].step = step
         /\ cmd'[c].kind = cmd[c].kind /\ cmd'[c].version = cmd[c].version
         /\ cmd'[c].want = cmd[c].want /\ cmd'[c].seen = cmd[c].seen
         /\ cmd'[c].target = cmd[c].target /\ cmd'[c].then = cmd[c].then
         /\ cmd'[c].installed = cmd[c].installed /\ cmd'[c].cancelled = cmd[c].cancelled
         /\ cmd'[c].calm = cmd[c].calm /\ cmd'[c].result = cmd[c].result
         /\ \A d \in Commands \ {c} : cmd'[d] = cmd[d]
<1>1. cmd'[c] = [cmd[c] EXCEPT !.step = step] /\ \A d \in Commands \ {c} : cmd'[d] = cmd[d]
  BY DEF CmdInv, To
<1>2. cmd[c] \in Invocation
  BY DEF CmdInv
<1> QED BY <1>1, <1>2 DEF Invocation

LEMMA EndsGives ==
  ASSUME CmdInv, NEW c \in Commands, NEW result, Ends(c, result)
  PROVE  /\ cmd'[c].step = "over" /\ cmd'[c].result = result /\ ~cmd'[c].cancelled
         /\ cmd'[c].kind = cmd[c].kind /\ cmd'[c].calm = cmd[c].calm
         /\ \A d \in Commands \ {c} : cmd'[d] = cmd[d]
BY DEF CmdInv, Ends, NotCalled

LEMMA FailsGives ==
  ASSUME CmdInv, NEW c \in Commands, Fails(c)
  PROVE  /\ cmd'[c].step = "over" /\ cmd'[c].result = "failed" /\ ~cmd'[c].cancelled
         /\ cmd'[c].kind = cmd[c].kind /\ cmd'[c].calm = cmd[c].calm
         /\ \A d \in Commands \ {c} : cmd'[d] = cmd[d]
BY EndsGives DEF Fails

LEMMA StopsGives ==
  ASSUME CmdInv, NEW c \in Commands, NEW next, cmd' = Stops(c, next)
  PROVE  /\ cmd'[c].step = "stop" /\ cmd'[c].then = next
         /\ cmd'[c].kind = cmd[c].kind /\ cmd'[c].version = cmd[c].version
         /\ cmd'[c].want = cmd[c].want /\ cmd'[c].seen = cmd[c].seen
         /\ cmd'[c].cancelled = cmd[c].cancelled
         /\ cmd'[c].calm = cmd[c].calm /\ cmd'[c].result = cmd[c].result
         /\ \A d \in Commands \ {c} : cmd'[d] = cmd[d]
<1>1. /\ cmd'[c] = [cmd[c] EXCEPT !.step = "stop", !.then = next]
      /\ \A d \in Commands \ {c} : cmd'[d] = cmd[d]
  BY DEF CmdInv, Stops
<1>2. cmd[c] \in Invocation
  BY DEF CmdInv
<1> QED BY <1>1, <1>2 DEF Invocation

LEMMA CallGives ==
  ASSUME CmdInv, NEW c \in Commands, Call(c)
  PROVE  /\ cmd[c] = NotCalled
         /\ \A d \in Commands \ {c} : cmd'[d] = cmd[d]
         /\ ~cmd'[c].cancelled /\ ~cmd'[c].installed /\ cmd'[c].result = "none"
         /\ cmd'[c].version \in Versions
         /\ cmd'[c].calm = IF alone /\ Ready THEN faults ELSE MaxFaults + 1
         /\ \/ cmd'[c].kind = "run" /\ cmd'[c].step = "identify"
            \/ cmd'[c].kind = "setup" /\ cmd'[c].step = "stage"
            \/ cmd'[c].kind = "uninstall" /\ cmd'[c].step = "stop" /\ cmd'[c].then = "remove"
         /\ alone => Settled /\ \A d \in Commands : cmd[d].step \notin Underway
         /\ UNCHANGED <<edge, files, windows, world, faults>>
<1>1. PICK kind \in Kinds, v \in Versions :
        cmd' = [cmd EXCEPT ![c] =
                   [NotCalled EXCEPT !.kind = kind, !.version = v,
                      !.calm = IF alone /\ Ready THEN faults ELSE MaxFaults + 1,
                      !.step = CASE kind = "run"       -> "identify"
                                 [] kind = "setup"     -> "stage"
                                 [] kind = "uninstall" -> "stop",
                      !.then = IF kind = "uninstall" THEN "remove" ELSE "none"]]
  BY DEF Call
<1> DEFINE calm == IF alone /\ Ready THEN faults ELSE MaxFaults + 1
           step == CASE kind = "run" -> "identify" [] kind = "setup" -> "stage"
                     [] kind = "uninstall" -> "stop"
           then == IF kind = "uninstall" THEN "remove" ELSE "none"
<1>2. /\ cmd'[c] = [NotCalled EXCEPT !.kind = kind, !.version = v, !.calm = calm,
                                     !.step = step, !.then = then]
      /\ \A d \in Commands \ {c} : cmd'[d] = cmd[d]
  BY <1>1 DEF CmdInv
<1>3. \/ kind = "run" /\ step = "identify"
      \/ kind = "setup" /\ step = "stage"
      \/ kind = "uninstall" /\ step = "stop" /\ then = "remove"
  BY DEF Kinds
<1> HIDE DEF calm, step, then
<1>4. /\ cmd'[c].kind = kind /\ cmd'[c].step = step /\ cmd'[c].then = then /\ cmd'[c].calm = calm
      /\ ~cmd'[c].cancelled /\ ~cmd'[c].installed /\ cmd'[c].result = "none"
      /\ cmd'[c].version = v
  BY <1>2 DEF NotCalled
<1>5. alone => \A d \in Commands : cmd[d].step \notin Underway
  BY DEF Call, NotCalled, Over, Underway
<1> QED BY <1>2, <1>3, <1>4, <1>5 DEF Call, calm

LEMMA InspectGives ==
  ASSUME CmdInv, NEW c \in Commands, Inspect(c), ~Fails(c)
  PROVE  /\ cmd'[c].step = "probe" /\ cmd'[c].seen = IF Owned THEN lock.by ELSE 0
         /\ cmd'[c].kind = cmd[c].kind /\ cmd'[c].version = cmd[c].version
         /\ cmd'[c].cancelled = cmd[c].cancelled
         /\ cmd'[c].calm = cmd[c].calm /\ cmd'[c].result = cmd[c].result
         /\ \A d \in Commands \ {c} : cmd'[d] = cmd[d]
<1> DEFINE seen == IF Owned THEN lock.by ELSE 0
<1>1. cmd' = [cmd EXCEPT ![c].seen = seen, ![c].step = "probe"]
  BY DEF Inspect
<1>2. cmd[c] \in Invocation
  BY DEF CmdInv
<1> HIDE DEF seen
<1>3. /\ cmd'[c] = [cmd[c] EXCEPT !.seen = seen, !.step = "probe"]
      /\ \A d \in Commands \ {c} : cmd'[d] = cmd[d]
  BY <1>1 DEF CmdInv
<1>4. /\ cmd'[c].step = "probe" /\ cmd'[c].seen = seen
      /\ cmd'[c].kind = cmd[c].kind /\ cmd'[c].version = cmd[c].version
      /\ cmd'[c].cancelled = cmd[c].cancelled
      /\ cmd'[c].calm = cmd[c].calm /\ cmd'[c].result = cmd[c].result
  BY <1>2, <1>3 DEF Invocation
<1> QED BY <1>3, <1>4 DEF seen

\* A run that goes on to replace what it has found.
Replaces(c) ==
    cmd' = [cmd EXCEPT ![c].want = metadata, ![c].then = "launch",
                       ![c].step = IF cmd[c].seen # 0 THEN "stop" ELSE "launch"]

LEMMA ChooseGives ==
  ASSUME CmdInv, NEW c \in Commands, Replaces(c)
  PROVE  /\ cmd'[c].step = IF cmd[c].seen # 0 THEN "stop" ELSE "launch"
         /\ cmd'[c].want = metadata /\ cmd'[c].then = "launch" /\ cmd'[c].seen = cmd[c].seen
         /\ cmd'[c].kind = cmd[c].kind /\ cmd'[c].version = cmd[c].version
         /\ cmd'[c].cancelled = cmd[c].cancelled
         /\ cmd'[c].calm = cmd[c].calm /\ cmd'[c].result = cmd[c].result
         /\ \A d \in Commands \ {c} : cmd'[d] = cmd[d]
<1> DEFINE step == IF cmd[c].seen # 0 THEN "stop" ELSE "launch"
<1>1. cmd' = [cmd EXCEPT ![c].want = metadata, ![c].then = "launch", ![c].step = step]
  BY DEF Replaces
<1>2. cmd[c] \in Invocation
  BY DEF CmdInv
<1> HIDE DEF step
<1>3. /\ cmd'[c] = [cmd[c] EXCEPT !.want = metadata, !.then = "launch", !.step = step]
      /\ \A d \in Commands \ {c} : cmd'[d] = cmd[d]
  BY <1>1 DEF CmdInv
<1>4. /\ cmd'[c].step = step
      /\ cmd'[c].want = metadata /\ cmd'[c].then = "launch" /\ cmd'[c].seen = cmd[c].seen
      /\ cmd'[c].kind = cmd[c].kind /\ cmd'[c].version = cmd[c].version
      /\ cmd'[c].cancelled = cmd[c].cancelled
      /\ cmd'[c].calm = cmd[c].calm /\ cmd'[c].result = cmd[c].result
  BY <1>2, <1>3 DEF Invocation
<1> QED BY <1>3, <1>4 DEF step

\* A Stop that has found a record, and a run that has installed its version.
Judges(c) == cmd' = [cmd EXCEPT ![c].target = lock.by, ![c].step = "judge"]
Upgrades(c) == cmd' = [cmd EXCEPT ![c].step = "identify", ![c].installed = TRUE]

LEMMA StopReadsGives ==
  ASSUME CmdInv, NEW c \in Commands, Judges(c)
  PROVE  /\ cmd'[c].step = "judge" /\ cmd'[c].target = lock.by
         /\ cmd'[c].kind = cmd[c].kind /\ cmd'[c].version = cmd[c].version
         /\ cmd'[c].want = cmd[c].want /\ cmd'[c].seen = cmd[c].seen
         /\ cmd'[c].then = cmd[c].then
         /\ cmd'[c].cancelled = cmd[c].cancelled
         /\ cmd'[c].calm = cmd[c].calm /\ cmd'[c].result = cmd[c].result
         /\ \A d \in Commands \ {c} : cmd'[d] = cmd[d]
<1>1. /\ cmd'[c] = [cmd[c] EXCEPT !.target = lock.by, !.step = "judge"]
      /\ \A d \in Commands \ {c} : cmd'[d] = cmd[d]
  BY DEF CmdInv, Judges
<1>2. cmd[c] \in Invocation
  BY DEF CmdInv
<1> QED BY <1>1, <1>2 DEF Invocation

LEMMA InstallGives ==
  ASSUME CmdInv, NEW c \in Commands, Upgrades(c)
  PROVE  /\ cmd'[c].step = "identify"
         /\ cmd'[c].kind = cmd[c].kind /\ cmd'[c].version = cmd[c].version
         /\ cmd'[c].cancelled = cmd[c].cancelled
         /\ cmd'[c].calm = cmd[c].calm /\ cmd'[c].result = cmd[c].result
         /\ \A d \in Commands \ {c} : cmd'[d] = cmd[d]
<1>1. /\ cmd'[c] = [cmd[c] EXCEPT !.step = "identify", !.installed = TRUE]
      /\ \A d \in Commands \ {c} : cmd'[d] = cmd[d]
  BY DEF CmdInv, Upgrades
<1>2. cmd[c] \in Invocation
  BY DEF CmdInv
<1> QED BY <1>1, <1>2 DEF Invocation

LEMMA InterruptGives ==
  ASSUME TypeInv, NEW c \in Commands, Interrupt(c)
  PROVE  /\ cmd'[c].cancelled
         /\ cmd'[c].step = cmd[c].step /\ cmd'[c].kind = cmd[c].kind
         /\ cmd'[c].seen = cmd[c].seen /\ cmd'[c].target = cmd[c].target
         /\ cmd'[c].then = cmd[c].then /\ cmd'[c].calm = cmd[c].calm
         /\ cmd'[c].version = cmd[c].version
         /\ \A d \in Commands \ {c} : cmd'[d] = cmd[d]
         /\ faults' = faults + 1 /\ faults \in Nat
<1>1. /\ cmd'[c] = [cmd[c] EXCEPT !.cancelled = TRUE]
      /\ \A d \in Commands \ {c} : cmd'[d] = cmd[d]
  BY DEF TypeInv, CmdInv, Interrupt
<1>2. cmd[c] \in Invocation /\ faults \in Nat
  BY EdgeAssumption DEF TypeInv, CmdInv, FaultsInv
<1> QED BY <1>1, <1>2 DEF Invocation, Interrupt, Another

\* Who starts an edge, and who tells one to end.
LEMMA StartsGives ==
  ASSUME EdgeInv, NEW v, NEW companion, Starts(v, companion)
  PROVE  \E e \in Edges :
           /\ Phase(e) = "none"
           /\ edge'[e].phase = "begun" /\ edge'[e].binary = v
           /\ edge'[e].tries = edge[e].tries /\ edge'[e].told = edge[e].told
           /\ \A f \in Edges \ {e} : edge'[f] = edge[f]
           /\ Living' = Living \cup {e} /\ e \notin Living /\ Listening' = Listening
<1>1. PICK e \in Edges :
        /\ Fresh(e)
        /\ edge' = [edge EXCEPT ![e].phase = "begun", ![e].binary = v, ![e].companion = companion]
  BY DEF Starts
<1>2. edge[e] \in Process /\ Phase(e) = "none"
  BY <1>1 DEF EdgeInv, Fresh
<1>3. /\ edge'[e] = [edge[e] EXCEPT !.phase = "begun", !.binary = v, !.companion = companion]
      /\ \A f \in Edges \ {e} : edge'[f] = edge[f]
  BY <1>1 DEF EdgeInv
<1>4. /\ edge'[e].phase = "begun" /\ edge'[e].binary = v
      /\ edge'[e].tries = edge[e].tries /\ edge'[e].told = edge[e].told
  BY <1>2, <1>3 DEF Process
<1>5. Living' = Living \cup {e} /\ e \notin Living /\ Listening' = Listening
  BY <1>2, <1>3, <1>4 DEF Living, Listening, Is, Phase
<1> QED BY <1>2, <1>3, <1>4, <1>5

LEMMA SignalGives ==
  ASSUME EdgeInv, NEW e \in Edges, edge' = [edge EXCEPT ![e].told = TRUE]
  PROVE  /\ \A f \in Edges : /\ edge'[f].phase = edge[f].phase /\ edge'[f].binary = edge[f].binary
                             /\ edge'[f].tries = edge[f].tries
                             /\ f # e => edge'[f].told = edge[f].told
         /\ \A phases : Is(phases)' = Is(phases)
         /\ Living' = Living /\ Listening' = Listening
<1>1. \A f \in Edges : edge[f] \in Process
  BY DEF EdgeInv
<1>2. /\ edge'[e] = [edge[e] EXCEPT !.told = TRUE] /\ \A f \in Edges \ {e} : edge'[f] = edge[f]
  BY DEF EdgeInv
<1>3. \A f \in Edges : /\ edge'[f].phase = edge[f].phase /\ edge'[f].binary = edge[f].binary
                       /\ edge'[f].tries = edge[f].tries
                       /\ f # e => edge'[f].told = edge[f].told
  <2>1. /\ edge'[e].phase = edge[e].phase /\ edge'[e].binary = edge[e].binary
        /\ edge'[e].tries = edge[e].tries
    BY <1>1, <1>2 DEF Process
  <2> QED BY <2>1, <1>2
<1>4. ASSUME NEW phases PROVE Is(phases)' = Is(phases)
  BY <1>3 DEF Is, Phase
<1> QED BY <1>3, <1>4 DEF Living, Listening

-----------------------------------------------------------------------------

\* What every step of a command has in common.
LEMMA CommandMoves ==
  ASSUME TypeInv, NEW c \in Commands, CommandStep(c)
  PROVE  /\ \A d \in Commands \ {c} : cmd'[d] = cmd[d]
         /\ cmd'[c].kind = cmd[c].kind /\ cmd'[c].calm = cmd[c].calm
         /\ cmd'[c].cancelled => cmd[c].cancelled \/ Interrupt(c)
         /\ cmd'[c].step \in Underway => cmd[c].step \in Underway
         /\ ~Interrupt(c) => cmd[c].step \in Underway
         /\ UNCHANGED world
         /\ \/ UNCHANGED faults
            \/ faults' = faults + 1 /\ (StopTimesOut(c) \/ RemoveFails(c) \/ Interrupt(c))
<1> USE DEF TypeInv
<1>1. UNCHANGED world /\ \/ UNCHANGED faults
                         \/ faults' = faults + 1 /\ (StopTimesOut(c) \/ RemoveFails(c) \/ Interrupt(c))
  BY DEF CommandStep, Identify, Stage, Install, Inspect, Probe, Validate, Choose, Launch, Wait,
         Rollback, Restore, Restored, StopReads, StopSignals, StopWaits, StopClears, Remove,
         Interrupt, StopTimesOut, RemoveFails, Another
<1>2. \/ \E step : To(c, step)
      \/ \E result : Ends(c, result)
      \/ \E next : cmd' = Stops(c, next)
      \/ Inspect(c) /\ ~Fails(c)
      \/ Replaces(c)
      \/ Judges(c)
      \/ Upgrades(c)
      \/ Interrupt(c)
  BY DEF CommandStep, Identify, Stage, Install, Inspect, Probe, Validate, Choose, Launch, Wait,
         Rollback, Restore, Restored, StopReads, StopSignals, StopWaits, StopClears, Remove,
         StopTimesOut, RemoveFails, Fails, Replaces, Judges, Upgrades
<1> DEFINE Keeps == /\ \A d \in Commands \ {c} : cmd'[d] = cmd[d]
                    /\ cmd'[c].kind = cmd[c].kind /\ cmd'[c].calm = cmd[c].calm
                    /\ cmd'[c].cancelled => cmd[c].cancelled \/ Interrupt(c)
<1>3. Keeps
  <2>1. ASSUME NEW step, To(c, step) PROVE Keeps
    BY <2>1, ToGives
  <2>2. ASSUME NEW result, Ends(c, result) PROVE Keeps
    BY <2>2, EndsGives
  <2>3. ASSUME NEW next, cmd' = Stops(c, next) PROVE Keeps
    BY <2>3, StopsGives
  <2>4. ASSUME Inspect(c), ~Fails(c) PROVE Keeps
    BY <2>4, InspectGives
  <2>5. ASSUME Replaces(c) PROVE Keeps
    BY <2>5, ChooseGives
  <2>6. ASSUME Judges(c) PROVE Keeps
    BY <2>6, StopReadsGives
  <2>7. ASSUME Upgrades(c) PROVE Keeps
    BY <2>7, InstallGives
  <2>8. ASSUME Interrupt(c) PROVE Keeps
    BY <2>8, InterruptGives
  <2> HIDE DEF Keeps
  <2> QED BY <1>2, <2>1, <2>2, <2>3, <2>4, <2>5, <2>6, <2>7, <2>8
<1>4. ~Interrupt(c) => cmd[c].step \in Underway
  BY CommandTyped
  DEF CommandStep, Identify, Stage, Install, Inspect, Probe, Validate, Choose, Launch, Wait,
      Rollback, Restore, Restored, StopReads, StopSignals, StopWaits, StopClears, Remove,
      StopTimesOut, RemoveFails, At, Underway, Steps
<1>5. Interrupt(c) => cmd'[c].step = cmd[c].step
  BY InterruptGives
<1> QED BY <1>1, <1>3, <1>4, <1>5

\* What it does to edges and to the lock.
LEMMA CommandEffects ==
  ASSUME TypeInv, NEW c \in Commands, CommandStep(c)
  PROVE  /\ lock' = lock \/ (lock' = NoLock /\ (StopClears(c) \/ Remove(c)))
         /\ \/ UNCHANGED edge
            \/ \E v \in staged, companion \in Version :
                 Starts(v, companion) /\ (Launch(c) \/ Restore(c))
            \/ StopSignals(c) /\ cmd[c].target \in Living /\ Verified(cmd[c].target)
                 /\ edge' = [edge EXCEPT ![cmd[c].target].told = TRUE]
<1>1. lock' = lock \/ (lock' = NoLock /\ (StopClears(c) \/ Remove(c)))
  BY DEF CommandStep, Identify, Stage, Install, Inspect, Probe, Validate, Choose, Launch, Wait,
         Rollback, Restore, Restored, StopReads, StopSignals, StopWaits, StopClears, Remove,
         Interrupt, StopTimesOut, RemoveFails, files
<1>2. CASE Launch(c) \/ Restore(c)
  <2>1. cmd[c] \in Invocation /\ (cmd[c].step = "restore" => cmd[c].seen \in Edges)
    BY CommandTyped DEF TypeInv
  <2>2. CASE Launch(c)
    BY <1>1, <2>1, <2>2 DEF Launch, CanStart, Invocation
  <2>3. CASE Restore(c)
    <3>1. edge[cmd[c].seen].companion \in Version
      BY <2>1, <2>3 DEF Restore, At, TypeInv, EdgeInv, Process
    <3> QED BY <1>1, <2>3, <3>1 DEF Restore, CanStart
  <2> QED BY <1>2, <2>2, <2>3
<1>3. CASE StopSignals(c)
  BY <1>1, <1>3 DEF StopSignals
<1> QED
  BY <1>1, <1>2, <1>3
  DEF CommandStep, Identify, Stage, Install, Inspect, Probe, Validate, Choose, Wait,
      Rollback, Restored, StopReads, StopWaits, StopClears, Remove,
      Interrupt, StopTimesOut, RemoveFails

-----------------------------------------------------------------------------
(* Basic facts *)

\* Faults are only added.
LEMMA FaultsGrow ==
  ASSUME TypeInv, TypeInv', faults' = faults \/ faults' = faults + 1, NEW c \in Commands,
         Counted(c), cmd'[c].calm = cmd[c].calm, cmd'[c].cancelled => cmd[c].cancelled \/ faults' > faults
  PROVE  Counted(c)' /\ faults' >= faults
<1>1. /\ faults \in Nat /\ faults' \in Nat /\ MaxFaults \in Nat
      /\ cmd[c].calm \in 0 .. MaxFaults + 1
  BY EdgeAssumption DEF TypeInv, FaultsInv, CmdInv, Invocation
<1> QED BY <1>1 DEF Counted

\* A way to the lock is never taken twice.
LEMMA EdgePhases ==
  ASSUME TypeInv, NEW e \in Edges, EdgeStep(e) \/ End(e) \/ Crash(e)
  PROVE  /\ edge'[e].phase \in {"open", "look", "unlink"} =>
              /\ Phase(e) \in {"begun", "open", "look", "unlink"}
              /\ lock' = lock \/ lock' = NoLock
         /\ edge'[e].phase \in Starting => Phase(e) \in Starting
         /\ edge'[e].phase = "serving" => Phase(e) = "listen" /\ Listening = {}
<1>1. edge[e] \in Process /\ edge \in [Edges -> Process]
  BY DEF TypeInv, EdgeInv
<1> QED
  BY <1>1
  DEF EdgeStep, Begin, Open, Write, Look, Unlink, Listen, Release, Erase, End, Crash, files, Goes,
      Process, Phase, Starting

LEMMA LockNumbers ==
  ASSUME NEW e \in Edges
  PROVE  /\ NoLock.by # e /\ ~NoLock.written
         /\ Record(e).by = e /\ Record(e).written /\ Record(e) # NoLock
         /\ [by |-> e, written |-> FALSE] # NoLock
BY EdgeAssumption DEF NoLock, Record

LEMMA BasicEdge ==
  ASSUME TypeInv, TypeInv', BasicInv, NEW e \in Edges, EdgeStep(e) \/ End(e) \/ Crash(e)
  PROVE  BasicInv'
<1>1. ASSUME NEW f \in Edges PROVE Begun(f)'
  <2>1. CASE f = e
    <3>1. lock' = NoLock => lock'.by # e
      BY LockNumbers
    <3>2. Begun(e)
      BY DEF BasicInv
    <3>3. edge'[e].phase \notin {"none", "begun"} /\ edge'[e].binary = edge[e].binary /\ e \in Living
      BY EdgeMoves
    <3>4. Phase(e) # "none"
      BY <3>3 DEF Living, Is
    <3>5. edge'[e].phase \in {"open", "look", "unlink"} => lock'.by # e
      BY <3>1, <3>2, EdgePhases DEF Begun
    <3> QED BY <2>1, <3>2, <3>3, <3>4, <3>5 DEF Begun, Phase
  <2>2. CASE f # e
    <3>1. edge'[f] = edge[f] /\ Begun(f)
      BY <2>2, EdgeMoves DEF BasicInv
    <3>2. lock'.by # f \/ lock'.by = lock.by
      BY <2>2, EdgeLocks, LockNumbers
    <3> QED BY <3>1, <3>2 DEF Begun, Phase
  <2> QED BY <2>1, <2>2
<1>2. ASSUME NEW f \in Listening', NEW g \in Listening' PROVE f = g
  <2>1. \A h \in Listening' : h \in Listening \/ (h = e /\ Listening = {})
    BY EdgeMoves, EdgePhases DEF Listening, Is, Phase
  <2> QED BY <2>1 DEF BasicInv
<1>3. ASSUME NEW c \in Commands PROVE Counted(c)'
  <2>1. cmd' = cmd /\ (faults' = faults \/ faults' = faults + 1)
    BY EdgeMoves
    DEF EdgeStep, Begin, Open, Write, Look, Unlink, Listen, Release, Erase, End, Crash, Another
  <2> QED BY <2>1, FaultsGrow DEF BasicInv
<1>4. InTurn'
  <2>1. cmd' = cmd /\ alone' = alone
    BY EdgeMoves DEF world
  <2> QED BY <2>1 DEF BasicInv, InTurn
<1> QED BY <1>1, <1>2, <1>3, <1>4 DEF BasicInv

LEMMA BasicCommand ==
  ASSUME TypeInv, TypeInv', BasicInv, NEW c \in Commands, CommandStep(c)
  PROVE  BasicInv'
<1> USE DEF TypeInv
<1>1. ASSUME NEW f \in Edges PROVE Begun(f)' 
  <2>1. Begun(f) /\ (lock'.by # f \/ lock'.by = lock.by)
    BY CommandEffects, LockNumbers DEF BasicInv
  <2>2. CASE UNCHANGED edge
    BY <2>1, <2>2 DEF Begun, Phase
  <2>3. ASSUME NEW v \in staged, NEW companion \in Version, Starts(v, companion) PROVE Begun(f)'
    <3>1. PICK e \in Edges :
            /\ Phase(e) = "none"
            /\ edge'[e].phase = "begun" /\ edge'[e].binary = v
            /\ edge'[e].tries = edge[e].tries /\ edge'[e].told = edge[e].told
            /\ \A g \in Edges \ {e} : edge'[g] = edge[g]
      BY <2>3, StartsGives
    <3>2. v \in Versions
      BY DEF FilesInv
    <3>3. CASE f = e
      BY <2>1, <3>1, <3>2, <3>3 DEF Begun, Phase
    <3>4. CASE f # e
      BY <2>1, <3>1, <3>4 DEF Begun, Phase
    <3> QED BY <3>3, <3>4
  <2>4. ASSUME cmd[c].target \in Living, edge' = [edge EXCEPT ![cmd[c].target].told = TRUE]
        PROVE  Begun(f)'
    <3>1. cmd[c].target \in Edges /\ Phase(cmd[c].target) # "none"
      BY <2>4 DEF Living, Is
    <3>2. /\ edge'[f].phase = edge[f].phase /\ edge'[f].binary = edge[f].binary
          /\ edge'[f].tries = edge[f].tries
          /\ f # cmd[c].target => edge'[f].told = edge[f].told
      BY <2>4, <3>1, SignalGives
    <3> QED BY <2>1, <3>1, <3>2 DEF Begun, Phase
  <2> QED BY <2>2, <2>3, <2>4, CommandEffects
<1>2. Listening' = Listening
  <2>1. CASE UNCHANGED edge
    BY <2>1 DEF Listening, Is, Phase
  <2>2. ASSUME NEW v \in staged, NEW companion \in Version, Starts(v, companion)
        PROVE  Listening' = Listening
    BY <2>2, StartsGives
  <2>3. ASSUME cmd[c].target \in Living, edge' = [edge EXCEPT ![cmd[c].target].told = TRUE]
        PROVE  Listening' = Listening
    BY <2>3, SignalGives DEF Living
  <2> QED BY <2>1, <2>2, <2>3, CommandEffects
<1>3. ASSUME NEW d \in Commands PROVE Counted(d)'
  <2>1. faults' = faults \/ faults' = faults + 1
    BY CommandMoves
  <2>2. cmd'[d].calm = cmd[d].calm
    BY CommandMoves
  <2>3. cmd'[d].cancelled => cmd[d].cancelled \/ faults' > faults
    <3>1. Interrupt(c) => faults' > faults
      BY EdgeAssumption DEF Interrupt, Another, FaultsInv
    <3>2. CASE d = c
      BY <3>1, <3>2, CommandMoves
    <3>3. CASE d # c
      BY <3>3, CommandMoves
    <3> QED BY <3>2, <3>3
  <2> QED BY <2>1, <2>2, <2>3, FaultsGrow DEF BasicInv
<1>4. InTurn'
  <2>1. alone' = alone
    BY CommandMoves DEF world
  <2>2. \A d \in Commands : cmd'[d].step \in Underway => cmd[d].step \in Underway
    BY CommandMoves
  <2> QED BY <2>1, <2>2 DEF BasicInv, InTurn
<1> QED BY <1>1, <1>2, <1>3, <1>4 DEF BasicInv

LEMMA BasicCall ==
  ASSUME TypeInv, TypeInv', BasicInv, NEW c \in Commands, Call(c)
  PROVE  BasicInv'
<1>0. CmdInv
  BY DEF TypeInv
<1>1. \A f \in Edges : Begun(f)'
  BY <1>0, CallGives DEF BasicInv, Begun, Phase, files
<1>2. Listening' = Listening
  BY <1>0, CallGives DEF Listening, Is, Phase
<1>3. ASSUME NEW d \in Commands PROVE Counted(d)'
  <2>1. CASE d = c
    <3>1. ~cmd'[c].cancelled /\ cmd'[c].calm = (IF alone /\ Ready THEN faults ELSE MaxFaults + 1)
          /\ faults' = faults /\ faults \in Nat
      BY <1>0, CallGives DEF TypeInv, FaultsInv
    <3> QED BY <2>1, <3>1 DEF Counted
  <2>2. CASE d # c
    BY <1>0, <2>2, CallGives DEF BasicInv, Counted
  <2> QED BY <2>1, <2>2
<1>4. InTurn'
  <2>1. /\ alone' = alone /\ \A d \in Commands \ {c} : cmd'[d] = cmd[d]
        /\ alone => \A d \in Commands : cmd[d].step \notin Underway
    BY <1>0, CallGives DEF world
  <2> QED BY <2>1 DEF InTurn
<1> QED BY <1>1, <1>2, <1>3, <1>4 DEF BasicInv

LEMMA BasicSame ==
  ASSUME TypeInv, TypeInv', BasicInv, WindowsStops \/ UNCHANGED vars
  PROVE  BasicInv'
<1>1. UNCHANGED <<edge, files, world, cmd>> /\ (faults' = faults \/ faults' = faults + 1)
  BY DEF WindowsStops, Another, vars
<1>2. \A c \in Commands : Counted(c)'
  BY <1>1, FaultsGrow DEF BasicInv
<1>3. InTurn'
  BY <1>1 DEF BasicInv, InTurn, world
<1>4. \A f \in Edges : Begun(f)'
  BY <1>1 DEF BasicInv, Begun, Phase, files
<1>5. Listening' = Listening
  BY <1>1 DEF Listening, Is, Phase
<1> QED BY <1>2, <1>3, <1>4, <1>5 DEF BasicInv

-----------------------------------------------------------------------------
(* What is installed *)

\* Where commands come one after the other, no edge is on its way while
\* everything is removed: the metadata and the lock name versions whose binaries
\* are there.
InstalledInv ==
    alone =>
      /\ metadata # None => metadata \in staged
      /\ \A e \in Living : Phase(e) \in Starting \ {"begun"} \/ lock.by = e => Verified(e)
      /\ \A c \in Commands :
           /\ cmd[c].step = "install" => cmd[c].version \in staged
           /\ cmd[c].kind = "uninstall" /\ cmd[c].step \in Underway => NoneStarts

LEMMA InstalledEdge ==
  ASSUME TypeInv, BasicInv, InstalledInv, NEW e \in Edges, EdgeStep(e) \/ End(e) \/ Crash(e)
  PROVE  InstalledInv'
<1> SUFFICES ASSUME alone
             PROVE  InstalledInv'
  BY EdgeMoves DEF InstalledInv, world
<1>0. UNCHANGED <<metadata, staged, cmd>>
  BY EdgeMoves
<1>1. ASSUME NEW f \in Living', edge'[f].phase \in Starting \ {"begun"} \/ lock'.by = f
      PROVE  Verified(f)'
  <2>1. f \in Living /\ edge'[f].binary = edge[f].binary
    BY EdgeMoves DEF Living
  <2>2. Verified(f) => Verified(f)'
    BY <1>0, <2>1 DEF Verified
  <2>3. CASE f = e
    <3>1. CASE Begin(e)
      <4>1. Verified(e) \/ edge'[e].phase = "gone"
        BY <3>1 DEF Begin, Goes, TypeInv, EdgeInv, Process
      <4> QED BY <2>2, <2>3, <4>1 DEF Living, Is, Phase
    <3>2. CASE ~Begin(e)
      <4>0. edge'[e].phase # "gone"
        BY <2>3 DEF Living, Is, Phase
      <4>1. Phase(e) # "begun"
        BY <3>2, <4>0
        DEF EdgeStep, Open, Write, Look, Unlink, Listen, Release, Erase, End, Crash, Goes,
            TypeInv, EdgeInv, Process
      <4>2. Phase(e) \in Starting \/ lock.by = e \/ lock'.by # e
        BY EdgeLocks, LockNumbers DEF Starting
      <4> QED BY <1>1, <2>1, <2>2, <2>3, <4>1, <4>2, EdgePhases DEF InstalledInv
    <3> QED BY <3>1, <3>2
  <2>4. CASE f # e
    <3>1. edge'[f] = edge[f] /\ (lock'.by # f \/ lock'.by = lock.by)
      BY <2>1, <2>4, EdgeMoves, EdgeLocks, LockNumbers DEF Living
    <3> QED BY <1>1, <2>1, <2>2, <3>1 DEF InstalledInv, Phase
  <2> QED BY <2>3, <2>4
<1>2. NoneStarts => NoneStarts'
  BY EdgeMoves, EdgePhases DEF NoneStarts, Is, Phase
<1> QED BY <1>0, <1>1, <1>2 DEF InstalledInv, Phase

LEMMA InstalledCommand ==
  ASSUME TypeInv, TypeInv', BasicInv, InstalledInv, NEW c \in Commands, CommandStep(c)
  PROVE  InstalledInv'
<1> SUFFICES ASSUME alone
             PROVE  InstalledInv'
  BY CommandMoves DEF InstalledInv, world
<1> USE DEF TypeInv
<1>1. metadata' # None => metadata' \in staged'
  <2>1. CASE Stage(c) \/ Install(c) \/ Remove(c)
    BY <2>1 DEF Stage, Install, Remove, At, InstalledInv
  <2> QED
    BY <2>1
    DEF InstalledInv, CommandStep, Identify, Inspect, Probe, Validate, Choose, Launch, Wait,
        Rollback, Restore, Restored, StopReads, StopSignals, StopWaits, StopClears,
        Interrupt, StopTimesOut, RemoveFails, files
<1>2. staged \subseteq staged' \/ Remove(c)
  BY DEF CommandStep, Identify, Stage, Install, Inspect, Probe, Validate, Choose, Launch, Wait,
         Rollback, Restore, Restored, StopReads, StopSignals, StopWaits, StopClears,
         Interrupt, StopTimesOut, RemoveFails, files
<1>3. ASSUME NEW d \in Commands, cmd'[d].kind = "uninstall", cmd'[d].step \in Underway
      PROVE  NoneStarts'
  <2>1. cmd[d].kind = "uninstall" /\ cmd[d].step \in Underway
    BY <1>3, CommandMoves
  <2>2. NoneStarts
    BY <2>1 DEF InstalledInv
  <2>3. CASE UNCHANGED edge
    BY <2>2, <2>3 DEF NoneStarts, Is, Phase
  <2>4. CASE Launch(c) \/ Restore(c)
    <3>1. cmd[c].kind = "run" /\ cmd[c].step \in Underway
      BY <2>4 DEF Launch, Restore, At, Underway, Steps
    <3> QED BY <2>1, <3>1 DEF BasicInv, InTurn
  <2>5. ASSUME cmd[c].target \in Living, edge' = [edge EXCEPT ![cmd[c].target].told = TRUE]
        PROVE  NoneStarts'
    BY <2>2, <2>5, SignalGives DEF NoneStarts, Living
  <2> QED BY <2>3, <2>4, <2>5, CommandEffects
<1>4. ASSUME NEW d \in Commands, cmd'[d].step = "install"
      PROVE  cmd'[d].version \in staged'
  <2>1. CASE Stage(c)
    <3>1. CASE d = c
      <4>1. cmd'[c].version = cmd[c].version
        BY <2>1, ToGives DEF Stage
      <4> QED BY <2>1, <3>1, <4>1 DEF Stage
    <3>2. CASE d # c
      <4>1. cmd[d].step = "install" /\ cmd'[d] = cmd[d]
        BY <1>4, <3>2, CommandMoves
      <4> QED BY <2>1, <4>1 DEF Stage, InstalledInv
    <3> QED BY <3>1, <3>2
  <2>2. CASE Interrupt(c)
    <3>1. cmd'[d].step = cmd[d].step /\ cmd'[d].version = cmd[d].version /\ staged' = staged
      BY <2>2, InterruptGives DEF Interrupt, files
    <3> QED BY <1>4, <3>1 DEF InstalledInv
  <2>3. CASE Remove(c)
    <3>1. cmd'[c].step = "over" /\ \A b \in Commands \ {c} : cmd'[b] = cmd[b]
      BY <2>3, EndsGives DEF Remove
    <3>2. d # c /\ cmd[d].step = "install"
      BY <1>4, <3>1
    <3>3. cmd[d].step \in Underway /\ cmd[c].step \in Underway
      BY <2>3, <3>2 DEF Remove, At, Underway, Steps
    <3> QED BY <3>2, <3>3 DEF BasicInv, InTurn
  <2>4. CASE ~Stage(c) /\ ~Interrupt(c) /\ ~Remove(c)
    <3>1. cmd'[c].step # "install"
      <4>1. \/ \E step \in Steps \ {"install"} : To(c, step)
            \/ \E result : Ends(c, result)
            \/ \E next : cmd' = Stops(c, next)
            \/ Inspect(c) /\ ~Fails(c)
            \/ Replaces(c)
            \/ Judges(c)
            \/ Upgrades(c)
        <5>1. cmd[c].then \in Steps \ {"install"} \/ cmd[c].step \notin Stopping
          BY CommandTyped DEF Invocation, Steps
        <5> QED
          BY <2>4, <5>1
          DEF CommandStep, Identify, Install, Inspect, Probe, Validate, Choose, Launch, Wait,
              Rollback, Restore, Restored, StopReads, StopSignals, StopWaits, StopClears,
              StopTimesOut, RemoveFails, Fails, Replaces, Judges, Upgrades, Steps, Stopping
      <4>2. ASSUME NEW step \in Steps \ {"install"}, To(c, step) PROVE cmd'[c].step # "install"
        BY <4>2, ToGives
      <4>3. ASSUME NEW result, Ends(c, result) PROVE cmd'[c].step # "install"
        BY <4>3, EndsGives
      <4>4. ASSUME NEW next, cmd' = Stops(c, next) PROVE cmd'[c].step # "install"
        BY <4>4, StopsGives
      <4>5. ASSUME Inspect(c), ~Fails(c) PROVE cmd'[c].step # "install"
        BY <4>5, InspectGives
      <4>6. ASSUME Replaces(c) PROVE cmd'[c].step # "install"
        BY <4>6, ChooseGives
      <4>7. ASSUME Judges(c) \/ Upgrades(c) PROVE cmd'[c].step # "install"
        BY <4>7, StopReadsGives, InstallGives
      <4> QED BY <4>1, <4>2, <4>3, <4>4, <4>5, <4>6, <4>7
    <3>2. d # c
      BY <1>4, <3>1
    <3> QED BY <1>2, <1>4, <2>4, <3>2, CommandMoves DEF InstalledInv
  <2> QED BY <2>1, <2>2, <2>3, <2>4
<1>5. ASSUME NEW f \in Living', edge'[f].phase \in Starting \ {"begun"} \/ lock'.by = f
      PROVE  Verified(f)'
  <2>0. CASE Remove(c)
    <3>1. NoneStarts /\ lock' = NoLock /\ UNCHANGED edge
      BY <2>0 DEF InstalledInv, Remove, At, Underway, Steps
    <3>2. f \in Edges /\ edge'[f].phase \notin Starting
      BY <3>1 DEF NoneStarts, Is, Phase, Living
    <3> QED BY <1>5, <3>1, <3>2, LockNumbers
  <2>1. CASE ~Remove(c)
    <3>1. f \in Edges /\ (lock'.by # f \/ lock'.by = lock.by)
      BY CommandEffects, LockNumbers DEF Living
    <3>2. Begun(f)
      BY <3>1 DEF BasicInv
    <3>3. \/ f \in Living /\ edge'[f].phase = edge[f].phase /\ edge'[f].binary = edge[f].binary
          \/ edge'[f].phase = "begun" /\ Phase(f) = "none"
      <4>1. CASE UNCHANGED edge
        BY <4>1 DEF Living, Is, Phase
      <4>2. ASSUME NEW v \in staged, NEW companion \in Version, Starts(v, companion)
            PROVE  \/ f \in Living /\ edge'[f].phase = edge[f].phase /\ edge'[f].binary = edge[f].binary
                   \/ edge'[f].phase = "begun" /\ Phase(f) = "none"
        <5>1. PICK e \in Edges : /\ Phase(e) = "none" /\ edge'[e].phase = "begun"
                                 /\ \A g \in Edges \ {e} : edge'[g] = edge[g]
          BY <4>2, StartsGives
        <5> QED BY <3>1, <5>1 DEF Living, Is, Phase
      <4>3. ASSUME cmd[c].target \in Living, edge' = [edge EXCEPT ![cmd[c].target].told = TRUE]
            PROVE  f \in Living /\ edge'[f].phase = edge[f].phase /\ edge'[f].binary = edge[f].binary
        BY <3>1, <4>3, SignalGives DEF Living
      <4> QED BY <4>1, <4>2, <4>3, CommandEffects
    <3>4. CASE f \in Living /\ edge'[f].phase = edge[f].phase /\ edge'[f].binary = edge[f].binary
      <4>1. Verified(f)
        BY <1>5, <3>1, <3>2, <3>4 DEF InstalledInv, Begun, Phase
      <4> QED BY <1>2, <2>1, <3>4, <4>1 DEF Verified
    <3>5. CASE edge'[f].phase = "begun" /\ Phase(f) = "none"
      BY <1>5, <3>1, <3>2, <3>5, LockNumbers DEF Begun, Starting
    <3> QED BY <3>3, <3>4, <3>5
  <2> QED BY <2>0, <2>1
<1> QED BY <1>1, <1>3, <1>4, <1>5 DEF InstalledInv, Phase

LEMMA InstalledCall ==
  ASSUME TypeInv, BasicInv, InstalledInv, NEW c \in Commands, Call(c)
  PROVE  InstalledInv'
<1>0. CmdInv
  BY DEF TypeInv
<1> SUFFICES ASSUME alone
             PROVE  InstalledInv'
  BY <1>0, CallGives DEF InstalledInv, world
<1>1. UNCHANGED <<edge, lock, metadata, staged>>
  BY <1>0, CallGives DEF files
<1>2. NoneStarts
  BY <1>0, CallGives DEF Settled, NoneStarts, Living, Listening, Is, Starting
<1>3. NoneStarts'
  BY <1>1, <1>2 DEF NoneStarts, Is, Phase
<1>4. ASSUME NEW d \in Commands, cmd'[d].step = "install"
      PROVE  cmd'[d].version \in staged'
  <2>1. d # c /\ cmd'[d] = cmd[d]
    BY <1>0, <1>4, CallGives
  <2> QED BY <1>1, <1>4, <2>1 DEF InstalledInv
<1>5. ASSUME NEW f \in Living', edge'[f].phase \in Starting \ {"begun"} \/ lock'.by = f
      PROVE  Verified(f)'
  BY <1>1, <1>5 DEF InstalledInv, Verified, Living, Is, Phase
<1> QED BY <1>1, <1>3, <1>4, <1>5 DEF InstalledInv, Phase

LEMMA InstalledSame ==
  ASSUME InstalledInv, WindowsStops \/ UNCHANGED vars
  PROVE  InstalledInv'
<1>1. UNCHANGED <<edge, files, world, cmd>>
  BY DEF WindowsStops, vars
<1>2. Living' = Living /\ (NoneStarts <=> NoneStarts')
  BY <1>1 DEF Living, NoneStarts, Is, Phase
<1> QED BY <1>1, <1>2 DEF InstalledInv, Verified, Phase, files, world

-----------------------------------------------------------------------------
(* One edge at a time *)

\* From when it has made the lock until it removes it, the lock is the edge's.
HasLock ==
    \A e \in Edges :
      /\ Phase(e) = "made" => lock = [by |-> e, written |-> FALSE]
      /\ Phase(e) \in {"listen", "serving", "release", "erase"} => lock = Record(e)

\* A lock is left behind by a crash only.
LockHeld == lock = NoLock \/ lock.by \in Living

\* What a command on its way leaves for edges to be there: while it looks for
\* one none begins, what it stops is the only one there is, and when it starts
\* one there is none, unless it is cancelled and starts no more.
Leaves(c) ==
  LET x == cmd[c]
  IN
    /\ x.step \in {"identify", "stage", "install", "inspect", "probe", "choose"} => NoneStarts
    /\ x.step \in {"probe", "choose"} /\ x.seen = 0 => Living = {}
    /\ x.step = "stop" => NoneStarts \/ (x.then = "rollback" /\ x.cancelled)
    /\ x.step \in {"judge", "stopping"} => Living \subseteq {x.target}
    /\ x.step \in {"clear", "sweep", "launch", "validate", "remove"} => Living = {}
    /\ x.step \in {"rollback", "restore"} => Living = {} \/ x.cancelled

OneEdge ==
    /\ \A e, f \in Living : e = f
    /\ HasLock
    /\ faults = 0 \/ (\E c \in Commands : cmd[c].cancelled) => LockHeld
    /\ \A c \in Commands : Leaves(c)

OneEdgeInv == alone /\ faults <= 1 => OneEdge

LEMMA LeavesFewer ==
  ASSUME NEW c, Leaves(c), cmd'[c] = cmd[c], Living' \subseteq Living, NoneStarts => NoneStarts'
  PROVE  Leaves(c)'
BY DEF Leaves

\* An edge is one of those on their way or has the lock.
LEMMA LivingPhases ==
  ASSUME TypeInv, NEW e \in Living
  PROVE  /\ e \in Edges
         /\ \/ Phase(e) \in Starting
            \/ Phase(e) \in {"serving", "release", "erase"}
BY DEF TypeInv, EdgeInv, Process, Living, Is, Phase, Phases

LEMMA HoldsLock ==
  ASSUME TypeInv, OneEdge, NoneStarts, NEW e \in Living
  PROVE  lock = Record(e) /\ Living = {e}
<1>1. e \in Edges /\ Phase(e) \in {"serving", "release", "erase"}
  BY LivingPhases DEF NoneStarts, Is
<1> QED BY <1>1 DEF OneEdge, HasLock

LEMMA OneEdgeEdge ==
  ASSUME TypeInv, BasicInv, OneEdge, NEW e \in Edges, EdgeStep(e) \/ End(e)
  PROVE  OneEdge'
<1>1. /\ \A f \in Edges \ {e} : edge'[f] = edge[f]
      /\ e \in Living /\ Living' \subseteq Living
      /\ cmd' = cmd /\ faults' = faults
  BY EdgeMoves
  DEF EdgeStep, Begin, Open, Write, Look, Unlink, Listen, Release, Erase, End
<1>2. Living = {e} /\ \A f \in Edges \ {e} : Phase(f) \in {"none", "gone"}
  BY <1>1 DEF OneEdge, Living, Is
<1>3. NoneStarts => NoneStarts'
  BY <1>1, EdgePhases DEF NoneStarts, Is, Phase
<1>4. Begun(e) /\ edge \in [Edges -> Process] /\ edge[e] \in Process
  BY DEF BasicInv, TypeInv, EdgeInv
<1>5. /\ Phase(e) = "made" => lock = [by |-> e, written |-> FALSE]
      /\ Phase(e) \in {"listen", "serving", "release", "erase"} => lock = Record(e)
  BY DEF OneEdge, HasLock
<1>6. Owned <=> lock.written /\ lock.by = e
  BY <1>2 DEF Owned
<1>7. edge'[e].phase = "made" => lock' = [by |-> e, written |-> FALSE]
  BY <1>4
  DEF EdgeStep, Begin, Open, Write, Look, Unlink, Listen, Release, Erase, End, Goes, Process
<1>8. edge'[e].phase \in {"listen", "serving", "release", "erase"} => lock' = Record(e)
  <2>1. CASE Write(e)
    <3>1. lock.by = e
      BY <2>1, <1>5 DEF Write
    <3> QED BY <2>1, <3>1 DEF Write
  <2>2. CASE Listen(e) \/ End(e) \/ Release(e)
    BY <1>5, <2>2 DEF Listen, End, Release, files
  <2>3. CASE Begin(e) \/ Open(e) \/ Look(e) \/ Unlink(e) \/ Erase(e)
    BY <1>4, <2>3 DEF Begin, Open, Look, Unlink, Erase, Goes, Process
  <2> QED BY <2>1, <2>2, <2>3 DEF EdgeStep
<1>9. HasLock'
  BY <1>1, <1>2, <1>7, <1>8 DEF HasLock, Phase
<1>10. ASSUME LockHeld PROVE LockHeld'
  <2>1. CASE Begin(e)
    <3>1. lock = NoLock
      BY <1>2, <1>4, <1>10, <2>1 DEF LockHeld, Begun, Begin
    <3> QED BY <2>1, <3>1 DEF Begin, LockHeld, files
  <2>2. CASE Open(e)
    <3>1. lock = NoLock
      BY <1>2, <1>4, <1>10, <2>2 DEF LockHeld, Begun, Open
    <3>2. lock'.by = e /\ edge'[e].phase = "made"
      BY <1>4, <2>2, <3>1 DEF Open, Goes, Process
    <3> QED BY <3>2 DEF LockHeld, Living, Is, Phase
  <2>3. CASE Look(e)
    <3>1. lock = NoLock
      BY <1>2, <1>4, <1>10, <2>3 DEF LockHeld, Begun, Look
    <3> QED BY <2>3, <3>1 DEF Look, LockHeld, files
  <2>4. CASE Unlink(e) \/ Erase(e)
    BY <2>4 DEF Unlink, Erase, LockHeld
  <2>5. CASE Write(e) \/ Listen(e) \/ End(e) \/ Release(e)
    <3>1. edge'[e].phase \in {"listen", "serving", "release", "erase"}
      <4>1. Release(e) => lock = Record(e)
        BY <1>5 DEF Release
      <4> QED BY <1>4, <2>5, <4>1 DEF Write, Listen, End, Release, Goes, Process
    <3>2. lock'.by = e
      BY <1>8, <3>1, LockNumbers
    <3> QED BY <3>1, <3>2 DEF LockHeld, Living, Is, Phase
  <2> QED BY <2>1, <2>2, <2>3, <2>4, <2>5 DEF EdgeStep
<1>11. \A c \in Commands : Leaves(c)'
  BY <1>1, <1>3, LeavesFewer DEF OneEdge
<1> QED BY <1>1, <1>9, <1>10, <1>11 DEF OneEdge

\* After a crash that is the first fault, no command is cancelled.
LEMMA OneEdgeCrash ==
  ASSUME TypeInv, TypeInv', BasicInv, OneEdge, NEW e \in Edges, Crash(e), faults' <= 1
  PROVE  OneEdge'
<1>1. /\ \A f \in Edges \ {e} : edge'[f] = edge[f]
      /\ e \in Living /\ Living' \subseteq Living /\ cmd' = cmd /\ lock' = lock
  BY EdgeMoves DEF Crash, files
<1>2. edge'[e].phase = "gone"
  BY DEF Crash, Goes, TypeInv, EdgeInv, Process
<1>3. faults = 0 /\ faults' = 1
  BY EdgeAssumption DEF TypeInv, FaultsInv, Crash, Another
<1>4. \A c \in Commands : ~cmd[c].cancelled
  BY <1>3 DEF BasicInv, Counted
<1>5. NoneStarts => NoneStarts'
  BY <1>1, <1>2 DEF NoneStarts, Is, Phase, Starting
<1>6. \A c \in Commands : Leaves(c)'
  BY <1>1, <1>5, LeavesFewer DEF OneEdge
<1>7. HasLock'
  BY <1>1, <1>2 DEF OneEdge, HasLock, Phase
<1> QED BY <1>1, <1>3, <1>4, <1>6, <1>7 DEF OneEdge

\* Where neither edges nor the lock change it is enough that the command does
\* not start, and finds, what is not so.
LEMMA OneEdgeQuiet ==
  ASSUME OneEdge, TypeInv, NEW c \in Commands, UNCHANGED <<edge, lock>>,
         \A d \in Commands \ {c} : cmd'[d] = cmd[d],
         Leaves(c)', faults' = 0 => faults = 0,
         cmd'[c].cancelled => cmd[c].cancelled \/ faults = 0
  PROVE  OneEdge'
<1>1. Living' = Living /\ (NoneStarts' <=> NoneStarts) /\ (HasLock' <=> HasLock)
      /\ (LockHeld' <=> LockHeld)
  BY DEF Living, NoneStarts, Is, Phase, HasLock, LockHeld
<1>3. \A d \in Commands : Leaves(d)'
  BY <1>1, LeavesFewer DEF OneEdge
<1> QED BY <1>1, <1>3 DEF OneEdge

LEMMA EdgesSame ==
  ASSUME UNCHANGED edge
  PROVE  /\ Living' = Living /\ (NoneStarts' <=> NoneStarts) /\ Listening' = Listening
         /\ \A phases : Is(phases)' = Is(phases)
BY DEF Living, NoneStarts, Listening, Is, Phase

\* A run before it stops an edge or starts one.
LEMMA OneEdgeLooks ==
  ASSUME TypeInv, OneEdge, NEW c \in Commands,
         Identify(c) \/ Inspect(c) \/ Probe(c) \/ Validate(c) \/ Choose(c)
  PROVE  OneEdge'
<1>0. CmdInv /\ Leaves(c)
  BY DEF TypeInv, OneEdge
<1>1. UNCHANGED <<edge, lock, faults>>
  BY DEF Identify, Inspect, Probe, Validate, Choose, files
<1>2. Living' = Living /\ (NoneStarts' <=> NoneStarts)
  BY <1>1, EdgesSame
<1>3. CASE \E result : Ends(c, result)
  <2>1. PICK result : Ends(c, result)
    BY <1>3
  <2>2. /\ cmd'[c].step = "over" /\ ~cmd'[c].cancelled
        /\ \A d \in Commands \ {c} : cmd'[d] = cmd[d]
    BY <1>0, <2>1, EndsGives
  <2>3. Leaves(c)'
    BY <2>2 DEF Leaves
  <2> QED BY <1>1, <2>2, <2>3, OneEdgeQuiet
<1>4. CASE Identify(c)
  <2>1. CASE \E step \in {"inspect", "stage"} : To(c, step)
    <3>1. PICK step \in {"inspect", "stage"} : To(c, step)
      BY <2>1
    <3>2. NoneStarts
      BY <1>0, <1>4 DEF Leaves, Identify, At
    <3>3. Leaves(c)'
      BY <1>0, <1>2, <3>1, <3>2, ToGives DEF Leaves
    <3> QED BY <1>0, <1>1, <3>1, <3>3, ToGives, OneEdgeQuiet
  <2> QED BY <1>3, <1>4, <2>1 DEF Identify
<1>5. CASE Inspect(c) /\ ~Fails(c)
  <2>1. NoneStarts
    BY <1>0, <1>5 DEF Leaves, Inspect, At
  <2>2. Living # {} => cmd'[c].seen # 0
    <3>1. ASSUME NEW e \in Living PROVE cmd'[c].seen # 0
      <4>1. lock = Record(e) /\ Living = {e} /\ e \in Edges
        BY <2>1, HoldsLock DEF Living
      <4>2. Owned /\ lock.by # 0
        BY <4>1, EdgeAssumption DEF Owned, Record
      <4> QED BY <1>0, <1>5, <4>2, InspectGives
    <3> QED BY <3>1
  <2>3. Leaves(c)'
    BY <1>0, <1>2, <1>5, <2>1, <2>2, InspectGives DEF Leaves
  <2> QED BY <1>0, <1>1, <1>5, <2>3, InspectGives, OneEdgeQuiet
<1>6. CASE Probe(c)
  <2>1. NoneStarts /\ (cmd[c].seen = 0 => Living = {})
    BY <1>0, <1>6 DEF Leaves, Probe, At
  <2>2. CASE cmd' = Stops(c, "validate")
    <3>1. Leaves(c)'
      BY <1>0, <1>2, <2>1, <2>2, StopsGives DEF Leaves
    <3> QED BY <1>0, <1>1, <2>2, <3>1, StopsGives, OneEdgeQuiet
  <2>3. CASE To(c, "validate") /\ cmd[c].seen = 0
    <3>1. Leaves(c)'
      BY <1>0, <1>2, <2>1, <2>3, ToGives DEF Leaves
    <3> QED BY <1>0, <1>1, <2>3, <3>1, ToGives, OneEdgeQuiet
  <2>4. CASE To(c, "choose")
    <3>1. Leaves(c)'
      BY <1>0, <1>2, <2>1, <2>4, ToGives DEF Leaves
    <3> QED BY <1>0, <1>1, <2>4, <3>1, ToGives, OneEdgeQuiet
  <2> QED BY <1>6, <2>2, <2>3, <2>4 DEF Probe
<1>7. CASE Validate(c) /\ To(c, "restore")
  <2>1. Living = {}
    BY <1>0, <1>7 DEF Leaves, Validate, At
  <2>2. Leaves(c)'
    BY <1>0, <1>2, <1>7, <2>1, ToGives DEF Leaves
  <2> QED BY <1>0, <1>1, <1>7, <2>2, ToGives, OneEdgeQuiet
<1>8. CASE Choose(c) /\ Replaces(c)
  <2>1. NoneStarts /\ (cmd[c].seen = 0 => Living = {})
    BY <1>0, <1>8 DEF Leaves, Choose, At
  <2>2. Leaves(c)'
    BY <1>0, <1>2, <1>8, <2>1, ChooseGives DEF Leaves
  <2> QED BY <1>0, <1>1, <1>8, <2>2, ChooseGives, OneEdgeQuiet
<1> QED
  BY <1>3, <1>4, <1>5, <1>6, <1>7, <1>8
  DEF Inspect, Validate, Choose, Fails, Replaces

\* Stop ends the only edge there is, by the lock that is its own.
LEMMA OneEdgeStops ==
  ASSUME TypeInv, OneEdge, NEW c \in Commands, StopReads(c) \/ StopWaits(c) \/ Rollback(c) \/ Wait(c)
  PROVE  OneEdge'
<1>0. CmdInv /\ Leaves(c)
  BY DEF TypeInv, OneEdge
<1>1. UNCHANGED <<edge, lock, faults>>
  BY DEF StopReads, StopWaits, Rollback, Wait, files
<1>2. Living' = Living /\ (NoneStarts' <=> NoneStarts)
  BY <1>1, EdgesSame
<1>3. CASE \E result : Ends(c, result)
  <2>1. PICK result : Ends(c, result)
    BY <1>3
  <2>2. /\ cmd'[c].step = "over" /\ ~cmd'[c].cancelled
        /\ \A d \in Commands \ {c} : cmd'[d] = cmd[d]
    BY <1>0, <2>1, EndsGives
  <2>3. Leaves(c)'
    BY <2>2 DEF Leaves
  <2> QED BY <1>1, <2>2, <2>3, OneEdgeQuiet
<1>4. CASE Wait(c) /\ GivesUp(c) /\ cmd' = Stops(c, "rollback")
  <2>1. cmd[c].cancelled \/ NoneStarts
    BY <1>4 DEF GivesUp, NoneStarts
  <2>2. Leaves(c)'
    BY <1>0, <1>2, <1>4, <2>1, StopsGives DEF Leaves
  <2> QED BY <1>0, <1>1, <1>4, <2>2, StopsGives, OneEdgeQuiet
<1>5. CASE Rollback(c) /\ To(c, "restore")
  <2>1. Living = {} \/ cmd[c].cancelled
    BY <1>0, <1>5 DEF Leaves, Rollback, At
  <2>2. Leaves(c)'
    BY <1>0, <1>2, <1>5, <2>1, ToGives DEF Leaves
  <2> QED BY <1>0, <1>1, <1>5, <2>2, ToGives, OneEdgeQuiet
<1>6. CASE StopWaits(c)
  <2>1. Living = {}
    BY <1>0, <1>6 DEF Leaves, StopWaits
  <2>2. To(c, "clear")
    BY <1>6 DEF StopWaits
  <2>3. Leaves(c)'
    BY <1>0, <1>2, <2>1, <2>2, ToGives DEF Leaves
  <2> QED BY <1>0, <1>1, <2>2, <2>3, ToGives, OneEdgeQuiet
<1>7. CASE StopReads(c) /\ lock = NoLock /\ To(c, cmd[c].then)
  <2>1. NoneStarts \/ (cmd[c].then = "rollback" /\ cmd[c].cancelled)
    BY <1>0, <1>7 DEF Leaves, StopReads
  <2>2. NoneStarts => Living = {}
    BY <1>7, HoldsLock, LockNumbers DEF Living
  <2>3. cmd[c].then \in {"validate", "launch", "rollback", "remove"}
    <3>1. cmd[c].step \in Stopping
      BY <1>7 DEF StopReads, Stopping
    <3> QED BY <1>0, <3>1, CommandTyped DEF Invocation
  <2>4. Leaves(c)'
    BY <1>0, <1>2, <1>7, <2>1, <2>2, <2>3, ToGives DEF Leaves
  <2> QED BY <1>0, <1>1, <1>7, <2>4, ToGives, OneEdgeQuiet
<1>8. CASE StopReads(c) /\ lock.written /\ Judges(c)
  <2>1. Living \subseteq {lock.by}
    <3> SUFFICES ASSUME NEW e \in Living PROVE e = lock.by
      OBVIOUS
    <3>1. CASE NoneStarts
      BY <3>1, HoldsLock, LockNumbers DEF Living
    <3>2. CASE cmd[c].cancelled
      <4>1. LockHeld /\ lock # NoLock
        BY <1>8, <3>2, EdgeAssumption DEF OneEdge, NoLock
      <4> QED BY <4>1 DEF LockHeld, OneEdge
    <3> QED BY <1>0, <1>8, <3>1, <3>2 DEF Leaves, StopReads
  <2>2. Leaves(c)'
    BY <1>0, <1>1, <1>2, <1>8, <2>1, StopReadsGives DEF Leaves
  <2> QED BY <1>0, <1>1, <1>8, <2>2, StopReadsGives, OneEdgeQuiet
<1> QED
  BY <1>3, <1>4, <1>5, <1>6, <1>7, <1>8
  DEF StopReads, Rollback, Wait, Fails, Judges

LEMMA OneEdgeFiles ==
  ASSUME TypeInv, OneEdge, NEW c \in Commands,
         Stage(c) \/ Install(c) \/ Restored(c)
  PROVE  OneEdge'
<1>0. CmdInv /\ Leaves(c)
  BY DEF TypeInv, OneEdge
<1>1. UNCHANGED <<edge, lock, faults>>
  BY DEF Stage, Install, Restored, files
<1>2. Living' = Living /\ (NoneStarts' <=> NoneStarts)
  BY <1>1, EdgesSame
<1>3. CASE \E result : Ends(c, result)
  <2>1. PICK result : Ends(c, result)
    BY <1>3
  <2>2. /\ cmd'[c].step = "over" /\ ~cmd'[c].cancelled
        /\ \A d \in Commands \ {c} : cmd'[d] = cmd[d]
    BY <1>0, <2>1, EndsGives
  <2>3. Leaves(c)'
    BY <2>2 DEF Leaves
  <2> QED BY <1>1, <2>2, <2>3, OneEdgeQuiet
<1>4. CASE Stage(c)
  <2>1. NoneStarts /\ To(c, "install")
    BY <1>0, <1>4 DEF Leaves, Stage, At
  <2>2. Leaves(c)'
    BY <1>0, <1>2, <2>1, ToGives DEF Leaves
  <2> QED BY <1>0, <1>1, <2>1, <2>2, ToGives, OneEdgeQuiet
<1>5. CASE Install(c) /\ Upgrades(c)
  <2>1. NoneStarts
    BY <1>0, <1>5 DEF Leaves, Install, At
  <2>2. Leaves(c)'
    BY <1>0, <1>2, <1>5, <2>1, InstallGives DEF Leaves
  <2> QED BY <1>0, <1>1, <1>5, <2>2, InstallGives, OneEdgeQuiet
<1> QED BY <1>3, <1>4, <1>5 DEF Install, Restored, Fails, Upgrades

LEMMA OneEdgeFaults ==
  ASSUME TypeInv, TypeInv', BasicInv, OneEdge, faults' <= 1, NEW c \in Commands,
         Interrupt(c) \/ StopTimesOut(c) \/ RemoveFails(c)
  PROVE  OneEdge'
<1>0. CmdInv /\ Leaves(c)
  BY DEF TypeInv, OneEdge
<1>1. UNCHANGED <<edge, lock>> /\ faults' = 1 /\ faults = 0
  BY EdgeAssumption DEF Interrupt, StopTimesOut, RemoveFails, Another, files, TypeInv, FaultsInv
<1>2. Living' = Living /\ (NoneStarts' <=> NoneStarts)
  BY <1>1, EdgesSame
<1>3. CASE Fails(c)
  <2>1. Leaves(c)'
    BY <1>0, <1>3, FailsGives DEF Leaves
  <2> QED BY <1>0, <1>1, <1>3, <2>1, FailsGives, OneEdgeQuiet
<1>4. CASE Interrupt(c)
  <2>1. Leaves(c)'
    BY <1>0, <1>2, <1>4, InterruptGives DEF Leaves
  <2> QED BY <1>1, <1>4, <2>1, InterruptGives, OneEdgeQuiet
<1> QED BY <1>3, <1>4 DEF StopTimesOut, RemoveFails

\* The edge that is told to end is the one that is waited for; whoever removes
\* the lock finds no edge.
LEMMA OneEdgeSignals ==
  ASSUME TypeInv, OneEdge, NEW c \in Commands, StopSignals(c)
  PROVE  OneEdge'
<1>0. CmdInv /\ EdgeInv /\ Leaves(c) /\ Living \subseteq {cmd[c].target}
  BY DEF TypeInv, OneEdge, Leaves, StopSignals
<1>1. UNCHANGED <<lock, faults>>
  BY DEF StopSignals, files
<1>2. CASE cmd[c].target \notin Living /\ To(c, "sweep") /\ UNCHANGED edge
  <2>1. Leaves(c)'
    BY <1>0, <1>2, EdgesSame, ToGives DEF Leaves
  <2> QED BY <1>0, <1>1, <1>2, <2>1, ToGives, OneEdgeQuiet
<1>3. CASE Fails(c) /\ UNCHANGED edge
  <2>1. Leaves(c)'
    BY <1>0, <1>3, FailsGives DEF Leaves
  <2> QED BY <1>0, <1>1, <1>3, <2>1, FailsGives, OneEdgeQuiet
<1>4. CASE /\ cmd[c].target \in Living /\ To(c, "stopping")
           /\ edge' = [edge EXCEPT ![cmd[c].target].told = TRUE]
  <2>1. /\ \A f \in Edges : edge'[f].phase = edge[f].phase
        /\ \A phases : Is(phases)' = Is(phases)
        /\ Living' = Living
    BY <1>0, <1>4, SignalGives DEF Living
  <2>2. (NoneStarts' <=> NoneStarts) /\ (HasLock' <=> HasLock) /\ (LockHeld' <=> LockHeld)
    BY <1>1, <2>1 DEF NoneStarts, HasLock, LockHeld, Phase
  <2>3. \A d \in Commands : Leaves(d)'
    <3>1. Leaves(c)'
      BY <1>0, <1>4, <2>1, ToGives DEF Leaves
    <3>2. ASSUME NEW d \in Commands \ {c} PROVE Leaves(d)'
      BY <1>0, <1>4, <2>1, <2>2, ToGives, LeavesFewer DEF OneEdge
    <3> QED BY <3>1, <3>2
  <2>4. \A d \in Commands : cmd'[d].cancelled = cmd[d].cancelled
    BY <1>0, <1>4, ToGives
  <2> QED BY <1>1, <2>1, <2>2, <2>3, <2>4 DEF OneEdge
<1> QED BY <1>2, <1>3, <1>4 DEF StopSignals

LEMMA OneEdgeClears ==
  ASSUME TypeInv, OneEdge, NEW c \in Commands, StopClears(c) \/ Remove(c)
  PROVE  OneEdge'
<1>0. CmdInv /\ Leaves(c) /\ Living = {}
  BY DEF TypeInv, OneEdge, Leaves, StopClears, Remove, At
<1>1. UNCHANGED <<edge, faults>> /\ lock' = NoLock
  BY DEF StopClears, Remove
<1>2. Living' = {} /\ (NoneStarts' <=> NoneStarts)
  BY <1>0, <1>1, EdgesSame
<1>3. \A d \in Commands \ {c} : cmd'[d] = cmd[d]
  BY <1>0, ToGives, EndsGives, FailsGives DEF StopClears, Remove
<1>4. Leaves(c)'
  <2>1. NoneStarts'
    BY <1>2 DEF NoneStarts, Living, Is, Starting
  <2>2. CASE To(c, cmd[c].then)
    <3>1. cmd[c].then \in {"validate", "launch", "rollback", "remove"} \/ Remove(c)
      <4>1. StopClears(c) => cmd[c].step \in Stopping
        BY DEF StopClears, Stopping
      <4> QED BY <1>0, <4>1, CommandTyped DEF Invocation
    <3>2. CASE Remove(c)
      BY <1>0, <3>2, EndsGives DEF Leaves, Remove
    <3> QED BY <1>0, <1>2, <2>2, <3>1, <3>2, ToGives DEF Leaves
  <2>3. CASE Fails(c) \/ Ends(c, "removed")
    BY <1>0, <2>3, FailsGives, EndsGives DEF Leaves
  <2> QED BY <2>2, <2>3 DEF StopClears, Remove
<1>5. \A d \in Commands : Leaves(d)'
  BY <1>2, <1>3, <1>4, LeavesFewer DEF OneEdge
<1>6. HasLock'
  <2>1. ASSUME NEW e \in Edges PROVE edge'[e].phase \in {"none", "gone"}
    BY <1>2 DEF Living, Is, Phase
  <2> QED BY <2>1 DEF HasLock, Phase
<1> QED BY <1>1, <1>2, <1>5, <1>6 DEF OneEdge, LockHeld

\* An edge starts where there is none.
LEMMA OneEdgeStarts ==
  ASSUME TypeInv, BasicInv, OneEdge, alone, NEW c \in Commands, Launch(c) \/ Restore(c)
  PROVE  OneEdge'
<1>0. CmdInv /\ EdgeInv /\ Leaves(c)
  BY DEF TypeInv, OneEdge
<1>1. UNCHANGED <<lock, faults>>
  BY DEF Launch, Restore, files
<1>2. CASE UNCHANGED edge
  <2>1. CASE To(c, "rollback") /\ Launch(c)
    <3>1. Living = {}
      BY <1>0, <2>1 DEF Leaves, Launch, At
    <3>2. Leaves(c)'
      BY <1>2, <2>1, <3>1, <1>0, EdgesSame, ToGives DEF Leaves
    <3> QED BY <1>0, <1>1, <1>2, <2>1, <3>2, ToGives, OneEdgeQuiet
  <2>2. CASE To(c, "wait") \/ To(c, "restored")
    <3>1. Leaves(c)'
      BY <1>0, <2>2, ToGives DEF Leaves
    <3> QED BY <1>0, <1>1, <1>2, <2>2, <3>1, ToGives, OneEdgeQuiet
  <2>3. CASE Fails(c)
    <3>1. Leaves(c)'
      BY <1>0, <2>3, FailsGives DEF Leaves
    <3> QED BY <1>0, <1>1, <1>2, <2>3, <3>1, FailsGives, OneEdgeQuiet
  <2> QED BY <2>1, <2>2, <2>3 DEF Launch, Restore
<1>3. ASSUME NEW v, NEW companion, NEW step \in {"wait", "restored"},
             Starts(v, companion), To(c, step), ~cmd[c].cancelled
      PROVE  OneEdge'
  <2>1. Living = {} /\ cmd[c].step \in Underway
    BY <1>0, <1>3 DEF Leaves, Launch, Restore, At, Underway, Steps
  <2>2. PICK e \in Edges :
          /\ Phase(e) = "none" /\ edge'[e].phase = "begun"
          /\ \A f \in Edges \ {e} : edge'[f] = edge[f]
          /\ Living' = Living \cup {e}
    BY <1>0, <1>3, StartsGives
  <2>3. \A f \in Edges \ {e} : Phase(f) \in {"none", "gone"}
    BY <2>1 DEF Living, Is
  <2>4. HasLock'
    BY <2>2, <2>3 DEF HasLock, Phase
  <2>5. \A d \in Commands \ {c} : cmd'[d] = cmd[d] /\ cmd[d].step \notin Underway
    BY <1>0, <1>3, <2>1, ToGives DEF BasicInv, InTurn
  <2>6. \A d \in Commands : Leaves(d)'
    <3>1. Leaves(c)'
      BY <1>0, <1>3, ToGives DEF Leaves
    <3>2. ASSUME NEW d \in Commands \ {c} PROVE Leaves(d)'
      BY <2>5 DEF Leaves, Underway, Steps
    <3> QED BY <3>1, <3>2
  <2>7. LockHeld => LockHeld'
    BY <1>1, <2>1 DEF LockHeld
  <2>8. \A d \in Commands : cmd'[d].cancelled => cmd[d].cancelled
    BY <1>0, <1>3, ToGives
  <2> QED BY <1>1, <2>1, <2>2, <2>4, <2>6, <2>7, <2>8 DEF OneEdge
<1> QED BY <1>2, <1>3 DEF Launch, Restore, CanStart

LEMMA OneEdgeCall ==
  ASSUME TypeInv, OneEdge, alone, NEW c \in Commands, Call(c)
  PROVE  OneEdge'
<1>0. CmdInv
  BY DEF TypeInv
<1>1. UNCHANGED <<edge, lock, faults>> /\ Settled
  BY <1>0, CallGives DEF files
<1>2. NoneStarts'
  BY <1>1 DEF Settled, NoneStarts, Living, Listening, Is, Phase, Starting
<1>3. Leaves(c)'
  BY <1>0, <1>2, CallGives DEF Leaves
<1> QED BY <1>0, <1>1, <1>3, CallGives, OneEdgeQuiet

LEMMA OneEdgeWindows ==
  ASSUME TypeInv, TypeInv', OneEdge, faults' <= 1, WindowsStops
  PROVE  OneEdge'
<1>1. UNCHANGED <<edge, lock, cmd>> /\ faults = 0
  BY EdgeAssumption DEF WindowsStops, Another, files, TypeInv, FaultsInv
<1>2. (HasLock' <=> HasLock) /\ (LockHeld' <=> LockHeld) /\ \A d \in Commands : Leaves(d)'
  BY <1>1, EdgesSame, LeavesFewer DEF HasLock, LockHeld, Phase, OneEdge
<1> QED BY <1>1, <1>2, EdgesSame DEF OneEdge

LEMMA OneEdgeStep ==
  ASSUME TypeInv, TypeInv', BasicInv, OneEdgeInv, [Next]_vars
  PROVE  OneEdgeInv'
<1>1. CASE UNCHANGED vars
  <2>1. UNCHANGED <<edge, lock, cmd, faults, alone>>
    BY <1>1 DEF vars, files, world
  <2>2. (HasLock' <=> HasLock) /\ (LockHeld' <=> LockHeld)
    BY <2>1, EdgesSame DEF HasLock, LockHeld, Phase
  <2>3. OneEdge => \A d \in Commands : Leaves(d)'
    BY <2>1, EdgesSame, LeavesFewer DEF OneEdge
  <2> QED BY <2>1, <2>2, <2>3, EdgesSame DEF OneEdge, OneEdgeInv
<1>2. CASE Next
  <2> SUFFICES ASSUME alone', faults' <= 1 PROVE OneEdge'
    BY DEF OneEdgeInv
  <2>1. ASSUME NEW e \in Edges, EdgeStep(e) \/ End(e) PROVE OneEdge'
    <3>1. alone' = alone /\ faults' = faults
      BY <2>1, EdgeMoves
      DEF world, EdgeStep, Begin, Open, Write, Look, Unlink, Listen, Release, Erase, End
    <3> QED BY <2>1, <3>1, OneEdgeEdge DEF OneEdgeInv
  <2>2. ASSUME NEW e \in Edges, Crash(e) PROVE OneEdge'
    <3>1. alone' = alone /\ faults' = faults + 1
      BY <2>2 DEF Crash, Another, world
    <3>2. faults \in Nat
      BY EdgeAssumption DEF TypeInv, FaultsInv
    <3>3. alone /\ faults <= 1
      BY <3>1, <3>2
    <3> QED BY <2>2, <3>3, OneEdgeCrash DEF OneEdgeInv
  <2>3. ASSUME NEW c \in Commands, Call(c) PROVE OneEdge'
    <3>1. alone' = alone /\ faults' = faults
      BY <2>3 DEF Call, world
    <3> QED BY <2>3, <3>1, OneEdgeCall DEF OneEdgeInv
  <2>4. ASSUME NEW c \in Commands, CommandStep(c) PROVE OneEdge'
    <3>1. alone' = alone /\ (faults' = faults \/ faults' = faults + 1)
      BY <2>4, CommandMoves DEF world
    <3>2. faults \in Nat
      BY EdgeAssumption DEF TypeInv, FaultsInv
    <3>3. alone /\ OneEdge
      BY <3>1, <3>2 DEF OneEdgeInv
    <3> QED
      BY <2>4, <3>3, OneEdgeLooks, OneEdgeStops, OneEdgeFiles, OneEdgeFaults, OneEdgeSignals,
         OneEdgeClears, OneEdgeStarts
      DEF CommandStep
  <2>5. CASE WindowsStops
    <3>1. alone' = alone /\ faults' = faults + 1
      BY <2>5 DEF WindowsStops, Another, world
    <3>2. faults \in Nat
      BY EdgeAssumption DEF TypeInv, FaultsInv
    <3>3. alone /\ faults <= 1
      BY <3>1, <3>2
    <3> QED BY <2>5, <3>3, OneEdgeWindows DEF OneEdgeInv
  <2> QED BY <1>1, <1>2, <2>1, <2>2, <2>3, <2>4, <2>5 DEF Next, OneEdgeInv
<1> QED BY <1>1, <1>2

-----------------------------------------------------------------------------
(* A run that meets no fault *)

\* All edges serve, and the lock can be read.
Rests == Settled /\ Ready

\* An edge serves and goes on serving, or the only one there is comes up: it has
\* its binary, and can try the lock once more if it does not get it.
ComesUp ==
    \/ Listening # {} /\ \A e \in Listening : ~edge[e].told
    \/ \E e \in Living :
         /\ Living = {e} /\ Phase(e) \in Starting /\ ~edge[e].told
         /\ Phase(e) = "begun" => Verified(e)
         /\ Phase(e) = "open" => edge[e].tries = 0 \/ lock = NoLock
         /\ Phase(e) \in {"look", "unlink"} => edge[e].tries = 0

Calm(c) ==
    /\ cmd[c].kind = "run" /\ cmd[c].calm = faults
    /\ windows /\ good = Versions /\ reach # {"admin"}

\* Until it looks for an edge, and after.
SetsUp(c) ==
  LET x == cmd[c]
  IN
    /\ x.step \in {"identify", "stage", "install", "inspect", "probe", "choose", "validate",
                   "launch", "stop", "judge"} => Rests
    /\ x.step = "identify" /\ x.installed => metadata = x.version
    /\ x.step \in {"inspect", "probe", "choose"} => metadata \in staged
    /\ x.step \in {"probe", "choose"} /\ x.seen # 0 => Owned /\ lock.by = x.seen
    /\ x.step = "validate" => "public" \in reach
    /\ x.step = "launch" => x.want \in staged

\* What it stops is the only edge, which ends without fail.
Clears(c) ==
  LET x == cmd[c]
  IN
    /\ x.step \in {"stop", "judge", "stopping", "clear"} =>
         /\ x.then \in {"validate", "launch"}
         /\ x.then = "validate" => "public" \in reach
         /\ x.then = "launch" => x.want \in staged
    /\ x.step \in {"stop", "judge"} => Owned
    /\ x.step \in {"judge", "stopping"} => x.target \in Edges /\ Living \subseteq {x.target}
    /\ x.step = "judge" => x.target = lock.by
    /\ x.step = "stopping" =>
         NoneStarts /\ lock = IF x.target \in Living THEN Record(x.target) ELSE NoLock
    /\ x.step = "clear" => Living = {} /\ lock = NoLock

Succeeds(c) ==
    /\ cmd[c].result # "failed"
    /\ cmd[c].step \in Underway => alone /\ ~cmd[c].cancelled
    /\ cmd[c].step \notin {"sweep", "rollback", "restore", "restored", "remove"}
    /\ SetsUp(c) /\ Clears(c)
    /\ cmd[c].step = "wait" => ComesUp

RecoverInv == \A c \in Commands : Calm(c) => Succeeds(c)

\* The faults that a call counts are those before it.
LEMMA CalmBefore ==
  ASSUME TypeInv, TypeInv', BasicInv, NEW c \in Commands, Calm(c)',
         cmd'[c].kind = cmd[c].kind, cmd'[c].calm = cmd[c].calm,
         faults' = faults \/ faults' = faults + 1, windows' => windows, UNCHANGED world
  PROVE  Calm(c) /\ faults' = faults
<1>1. faults \in Nat /\ faults' \in 0 .. MaxFaults /\ MaxFaults \in Nat
  BY EdgeAssumption DEF TypeInv, FaultsInv
<1>2. cmd[c].calm <= faults \/ cmd[c].calm = MaxFaults + 1
  BY DEF BasicInv, Counted
<1>3. cmd[c].calm = faults'
  BY DEF Calm
<1>4. cmd[c].calm \in Int
  BY <1>1, <1>3
<1>5. faults' = faults
  BY <1>1, <1>2, <1>3, <1>4
<1> QED BY <1>3, <1>5 DEF Calm, world

\* Who is done, or was not called, has no more to succeed in.
LEMMA NotUnderway ==
  ASSUME NEW c \in Commands, cmd[c].step \notin Underway, cmd[c].result # "failed"
  PROVE  Succeeds(c)
BY DEF Succeeds, SetsUp, Clears, Underway, Steps

\* An edge that rests does nothing.
LEMMA RestingEdge ==
  ASSUME Rests, NEW e \in Edges, EdgeStep(e) \/ End(e)
  PROVE  FALSE
BY DEF Rests, Settled, Ready, Living, Listening, Is, EdgeStep, Begin, Open, Write, Look, Unlink,
       Listen, Release, Erase, End

LEMMA ComesUpEdge ==
  ASSUME TypeInv, BasicInv, ComesUp, NEW e \in Edges, EdgeStep(e) \/ End(e)
  PROVE  ComesUp'
<1>1. /\ \A f \in Edges \ {e} : edge'[f] = edge[f]
      /\ edge'[e].binary = edge[e].binary /\ edge'[e].told = edge[e].told
      /\ e \in Living /\ Living' \subseteq Living /\ Living \subseteq Living' \cup {e}
      /\ staged' = staged
  BY EdgeMoves
<1>2. CASE Listening # {} /\ \A f \in Listening : ~edge[f].told
  <2>1. e \notin Listening
    BY <1>2
    DEF Listening, Is, EdgeStep, Begin, Open, Write, Look, Unlink, Listen, Release, Erase, End
  <2>2. edge'[e].phase # "serving"
    BY <1>2, EdgePhases
  <2>3. Listening' = Listening
    BY <1>1, <2>1, <2>2 DEF Listening, Is, Phase
  <2>4. \A f \in Listening : edge'[f] = edge[f]
    BY <1>1, <2>1 DEF Listening, Is
  <2> QED BY <1>2, <2>3, <2>4 DEF ComesUp
<1>3. CASE \E f \in Living :
             /\ Living = {f} /\ Phase(f) \in Starting /\ ~edge[f].told
             /\ Phase(f) = "begun" => Verified(f)
             /\ Phase(f) = "open" => edge[f].tries = 0 \/ lock = NoLock
             /\ Phase(f) \in {"look", "unlink"} => edge[f].tries = 0
  <2>1. /\ Living = {e} /\ Phase(e) \in Starting /\ ~edge[e].told
        /\ Phase(e) = "begun" => Verified(e)
        /\ Phase(e) = "open" => edge[e].tries = 0 \/ lock = NoLock
        /\ Phase(e) \in {"look", "unlink"} => edge[e].tries = 0
    BY <1>1, <1>3
  <2>2. Begun(e) /\ edge \in [Edges -> Process] /\ edge[e] \in Process
    BY DEF BasicInv, TypeInv, EdgeInv
  <2>3. Listening = {}
    BY <2>1 DEF Living, Listening, Is, Starting
  <2>4. ~Owned \/ Phase(e) \notin {"begun", "open", "look", "unlink"}
    BY <2>1, <2>2 DEF Owned, Begun
  <2>5. edge'[e].phase \in (Starting \ {"begun"}) \cup {"serving"}
    BY <2>1, <2>2, <2>3, <2>4
    DEF EdgeStep, Begin, Open, Write, Look, Unlink, Listen, Release, Erase, End, Goes, Process,
        Starting
  <2>6. e \in Living' /\ Living' = {e}
    BY <1>1, <2>1, <2>5 DEF Living, Is, Phase, Starting
  <2>7. edge'[e].phase = "open" => edge'[e].tries = 0 \/ lock' = NoLock
    BY <2>1, <2>2
    DEF EdgeStep, Begin, Open, Write, Look, Unlink, Listen, Release, Erase, End, Goes, Process, Begun
  <2>8. edge'[e].phase \in {"look", "unlink"} => edge'[e].tries = 0
    BY <2>1, <2>2
    DEF EdgeStep, Begin, Open, Write, Look, Unlink, Listen, Release, Erase, End, Goes, Process
  <2>9. CASE edge'[e].phase = "serving"
    <3>1. \A f \in Listening' : f = e
      BY <2>6 DEF Living, Listening, Is
    <3>2. e \in Listening'
      BY <2>9 DEF Listening, Is, Phase
    <3> QED BY <1>1, <2>1, <3>1, <3>2 DEF ComesUp
  <2>10. CASE edge'[e].phase \in Starting \ {"begun"}
    BY <1>1, <2>1, <2>6, <2>7, <2>8, <2>10 DEF ComesUp, Phase
  <2> QED BY <2>5, <2>9, <2>10
<1> QED BY <1>2, <1>3 DEF ComesUp

LEMMA StoppingEdge ==
  ASSUME TypeInv, NEW t \in Edges, Living \subseteq {t}, NoneStarts,
         lock = IF t \in Living THEN Record(t) ELSE NoLock,
         NEW e \in Edges, EdgeStep(e) \/ End(e)
  PROVE  NoneStarts' /\ Living' \subseteq {t} /\ lock' = IF t \in Living' THEN Record(t) ELSE NoLock
<1>1. e = t /\ Living = {t} /\ lock = Record(t) /\ Living' \subseteq {t}
  BY EdgeMoves
<1>2. NoneStarts'
  BY EdgeMoves, EdgePhases DEF NoneStarts, Is, Phase
<1>3. Phase(e) \in {"serving", "release", "erase"}
  BY <1>1, LivingPhases DEF NoneStarts, Is
<1>4. edge \in [Edges -> Process] /\ edge[e] \in Process
  BY DEF TypeInv, EdgeInv
<1>5. CASE End(e) \/ Release(e)
  <2>1. edge'[e].phase \in {"release", "erase"} /\ lock' = lock
    BY <1>1, <1>4, <1>5 DEF End, Release, Goes, Process, files
  <2>2. t \in Living'
    BY <1>1, <2>1 DEF Living, Is, Phase
  <2> QED BY <1>1, <1>2, <2>1, <2>2
<1>6. CASE Erase(e)
  <2>1. edge'[e].phase = "gone" /\ lock' = NoLock
    BY <1>4, <1>6 DEF Erase, Goes, Process
  <2>2. t \notin Living'
    BY <1>1, <2>1 DEF Living, Is, Phase
  <2> QED BY <1>1, <1>2, <2>1, <2>2
<1> QED
  BY <1>3, <1>5, <1>6 DEF EdgeStep, Begin, Open, Write, Look, Unlink, Listen, Starting

LEMMA RecoverEdge ==
  ASSUME TypeInv, BasicInv, NEW c \in Commands, Succeeds(c), NEW e \in Edges, EdgeStep(e) \/ End(e)
  PROVE  Succeeds(c)'
<1>1. UNCHANGED <<metadata, staged, world, cmd>> /\ e \in Living
  BY EdgeMoves
<1>2. ~Rests
  BY RestingEdge
<1>3. cmd[c].step \notin {"identify", "stage", "install", "inspect", "probe", "choose", "validate",
                          "launch", "stop", "judge", "clear"}
  BY <1>1, <1>2 DEF Succeeds, SetsUp, Clears
<1>4. CASE cmd[c].step = "stopping"
  <2>1. /\ cmd[c].target \in Edges /\ Living \subseteq {cmd[c].target} /\ NoneStarts
        /\ lock = IF cmd[c].target \in Living THEN Record(cmd[c].target) ELSE NoLock
    BY <1>4 DEF Succeeds, Clears
  <2>2. /\ NoneStarts' /\ Living' \subseteq {cmd[c].target}
        /\ lock' = IF cmd[c].target \in Living' THEN Record(cmd[c].target) ELSE NoLock
    BY <2>1, StoppingEdge
  <2> QED BY <1>1, <1>4, <2>1, <2>2 DEF Succeeds, SetsUp, Clears, world
<1>5. CASE cmd[c].step = "wait"
  <2>1. ComesUp'
    BY <1>5, ComesUpEdge DEF Succeeds
  <2> QED BY <1>1, <1>5, <2>1 DEF Succeeds, SetsUp, Clears, world
<1>6. CASE cmd[c].step \notin {"stopping", "wait"}
  BY <1>1, <1>3, <1>6 DEF Succeeds, SetsUp, Clears, world
<1> QED BY <1>4, <1>5, <1>6

LEMMA RestsSame ==
  ASSUME UNCHANGED <<edge, lock>>
  PROVE  (Rests' <=> Rests) /\ (Owned' <=> Owned) /\ Living' = Living /\ Listening' = Listening
BY DEF Rests, Settled, Ready, Owned, Living, Listening, Is, Phase

\* What serves and is not told to end leads to the router, and where nothing
\* serves Windows does, if it lends both ports.
LEMMA LeadsThere ==
  ASSUME BasicInv, NEW c \in Commands, Calm(c), \A e \in Listening : ~edge[e].told,
         Listening # {} \/ "public" \in reach
  PROVE  Reachable
<1>1. CASE Listening # {}
  <2>1. PICK e \in Listening : ~edge[e].told
    BY <1>1
  <2>2. e \in Edges /\ Phase(e) = "serving" /\ Begun(e)
    BY DEF Listening, Is, BasicInv
  <2>3. edge[e].binary \in good
    BY <2>2 DEF Begun, Calm
  <2> QED BY <1>1, <2>1, <2>3 DEF Reachable, Forwards, Calm
<1>2. CASE Listening = {}
  BY <1>2 DEF Reachable, Calm
<1> QED BY <1>1, <1>2

\* Up to where it has looked for an edge.
LEMMA RecoverSetsUp ==
  ASSUME TypeInv, InstalledInv, NEW c \in Commands, Calm(c), Succeeds(c),
         Identify(c) \/ Stage(c) \/ Install(c) \/ Inspect(c)
  PROVE  Succeeds(c)'
<1>0. CmdInv /\ cmd[c] \in Invocation
  BY DEF TypeInv, CmdInv
<1>1. /\ cmd[c].step \in Underway /\ cmd[c].kind = "run"
      /\ cmd[c].version \in Versions /\ cmd[c].version # None
  <2>1. cmd[c].step \in Underway /\ cmd[c].kind = "run"
    BY DEF Identify, Stage, Install, Inspect, At, Underway, Steps, Calm
  <2> QED BY <1>0, <2>1, CommandTyped, VersionTyped
<1>2. alone /\ ~cmd[c].cancelled /\ Rests /\ cmd[c].result # "failed"
  BY <1>1 DEF Succeeds, SetsUp, Identify, Stage, Install, Inspect, At
<1>3. UNCHANGED <<edge, lock, world>> /\ Rests'
  BY <1>2, RestsSame DEF Identify, Stage, Install, Inspect, files
<1>4. CASE Identify(c)
  <2>0. UNCHANGED <<metadata, staged>>
    BY <1>4 DEF Identify, files
  <2>1. CASE metadata = cmd[c].version /\ To(c, "inspect")
    <3>1. metadata \in staged
      BY <1>1, <1>2, <2>1 DEF InstalledInv
    <3> QED BY <1>0, <1>2, <1>3, <2>0, <2>1, <3>1, ToGives DEF Succeeds, SetsUp, Clears, world
  <2>2. CASE To(c, "stage")
    BY <1>0, <1>2, <1>3, <2>2, ToGives DEF Succeeds, SetsUp, Clears, world
  <2>3. CASE Ends(c, "declined") /\ ~cmd[c].installed
    BY <1>0, <2>3, EndsGives, NotUnderway DEF Succeeds, SetsUp, Clears, Underway
  <2> QED
    BY <1>4, <2>1, <2>2, <2>3 DEF Identify, Succeeds, SetsUp, At
<1>5. CASE Stage(c)
  <2>1. To(c, "install")
    BY <1>5 DEF Stage
  <2> QED BY <1>0, <1>2, <1>3, <2>1, ToGives DEF Succeeds, SetsUp, Clears, world
<1>6. CASE Install(c)
  <2>1. Upgrades(c) /\ metadata' = cmd[c].version
    BY <1>1, <1>6 DEF Install, Upgrades
  <2> QED BY <1>0, <1>2, <1>3, <2>1, InstallGives DEF Succeeds, SetsUp, Clears, world
<1>7. CASE Inspect(c)
  <2>0. UNCHANGED <<metadata, staged>>
    BY <1>7 DEF Inspect, files
  <2>1. lock = NoLock \/ (lock.written /\ (Owned => Verified(lock.by)))
    <3>1. lock = NoLock \/ lock.written
      BY <1>2 DEF Rests, Ready
    <3>2. Owned => Verified(lock.by)
      BY <1>2 DEF Owned, InstalledInv
    <3> QED BY <3>1, <3>2
  <2>2. ~Fails(c)
    <3>1. cmd' = [cmd EXCEPT ![c].seen = IF Owned THEN lock.by ELSE 0, ![c].step = "probe"]
      BY <1>7, <2>1 DEF Inspect
    <3>2. cmd'[c].step = "probe"
      BY <1>0, <3>1 DEF CmdInv
    <3> QED BY <1>0, <3>2, FailsGives
  <2>3. metadata \in staged
    BY <1>7 DEF Succeeds, SetsUp, Inspect, At
  <2>4. Owned' <=> Owned
    BY <1>3, RestsSame
  <2> QED
    BY <1>0, <1>2, <1>3, <1>7, <2>0, <2>2, <2>3, <2>4, InspectGives
    DEF Succeeds, SetsUp, Clears, world
<1> QED BY <1>4, <1>5, <1>6, <1>7

\* Up to where it has decided to replace what there is.
LEMMA RecoverDecides ==
  ASSUME TypeInv, BasicInv, NEW c \in Commands, Calm(c), Succeeds(c),
         Probe(c) \/ Validate(c) \/ Choose(c) \/ Wait(c)
  PROVE  Succeeds(c)'
<1>0. CmdInv /\ cmd[c] \in Invocation
  BY DEF TypeInv, CmdInv
<1>1. cmd[c].step \in Underway
  BY DEF Probe, Validate, Choose, Wait, At, Underway, Steps
<1>2. alone /\ ~cmd[c].cancelled /\ cmd[c].result # "failed"
  BY <1>1 DEF Succeeds
<1>3. UNCHANGED <<edge, files, world>> /\ (Rests => Rests') /\ (Owned <=> Owned')
  BY RestsSame DEF Probe, Validate, Choose, Wait, files
<1>4. Rests => \A e \in Listening : ~edge[e].told
  BY DEF Rests, Ready, Listening, Living, Is
<1>5. ASSUME NEW result, result # "failed", Ends(c, result)
      PROVE  Succeeds(c)'
  BY <1>0, <1>5, EndsGives DEF Succeeds, SetsUp, Clears, Underway
<1>6. CASE Probe(c)
  <2>1. Rests /\ (cmd[c].seen # 0 => Owned /\ lock.by = cmd[c].seen) /\ metadata \in staged
    BY <1>6 DEF Succeeds, SetsUp, Probe, At
  <2>2. "admin" \in reach => "public" \in reach
    BY DEF Calm, TypeInv, WorldInv
  <2>3. CASE cmd' = Stops(c, "validate") /\ cmd[c].seen # 0 /\ "admin" \in reach
    BY <1>0, <1>2, <1>3, <2>1, <2>2, <2>3, StopsGives DEF Succeeds, SetsUp, Clears, world, files
  <2>4. CASE To(c, "validate") /\ "admin" \in reach
    BY <1>0, <1>2, <1>3, <2>1, <2>2, <2>4, ToGives DEF Succeeds, SetsUp, Clears, world, files
  <2>5. CASE To(c, "choose")
    BY <1>0, <1>2, <1>3, <2>1, <2>5, ToGives DEF Succeeds, SetsUp, Clears, world, files
  <2> QED BY <1>6, <2>3, <2>4, <2>5 DEF Probe
<1>7. CASE Validate(c)
  <2>1. Rests /\ "public" \in reach
    BY <1>7 DEF Succeeds, SetsUp, Validate, At
  <2>2. Finds(c)
    BY <1>2, <1>4, <2>1, LeadsThere DEF Finds
  <2> QED BY <1>5, <1>7, <2>2 DEF Validate
<1>8. CASE Choose(c)
  <2>1. /\ Rests /\ metadata \in staged
        /\ cmd[c].seen # 0 => Owned /\ lock.by = cmd[c].seen
    BY <1>8 DEF Succeeds, SetsUp, Choose, At
  <2>2. CASE Replaces(c)
    BY <1>0, <1>2, <1>3, <2>1, <2>2, ChooseGives DEF Succeeds, SetsUp, Clears, world, files
  <2> QED BY <1>5, <1>8, <2>1, <2>2 DEF Choose, Replaces
<1>9. CASE Wait(c)
  <2>1. ComesUp
    BY <1>9 DEF Succeeds, Wait, At
  <2>2. ~GivesUp(c)
    <3>1. CASE Listening # {} /\ \A e \in Listening : ~edge[e].told
      BY <1>2, <3>1, LeadsThere DEF GivesUp
    <3>2. CASE \E e \in Living : Phase(e) \in Starting
      BY <1>2, <3>2 DEF GivesUp, Is, Living
    <3> QED BY <2>1, <3>1, <3>2 DEF ComesUp
  <2> QED BY <1>5, <1>9, <2>2 DEF Wait
<1> QED BY <1>6, <1>7, <1>8, <1>9

\* It stops the edge that it has found, ...
LEMMA RecoverStops ==
  ASSUME TypeInv, BasicInv, InstalledInv, NEW c \in Commands, Calm(c), Succeeds(c),
         StopReads(c) \/ StopSignals(c) \/ StopWaits(c) \/ StopClears(c)
  PROVE  Succeeds(c)'
<1>0. CmdInv /\ EdgeInv /\ cmd[c] \in Invocation /\ lock \in [by : Maybe, written : BOOLEAN]
  BY DEF TypeInv, CmdInv, FilesInv
<1>1. cmd[c].step \in Underway /\ cmd[c].step # "sweep"
  BY DEF StopReads, StopSignals, StopWaits, StopClears, Underway, Steps, Succeeds
<1>2. alone /\ ~cmd[c].cancelled /\ cmd[c].result # "failed"
  BY <1>1 DEF Succeeds
<1>3. /\ cmd[c].then \in {"validate", "launch"}
      /\ cmd[c].then = "validate" => "public" \in reach
      /\ cmd[c].then = "launch" => cmd[c].want \in staged
  BY <1>1 DEF Succeeds, Clears, StopReads, StopSignals, StopWaits, StopClears
<1>4. UNCHANGED <<metadata, staged, world>>
  BY DEF StopReads, StopSignals, StopWaits, StopClears, files
<1>5. CASE StopReads(c)
  <2>1. Rests /\ Owned /\ lock # NoLock /\ lock.written
    BY <1>5, EdgeAssumption DEF Succeeds, SetsUp, Clears, StopReads, Owned, NoLock
  <2>2. Judges(c) /\ UNCHANGED <<edge, lock>>
    BY <1>5, <2>1 DEF StopReads, Judges, files
  <2>3. Living \subseteq {lock.by}
    BY <2>1 DEF Rests, Settled, Owned, BasicInv
  <2>4. lock.by \in Edges
    BY <2>1 DEF Owned, Living
  <2>5. Rests' /\ Owned' /\ Living' = Living
    BY <2>1, <2>2, RestsSame
  <2> QED
    BY <1>0, <1>2, <1>3, <1>4, <2>2, <2>3, <2>4, <2>5, StopReadsGives
    DEF Succeeds, SetsUp, Clears, world
<1>6. CASE StopSignals(c)
  <2>1. /\ Rests /\ Owned /\ cmd[c].target = lock.by
        /\ cmd[c].target \in Edges /\ Living \subseteq {cmd[c].target}
    BY <1>6 DEF Succeeds, SetsUp, Clears, StopSignals
  <2>2. cmd[c].target \in Living /\ Verified(cmd[c].target)
    BY <1>2, <2>1 DEF Owned, InstalledInv
  <2>3. edge' = [edge EXCEPT ![cmd[c].target].told = TRUE] /\ To(c, "stopping") /\ lock' = lock
    BY <1>6, <2>2 DEF StopSignals, files
  <2>4. NoneStarts
    BY <2>1 DEF NoneStarts, Rests, Settled, Living, Listening, Is, Starting
  <2>5. NoneStarts' /\ Living' = Living
    BY <1>0, <2>1, <2>3, <2>4, SignalGives DEF NoneStarts
  <2>6. lock = Record(cmd[c].target)
    BY <1>0, <2>1 DEF Owned, Record
  <2> QED
    BY <1>0, <1>2, <1>3, <1>4, <2>1, <2>2, <2>3, <2>5, <2>6, ToGives
    DEF Succeeds, SetsUp, Clears, world
<1>7. CASE StopWaits(c)
  <2>1. Living = {} /\ lock = NoLock /\ To(c, "clear") /\ UNCHANGED <<edge, lock>>
    BY <1>7 DEF Succeeds, Clears, StopWaits, files
  <2>2. Living' = {}
    BY <2>1, RestsSame
  <2> QED
    BY <1>0, <1>2, <1>3, <1>4, <2>1, <2>2, ToGives DEF Succeeds, SetsUp, Clears, world
<1>8. CASE StopClears(c)
  <2>1. Living = {} /\ lock' = NoLock /\ To(c, cmd[c].then) /\ UNCHANGED edge
    BY <1>1, <1>8 DEF Succeeds, Clears, StopClears
  <2>2. Living' = {}
    BY <2>1, EdgesSame
  <2>3. Rests'
    BY <2>1, <2>2 DEF Rests, Settled, Ready
  <2> QED
    BY <1>0, <1>2, <1>3, <1>4, <2>1, <2>2, <2>3, ToGives DEF Succeeds, SetsUp, Clears, world
<1> QED BY <1>5, <1>6, <1>7, <1>8

\* ... and starts another.
LEMMA RecoverLaunch ==
  ASSUME TypeInv, BasicInv, NEW c \in Commands, Calm(c), Succeeds(c), Launch(c)
  PROVE  Succeeds(c)'
<1>0. CmdInv /\ EdgeInv /\ cmd[c] \in Invocation
  BY DEF TypeInv, CmdInv
<1>1. alone /\ ~cmd[c].cancelled /\ cmd[c].result # "failed"
  BY DEF Succeeds, Launch, At, Underway, Steps
<1>2. Rests /\ cmd[c].want \in staged
  BY DEF Succeeds, SetsUp, Launch, At
<1>3. Starts(cmd[c].want, cmd[c].version) /\ To(c, "wait") /\ UNCHANGED <<files, world>>
  BY <1>1, <1>2 DEF Launch, CanStart
<1>4. PICK e \in Edges :
        /\ Phase(e) = "none"
        /\ edge'[e].phase = "begun" /\ edge'[e].binary = cmd[c].want
        /\ edge'[e].told = edge[e].told
        /\ \A f \in Edges \ {e} : edge'[f] = edge[f]
        /\ Living' = Living \cup {e} /\ e \notin Living /\ Listening' = Listening
  BY <1>0, <1>3, StartsGives
<1>5. ComesUp'
  <2>1. CASE Listening # {}
    <3>1. \A f \in Listening' : edge'[f] = edge[f] /\ ~edge[f].told
      BY <1>2, <1>4 DEF Rests, Ready, Listening, Living, Is
    <3> QED BY <1>4, <2>1, <3>1 DEF ComesUp
  <2>2. CASE Listening = {}
    <3>1. Living' = {e}
      BY <1>2, <1>4, <2>2 DEF Rests, Settled
    <3>2. ~edge'[e].told
      BY <1>4 DEF BasicInv, Begun
    <3>3. Verified(e)'
      BY <1>2, <1>3, <1>4 DEF Verified, files
    <3> QED BY <1>4, <3>1, <3>2, <3>3 DEF ComesUp, Phase, Starting
  <2> QED BY <2>1, <2>2
<1> QED BY <1>0, <1>1, <1>3, <1>5, ToGives DEF Succeeds, SetsUp, Clears, world, files

LEMMA RecoverCommand ==
  ASSUME TypeInv, TypeInv', BasicInv, InstalledInv, RecoverInv, NEW d \in Commands, CommandStep(d)
  PROVE  RecoverInv'
<1> SUFFICES ASSUME NEW c \in Commands, Calm(c)'
             PROVE  Succeeds(c)'
  BY DEF RecoverInv
<1>1. /\ cmd'[c].kind = cmd[c].kind /\ cmd'[c].calm = cmd[c].calm
      /\ faults' = faults \/ faults' = faults + 1
      /\ UNCHANGED world /\ windows' = windows
  <2>1. CASE d = c
    BY <2>1, CommandMoves
    DEF CommandStep, Identify, Stage, Install, Inspect, Probe, Validate, Choose, Launch, Wait,
        Rollback, Restore, Restored, StopReads, StopSignals, StopWaits, StopClears, Remove,
        Interrupt, StopTimesOut, RemoveFails
  <2>2. CASE d # c
    BY <2>2, CommandMoves
    DEF CommandStep, Identify, Stage, Install, Inspect, Probe, Validate, Choose, Launch, Wait,
        Rollback, Restore, Restored, StopReads, StopSignals, StopWaits, StopClears, Remove,
        Interrupt, StopTimesOut, RemoveFails
  <2> QED BY <2>1, <2>2
<1>2. Calm(c) /\ faults' = faults
  BY <1>1, CalmBefore
<1>3. Succeeds(c)
  BY <1>2 DEF RecoverInv
<1>4. ~Interrupt(d) /\ ~StopTimesOut(d) /\ ~RemoveFails(d)
  <2>1. faults' # faults + 1
    BY <1>2, EdgeAssumption DEF TypeInv, FaultsInv
  <2> QED BY <2>1 DEF Interrupt, StopTimesOut, RemoveFails, Another
<1>5. cmd[d].step \in Underway
  BY <1>4, CommandMoves
<1>6. CASE d # c
  <2>1. cmd[c].step \notin Underway /\ cmd'[c] = cmd[c]
    BY <1>3, <1>5, <1>6, CommandMoves DEF Succeeds, BasicInv, InTurn
  <2>2. cmd'[c].step \notin Underway /\ cmd'[c].result # "failed"
    BY <1>3, <2>1 DEF Succeeds
  <2> QED BY <2>2 DEF Succeeds, SetsUp, Clears, Underway, Steps
<1>7. CASE d = c
  <2>1. ~Rollback(c) /\ ~Restore(c) /\ ~Restored(c) /\ ~Remove(c)
    BY <1>3 DEF Succeeds, Rollback, Restore, Restored, Remove, At
  <2> QED
    BY <1>2, <1>3, <1>4, <1>7, <2>1, RecoverSetsUp, RecoverDecides, RecoverStops, RecoverLaunch
    DEF CommandStep
<1> QED BY <1>6, <1>7

LEMMA RecoverCall ==
  ASSUME TypeInv, TypeInv', RecoverInv, NEW d \in Commands, Call(d)
  PROVE  RecoverInv'
<1> SUFFICES ASSUME NEW c \in Commands, Calm(c)'
             PROVE  Succeeds(c)'
  BY DEF RecoverInv
<1>0. CmdInv /\ UNCHANGED <<edge, files, windows, world, faults>>
  BY CallGives DEF TypeInv
<1>1. CASE c = d
  <2>1. /\ ~cmd'[c].cancelled /\ ~cmd'[c].installed /\ cmd'[c].result = "none"
        /\ cmd'[c].kind = "run" /\ cmd'[c].step = "identify"
        /\ cmd'[c].calm = IF alone /\ Ready THEN faults ELSE MaxFaults + 1
        /\ alone => Settled
    BY <1>0, <1>1, CallGives DEF Calm
  <2>2. alone /\ Ready
    BY <1>0, <2>1, EdgeAssumption DEF Calm, TypeInv, FaultsInv
  <2>3. Rests'
    BY <1>0, <2>1, <2>2, RestsSame DEF Rests, files
  <2> QED BY <1>0, <2>1, <2>2, <2>3 DEF Succeeds, SetsUp, Clears, world
<1>2. CASE c # d
  <2>1. cmd'[c] = cmd[c]
    BY <1>0, <1>2, CallGives
  <2>2. Succeeds(c)
    BY <1>0, <2>1 DEF RecoverInv, Calm, world
  <2>3. cmd[c].step \notin Underway
    BY <1>0, <2>2, CallGives DEF Succeeds
  <2> QED BY <2>1, <2>2, <2>3 DEF Succeeds, SetsUp, Clears, Underway, Steps
<1> QED BY <1>1, <1>2

LEMMA RecoverStep ==
  ASSUME TypeInv, TypeInv', BasicInv, InstalledInv, RecoverInv, [Next]_vars
  PROVE  RecoverInv'
<1>1. ASSUME NEW e \in Edges, EdgeStep(e) \/ End(e) PROVE RecoverInv'
  <2> SUFFICES ASSUME NEW c \in Commands, Calm(c)'
               PROVE  Succeeds(c)'
    BY DEF RecoverInv
  <2>1. cmd' = cmd /\ UNCHANGED <<windows, world>> /\ faults' = faults
    BY <1>1, EdgeMoves
    DEF EdgeStep, Begin, Open, Write, Look, Unlink, Listen, Release, Erase, End
  <2>2. Calm(c)
    BY <2>1 DEF Calm, world
  <2> QED BY <1>1, <2>2, RecoverEdge DEF RecoverInv
<1>2. ASSUME NEW e \in Edges, Crash(e) PROVE RecoverInv'
  <2> SUFFICES ASSUME NEW c \in Commands, Calm(c)'
               PROVE  FALSE
    BY DEF RecoverInv
  <2>1. cmd' = cmd /\ windows' = windows /\ faults' = faults + 1 /\ UNCHANGED world
    BY <1>2 DEF Crash, Another
  <2>2. faults' = faults
    BY <2>1, CalmBefore
  <2> QED BY <2>1, <2>2, EdgeAssumption DEF TypeInv, FaultsInv
<1>3. CASE WindowsStops
  BY <1>3 DEF WindowsStops, RecoverInv, Calm
<1>4. CASE UNCHANGED vars
  <2> SUFFICES ASSUME NEW c \in Commands, Calm(c)'
               PROVE  Succeeds(c)'
    BY DEF RecoverInv
  <2>1. UNCHANGED <<edge, lock, metadata, staged, windows, reach, good, alone, cmd, faults>>
    BY <1>4 DEF vars, files, world
  <2>2. Calm(c) /\ Succeeds(c)
    BY <2>1 DEF Calm, RecoverInv
  <2>3. (Rests' <=> Rests) /\ (Owned' <=> Owned) /\ Living' = Living /\ (NoneStarts' <=> NoneStarts)
    BY <2>1, RestsSame, EdgesSame
  <2>4. ComesUp => ComesUp'
    BY <2>1, RestsSame DEF ComesUp, Phase, Verified
  <2> QED BY <2>1, <2>2, <2>3, <2>4 DEF Succeeds, SetsUp, Clears
<1> QED BY <1>1, <1>2, <1>3, <1>4, RecoverCommand, RecoverCall DEF Next

-----------------------------------------------------------------------------

CommandsInv == BasicInv /\ InstalledInv /\ OneEdgeInv /\ RecoverInv

LEMMA CommandsInit ==
  ASSUME Init
  PROVE  CommandsInv
<1>1. PICK v \in Versions, first \in BOOLEAN :
        /\ edge = [e \in Edges |->
                     IF first /\ e = 1
                     THEN [NotStarted EXCEPT !.phase = "serving", !.binary = v, !.companion = v]
                     ELSE NotStarted]
        /\ lock = IF first THEN Record(1) ELSE NoLock
        /\ metadata = IF first THEN v ELSE None
        /\ staged = IF first THEN {v} ELSE {}
  BY DEF Init
<1>2. ASSUME NEW e \in Edges
      PROVE  /\ edge[e].tries = 0 /\ ~edge[e].told
             /\ IF first /\ e = 1 THEN edge[e].phase = "serving" /\ edge[e].binary = v
                                  ELSE edge[e].phase = "none"
  BY <1>1 DEF NotStarted
<1>3. /\ \A e \in Living : first /\ e = 1 /\ edge[e].phase = "serving" /\ edge[e].binary = v
      /\ \A e \in Listening : e = 1
  BY <1>2 DEF Living, Listening, Is, Phase
<1>4. \A c \in Commands : /\ cmd[c].step = "idle" /\ ~cmd[c].cancelled /\ cmd[c].calm = 0
                          /\ cmd[c].kind = "none"
  BY DEF Init, NotCalled
<1>5. faults = 0
  BY DEF Init
<1>6. BasicInv
  <2>1. ASSUME NEW e \in Edges PROVE Begun(e)
    <3>1. lock.by # e \/ (first /\ e = 1)
      BY <1>1, LockNumbers DEF Record
    <3> QED BY <1>2, <3>1 DEF Begun, Phase
  <2>2. \A c \in Commands : Counted(c)
    BY <1>4, <1>5 DEF Counted
  <2>3. InTurn
    BY <1>4 DEF InTurn, Underway
  <2> QED BY <1>3, <2>1, <2>2, <2>3 DEF BasicInv
<1>7. InstalledInv
  BY <1>1, <1>3, <1>4 DEF InstalledInv, Verified, Underway
<1>8. OneEdgeInv
  <2>1. HasLock
    BY <1>1, <1>2 DEF HasLock, Phase
  <2>2. LockHeld
    <3>1. CASE first
      <4>1. 1 \in Living
        BY <1>2, <3>1, EdgeAssumption DEF Living, Is, Phase
      <4> QED BY <1>1, <3>1, <4>1 DEF LockHeld, Record
    <3>2. CASE ~first
      BY <1>1, <3>2 DEF LockHeld
    <3> QED BY <3>1, <3>2
  <2>3. \A c \in Commands : Leaves(c)
    BY <1>4 DEF Leaves
  <2> QED BY <1>3, <2>1, <2>2, <2>3 DEF OneEdgeInv, OneEdge
<1>9. RecoverInv
  BY <1>4 DEF RecoverInv, Calm
<1> QED BY <1>6, <1>7, <1>8, <1>9 DEF CommandsInv

LEMMA SessionSteps ==
  ASSUME [SessionNext]_allVars
  PROVE  [Next]_vars
<1>1. ASSUME NEW k \in Connections, Accept(k) \/ ConnectionStep(k) PROVE UNCHANGED vars
  BY <1>1
  DEF Accept, ConnectionStep, Share, BackOff, StartHelper, Greeted, GreetingFails, Wakes, Opens,
      Refused, Invalidate, Hangup
<1>2. ASSUME NEW h \in Helpers, HelperEnds(h) PROVE UNCHANGED vars
  BY <1>2 DEF HelperEnds
<1>3. NextAttempt \/ UNCHANGED allVars => UNCHANGED vars
  BY DEF NextAttempt, allVars
<1>4. ASSUME NEW e \in Edges, CloseManager(e) \/ Breaks(e) PROVE Next
  BY <1>4 DEF CloseManager, Breaks, Next
<1>5. ASSUME NEW c \in Commands, CallOnce(c) PROVE Next
  BY <1>5 DEF CallOnce, Next
<1> QED BY <1>1, <1>2, <1>3, <1>4, <1>5 DEF SessionNext, Next

LEMMA CommandsStep ==
  ASSUME TypeInv, TypeInv', CommandsInv, [Next]_vars
  PROVE  CommandsInv'
<1> USE DEF CommandsInv
<1>1. OneEdgeInv' /\ RecoverInv'
  BY OneEdgeStep, RecoverStep
<1>2. BasicInv' /\ InstalledInv'
  <2>1. ASSUME NEW e \in Edges, EdgeStep(e) \/ End(e) \/ Crash(e) PROVE BasicInv' /\ InstalledInv'
    BY <2>1, BasicEdge, InstalledEdge
  <2>2. ASSUME NEW c \in Commands, CommandStep(c) PROVE BasicInv' /\ InstalledInv'
    BY <2>2, BasicCommand, InstalledCommand
  <2>3. ASSUME NEW c \in Commands, Call(c) PROVE BasicInv' /\ InstalledInv'
    BY <2>3, BasicCall, InstalledCall
  <2>4. CASE WindowsStops \/ UNCHANGED vars
    BY <2>4, BasicSame, InstalledSame
  <2> QED BY <2>1, <2>2, <2>3, <2>4 DEF Next
<1> QED BY <1>1, <1>2

LEMMA AllInv == SessionSpec => [](Inv /\ CommandsInv)
<1>1. SessionInit => Inv /\ CommandsInv
  BY InitInv, CommandsInit DEF SessionInit
<1>2. Inv /\ CommandsInv /\ [SessionNext]_allVars => (Inv /\ CommandsInv)'
  <2> SUFFICES ASSUME Inv, CommandsInv, [SessionNext]_allVars
               PROVE  Inv' /\ CommandsInv'
    OBVIOUS
  <2>1. Inv'
    BY StepInv
  <2>2. TypeInv /\ TypeInv'
    BY <2>1 DEF Inv
  <2> QED BY <2>1, <2>2, SessionSteps, CommandsStep
<1> QED BY <1>1, <1>2, PTL DEF SessionSpec

\* A run that is called when all edges rest, after whatever number of faults,
\* and meets none itself, does not fail (Inspect, Stop and acquireEdgeLock get
\* past what crashes and interrupted runs have left behind).
THEOREM RunsRecover == SessionSpec => []RunRecovers
<1>1. CommandsInv => RunRecovers
  BY DEF CommandsInv, RecoverInv, RunRecovers, Calm, Succeeds
<1> QED BY <1>1, AllInv, PTL

\* No edge runs when gohere uninstall removes what is installed, as long as
\* commands come one after the other and no more than one thing went wrong
\* (Stop reads the lock, which is that of the only edge there is).
THEOREM UninstallFindsEdge == SessionSpec => UninstallRemovesEdge
<1> DEFINE FindsAll == alone /\ faults <= 1 => \A c \in Commands : Remove(c) => Living = {}
<1>1. CommandsInv => FindsAll
  BY DEF CommandsInv, OneEdgeInv, OneEdge, Leaves, Remove, At
<1>2. Inv /\ CommandsInv /\ [SessionNext]_allVars => [FindsAll]_vars
  BY <1>1
<1> QED BY <1>2, AllInv, PTL DEF SessionSpec, UninstallRemovesEdge

-----------------------------------------------------------------------------
(* Transport *)

\* An uninstall that has begun to stop an edge, and from then on.
Removes(c) ==
    /\ cmd[c].kind = "uninstall"
    /\ cmd[c].step \in {"stopping", "clear", "remove"} \/ cmd[c].result = "removed"

Undisturbed == faults = 0 /\ \A c \in Commands : ~Removes(c)

GoesOn(c, step) == cmd[c].step = step \/ (cmd[c].step \in Stopping /\ cmd[c].then = step)

\* Who stops an edge, and which edge it puts in its place.
Errand(c) ==
  LET x == cmd[c]
  IN
    /\ x.result # "none" => x.step = "over"
    /\ x.step \in Stopping => \/ x.kind = "run" /\ x.then \in {"validate", "launch", "rollback"}
                              \/ x.kind = "uninstall" /\ x.then = "remove"
    /\ x.step = "remove" => x.kind = "uninstall"
    /\ x.seen # 0 => Phase(x.seen) # "none"
    /\ x.step \in Stopping /\ x.then = "validate" => x.seen # 0
    /\ GoesOn(c, "validate") => "admin" \in reach

ErrandInv ==
    /\ \A c \in Commands : Errand(c)
    /\ "public" \in reach => "admin" \in reach
    /\ alone \/ good = Versions

\* An edge that is told to end is waited for, and a binary that is to be
\* started is there.
Attended ==
    /\ windows
    /\ \A e \in Edges : Phase(e) # "none" => Verified(e)
    /\ \A e \in Living :
         edge[e].told => \E c \in Commands : cmd[c].step = "stopping" /\ cmd[c].target = e
    /\ \A c \in Commands :
         /\ GoesOn(c, "launch") => cmd[c].want \in staged
         /\ \/ GoesOn(c, "launch") \/ GoesOn(c, "rollback")
            \/ cmd[c].step \in {"choose", "wait"} \/ cmd[c].result = "edge"
            => "admin" \notin reach

AttendedInv == Undisturbed => Attended

-----------------------------------------------------------------------------

\* The number of an edge that was started is not free again.
LEMMA StaysUsed ==
  ASSUME TypeInv, NEW f \in Edges, Phase(f) # "none",
         \/ \E e \in Edges : EdgeStep(e) \/ End(e) \/ Crash(e)
         \/ \E c \in Commands : CommandStep(c)
         \/ UNCHANGED edge
  PROVE  Phase(f)' # "none" /\ edge'[f].binary = edge[f].binary
<1> USE DEF TypeInv
<1>1. ASSUME NEW e \in Edges, EdgeStep(e) \/ End(e) \/ Crash(e)
      PROVE  Phase(f)' # "none" /\ edge'[f].binary = edge[f].binary
  <2>1. /\ \A g \in Edges \ {e} : edge'[g] = edge[g]
        /\ edge'[e].phase # "none" /\ edge'[e].binary = edge[e].binary
    BY <1>1, EdgeMoves
  <2> QED BY <2>1 DEF Phase
<1>2. ASSUME NEW c \in Commands, CommandStep(c)
      PROVE  Phase(f)' # "none" /\ edge'[f].binary = edge[f].binary
  <2>1. CASE UNCHANGED edge
    BY <2>1 DEF Phase
  <2>2. ASSUME NEW v \in staged, NEW companion \in Version, Starts(v, companion)
        PROVE  Phase(f)' # "none" /\ edge'[f].binary = edge[f].binary
    BY <2>2, StartsGives DEF Phase
  <2>3. ASSUME cmd[c].target \in Living, edge' = [edge EXCEPT ![cmd[c].target].told = TRUE]
        PROVE  Phase(f)' # "none" /\ edge'[f].binary = edge[f].binary
    <3>1. cmd[c].target \in Edges
      BY <2>3 DEF Living
    <3> QED BY <2>3, <3>1, SignalGives DEF Phase
  <2> QED BY <1>2, <2>1, <2>2, <2>3, CommandEffects
<1> QED BY <1>1, <1>2 DEF Phase

LEMMA ErrandSame ==
  ASSUME TypeInv, NEW c \in Commands, Errand(c), cmd'[c] = cmd[c], UNCHANGED world,
         \A f \in Edges : Phase(f) # "none" => Phase(f)' # "none"
  PROVE  Errand(c)'
<1>1. cmd[c].seen \in Edges \cup {0}
  BY DEF TypeInv, CmdInv, Invocation, Maybe
<1> QED BY <1>1 DEF Errand, GoesOn, world, Phase

LEMMA ErrandEdge ==
  ASSUME TypeInv, ErrandInv, NEW e \in Edges, EdgeStep(e) \/ End(e) \/ Crash(e)
  PROVE  ErrandInv'
<1>1. cmd' = cmd /\ UNCHANGED world
  BY EdgeMoves
<1>2. \A c \in Commands : Errand(c)'
  BY <1>1, StaysUsed, ErrandSame DEF ErrandInv
<1> QED BY <1>1, <1>2 DEF ErrandInv, world

LEMMA ErrandCommand ==
  ASSUME TypeInv, ErrandInv, NEW c \in Commands, CommandStep(c)
  PROVE  ErrandInv'
<1>0. CmdInv /\ cmd[c] \in Invocation /\ Errand(c)
  BY DEF TypeInv, CmdInv, ErrandInv
<1>1. UNCHANGED world /\ \A d \in Commands \ {c} : cmd'[d] = cmd[d]
  BY CommandMoves
<1>2. \A f \in Edges : Phase(f) # "none" => Phase(f)' # "none"
  BY StaysUsed
<1>3. \A d \in Commands \ {c} : Errand(d)'
  BY <1>1, <1>2, ErrandSame DEF ErrandInv
<1>4. cmd[c].seen # 0 => edge'[cmd[c].seen].phase # "none"
  <2>1. cmd[c].seen \in Edges \cup {0}
    BY <1>0 DEF Invocation, Maybe
  <2> QED BY <1>0, <1>2, <2>1 DEF Errand, Phase
<1> SUFFICES Errand(c)'
  BY <1>1, <1>3 DEF ErrandInv, world
<1>5. ASSUME NEW result, Ends(c, result) PROVE Errand(c)'
  <2>1. cmd'[c] = [NotCalled EXCEPT !.kind = cmd[c].kind, !.calm = cmd[c].calm,
                                    !.step = "over", !.result = result]
    BY <1>0, <1>5 DEF Ends, CmdInv
  <2>2. cmd'[c].seen = 0 /\ cmd'[c].step = "over"
    BY <2>1 DEF NotCalled
  <2> QED BY <2>2 DEF Errand, GoesOn, Stopping
<1>6. Fails(c) => Errand(c)'
  BY <1>5 DEF Fails
<1>7. ASSUME NEW step, To(c, step), step \notin Stopping \cup {"validate", "remove", "over"},
             cmd[c].step # "over"
      PROVE  Errand(c)'
  BY <1>0, <1>1, <1>4, <1>7, ToGives DEF Errand, GoesOn, Phase, world
<1>8. CASE Identify(c) \/ Stage(c) \/ Rollback(c) \/ Restored(c) \/ Launch(c) \/ Restore(c)
             \/ Remove(c) \/ RemoveFails(c) \/ StopTimesOut(c)
  BY <1>5, <1>6, <1>7, <1>8
  DEF Identify, Stage, Rollback, Restored, Launch, Restore, Remove, RemoveFails, StopTimesOut, At,
      Stopping
<1>9. CASE Install(c)
  <2>1. CASE Upgrades(c)
    <3>1. /\ cmd'[c].step = "identify" /\ cmd'[c].result = cmd[c].result
          /\ cmd'[c].seen = cmd[c].seen
      <4>1. cmd'[c] = [cmd[c] EXCEPT !.step = "identify", !.installed = TRUE]
        BY <1>0, <2>1 DEF Upgrades, CmdInv
      <4> QED BY <1>0, <4>1 DEF Invocation
    <3> QED BY <1>0, <1>4, <1>9, <3>1 DEF Errand, GoesOn, Phase, Stopping, Install, At
  <2> QED BY <1>5, <1>9, <2>1 DEF Install, Upgrades
<1>10. CASE Inspect(c)
  <2>1. CASE ~Fails(c)
    <3>1. cmd'[c].step = "probe" /\ cmd'[c].seen = (IF Owned THEN lock.by ELSE 0)
          /\ cmd'[c].result = cmd[c].result
      BY <1>0, <1>10, <2>1, InspectGives
    <3>2. Owned => edge'[lock.by].phase # "none"
      BY <1>2 DEF Owned, Living, Is, Phase
    <3> QED BY <1>0, <1>10, <3>1, <3>2 DEF Errand, GoesOn, Phase, Stopping, Inspect, At
  <2> QED BY <1>6, <2>1
<1>11. CASE Probe(c)
  <2>1. CASE cmd' = Stops(c, "validate") /\ cmd[c].seen # 0 /\ "admin" \in reach
    BY <1>0, <1>1, <1>4, <1>11, <2>1, StopsGives
    DEF Errand, GoesOn, Phase, Stopping, Probe, At, world
  <2>2. CASE To(c, "validate") /\ "admin" \in reach
    BY <1>0, <1>1, <1>4, <1>11, <2>2, ToGives
    DEF Errand, GoesOn, Phase, Stopping, Probe, At, world
  <2> QED BY <1>7, <1>11, <2>1, <2>2 DEF Probe, At, Stopping
<1>12. CASE Validate(c)
  BY <1>5, <1>6, <1>7, <1>12 DEF Validate, At, Stopping
<1>13. CASE Choose(c)
  <2>1. CASE Replaces(c)
    BY <1>0, <1>1, <1>4, <1>13, <2>1, ChooseGives
    DEF Errand, GoesOn, Phase, Stopping, Choose, At, world
  <2> QED BY <1>5, <1>6, <1>13, <2>1 DEF Choose, Replaces
<1>14. CASE Wait(c)
  <2>1. CASE cmd' = Stops(c, "rollback")
    BY <1>0, <1>1, <1>4, <1>14, <2>1, StopsGives
    DEF Errand, GoesOn, Phase, Stopping, Wait, At, world
  <2> QED BY <1>5, <1>14, <2>1 DEF Wait
<1>15. CASE StopReads(c)
  <2>1. CASE Judges(c)
    BY <1>0, <1>1, <1>4, <1>15, <2>1, StopReadsGives
    DEF Errand, GoesOn, Phase, Stopping, StopReads, world
  <2>2. CASE To(c, cmd[c].then)
    BY <1>0, <1>1, <1>4, <1>15, <2>2, ToGives
    DEF Errand, GoesOn, Phase, Stopping, StopReads, world
  <2> QED BY <1>6, <1>15, <2>1, <2>2 DEF StopReads, Judges
<1>16. CASE StopSignals(c) \/ StopWaits(c)
  <2>1. CASE \E step \in {"sweep", "stopping", "clear"} : To(c, step)
    BY <1>0, <1>1, <1>4, <1>16, <2>1, ToGives
    DEF Errand, GoesOn, Phase, Stopping, StopSignals, StopWaits, world
  <2> QED BY <1>6, <1>16, <2>1 DEF StopSignals, StopWaits
<1>17. CASE StopClears(c)
  <2>1. CASE To(c, cmd[c].then)
    BY <1>0, <1>1, <1>4, <1>17, <2>1, ToGives
    DEF Errand, GoesOn, Phase, Stopping, StopClears, world
  <2> QED BY <1>6, <1>17, <2>1 DEF StopClears
<1>18. CASE Interrupt(c)
  <2>1. /\ cmd'[c].step = cmd[c].step /\ cmd'[c].kind = cmd[c].kind
        /\ cmd'[c].seen = cmd[c].seen /\ cmd'[c].then = cmd[c].then
    BY <1>18, InterruptGives
  <2>2. cmd'[c].result = cmd[c].result
    <3>1. cmd'[c] = [cmd[c] EXCEPT !.cancelled = TRUE]
      BY <1>0, <1>18 DEF CmdInv, Interrupt
    <3> QED BY <1>0, <3>1 DEF Invocation
  <2> QED BY <1>0, <1>1, <1>4, <2>1, <2>2 DEF Errand, GoesOn, Phase, world
<1> QED
  BY <1>8, <1>9, <1>10, <1>11, <1>12, <1>13, <1>14, <1>15, <1>16, <1>17, <1>18 DEF CommandStep

LEMMA ErrandCall ==
  ASSUME TypeInv, ErrandInv, NEW c \in Commands, Call(c)
  PROVE  ErrandInv'
<1>0. CmdInv /\ UNCHANGED <<edge, world>>
  BY DEF TypeInv, Call
<1>1. \A d \in Commands \ {c} : Errand(d)'
  BY <1>0, CallGives, ErrandSame DEF ErrandInv, Phase
<1>2. cmd'[c].seen = 0
  <2>1. PICK kind \in Kinds, v \in Versions :
          cmd' = [cmd EXCEPT ![c] =
                   [NotCalled EXCEPT !.kind = kind, !.version = v,
                      !.calm = IF alone /\ Ready THEN faults ELSE MaxFaults + 1,
                      !.step = CASE kind = "run"       -> "identify"
                                 [] kind = "setup"     -> "stage"
                                 [] kind = "uninstall" -> "stop",
                      !.then = IF kind = "uninstall" THEN "remove" ELSE "none"]]
    BY DEF Call
  <2> DEFINE calm == IF alone /\ Ready THEN faults ELSE MaxFaults + 1
             step == CASE kind = "run" -> "identify" [] kind = "setup" -> "stage"
                       [] kind = "uninstall" -> "stop"
             then == IF kind = "uninstall" THEN "remove" ELSE "none"
  <2>2. cmd'[c] = [NotCalled EXCEPT !.kind = kind, !.version = v, !.calm = calm,
                                    !.step = step, !.then = then]
    BY <1>0, <2>1 DEF CmdInv
  <2> HIDE DEF calm, step, then
  <2> QED BY <2>2 DEF NotCalled
<1>3. Errand(c)'
  BY <1>0, <1>2, CallGives DEF Errand, GoesOn, Stopping
<1> QED BY <1>0, <1>1, <1>3 DEF ErrandInv, world

\* Uninstalling does not end with the step of another, nor a fault.
LEMMA UndisturbedBefore ==
  ASSUME TypeInv, ErrandInv, NEW c \in Commands, CommandStep(c), Undisturbed'
  PROVE  /\ Undisturbed /\ faults' = faults
         /\ ~Interrupt(c) /\ ~StopTimesOut(c) /\ ~RemoveFails(c) /\ ~Remove(c)
<1>0. CmdInv /\ cmd[c] \in Invocation /\ Errand(c) /\ faults \in Nat
  BY EdgeAssumption DEF TypeInv, CmdInv, ErrandInv, FaultsInv
<1>1. ~Interrupt(c) /\ ~StopTimesOut(c) /\ ~RemoveFails(c)
  BY <1>0 DEF Undisturbed, Interrupt, StopTimesOut, RemoveFails, Another
<1>2. faults' = faults /\ faults = 0
  BY <1>0, <1>1, CommandMoves DEF Undisturbed
<1>3. ~Removes(c)'
  BY DEF Undisturbed
<1>4. ~Remove(c)
  BY <1>0, <1>3, EndsGives DEF Remove, Removes, At
<1>5. ASSUME Removes(c) PROVE FALSE
  <2>1. cmd[c].step \in {"stopping", "clear"}
    <3>1. cmd[c].step \in Underway
      BY <1>1, CommandMoves
    <3>2. cmd[c].step \in {"stopping", "clear", "remove"}
      BY <1>0, <1>5, <3>1 DEF Removes, Errand, Underway
    <3>3. cmd[c].step # "remove"
      BY <1>1, <1>4
      DEF CommandStep, Identify, Stage, Install, Inspect, Probe, Validate, Choose, Launch, Wait,
          Rollback, Restore, Restored, StopReads, StopSignals, StopWaits, StopClears, At
    <3> QED BY <3>2, <3>3
  <2>2. StopWaits(c) \/ StopClears(c)
    BY <1>1, <1>4, <2>1
    DEF CommandStep, Identify, Stage, Install, Inspect, Probe, Validate, Choose, Launch, Wait,
        Rollback, Restore, Restored, StopReads, StopSignals, At
  <2>3. cmd[c].then = "remove" /\ cmd[c].kind = "uninstall"
    BY <1>0, <1>5, <2>1 DEF Errand, Removes, Stopping
  <2>4. \E step \in {"clear", "remove"} : To(c, step)
    BY <2>1, <2>2, <2>3 DEF StopWaits, StopClears
  <2> QED BY <1>0, <1>3, <2>3, <2>4, ToGives DEF Removes
<1>6. \A d \in Commands \ {c} : ~Removes(d)
  BY CommandMoves DEF Undisturbed, Removes
<1> QED BY <1>1, <1>2, <1>4, <1>5, <1>6 DEF Undisturbed

\* What leads to the router, if no fault has been.
LEMMA ForwardsEdge ==
  ASSUME TypeInv, NEW e \in Edges, EdgeStep(e) \/ End(e)
  PROVE  Forwards \subseteq Forwards'
<1> SUFFICES ASSUME NEW f \in Forwards
             PROVE  f \in Forwards'
  OBVIOUS
<1>1. f \in Edges /\ Phase(f) = "serving" /\ ~edge[f].told /\ edge[f].binary \in good
  BY DEF Forwards, Listening, Is
<1>2. f # e
  BY <1>1
  DEF EdgeStep, Begin, Open, Write, Look, Unlink, Listen, Release, Erase, End, Starting
<1>3. edge'[f] = edge[f] /\ good' = good
  BY <1>1, <1>2, EdgeMoves DEF world
<1> QED BY <1>1, <1>3 DEF Forwards, Listening, Is, Phase

LEMMA AttendedEdge ==
  ASSUME TypeInv, Attended, NEW e \in Edges, EdgeStep(e) \/ End(e)
  PROVE  Attended'
<1>1. /\ \A f \in Edges \ {e} : edge'[f] = edge[f]
      /\ edge'[e].binary = edge[e].binary /\ edge'[e].told = edge[e].told
      /\ e \in Living /\ Living' \subseteq Living
      /\ UNCHANGED <<staged, windows, world, cmd>>
  BY EdgeMoves
<1>2. \A f \in Edges : edge'[f].binary = edge[f].binary /\ edge'[f].told = edge[f].told
  BY <1>1
<1>3. ASSUME NEW f \in Edges, Phase(f)' # "none" PROVE Verified(f)'
  <2>1. Phase(f) # "none"
    BY <1>1, <1>3 DEF Phase, Living, Is
  <2> QED BY <1>1, <1>2, <2>1 DEF Attended, Verified
<1>4. ASSUME NEW f \in Living', edge'[f].told
      PROVE  \E c \in Commands : cmd'[c].step = "stopping" /\ cmd'[c].target = f
  <2>1. f \in Living /\ edge[f].told
    BY <1>1, <1>2, <1>4 DEF Living
  <2> QED BY <1>1, <2>1 DEF Attended
<1> QED BY <1>1, <1>3, <1>4 DEF Attended, GoesOn, world

\* What a command does to edges while nothing is removed.
LEMMA AttendedEdges ==
  ASSUME TypeInv, BasicInv, Attended, NEW c \in Commands, CommandStep(c), ~Remove(c),
         ~Interrupt(c), ~StopTimesOut(c)
  PROVE  /\ staged \subseteq staged'
         /\ \A e \in Edges : Phase(e)' # "none" => Verified(e)'
         /\ \A e \in Living' :
              edge'[e].told => \E d \in Commands : cmd'[d].step = "stopping" /\ cmd'[d].target = e
<1> USE DEF TypeInv
<1>1. staged \subseteq staged'
  BY DEF CommandStep, Identify, Stage, Install, Inspect, Probe, Validate, Choose, Launch, Wait,
         Rollback, Restore, Restored, StopReads, StopSignals, StopWaits, StopClears,
         Interrupt, StopTimesOut, RemoveFails, files
<1>2. \A d \in Commands \ {c} : cmd'[d] = cmd[d]
  BY CommandMoves
<1>3. ASSUME NEW e \in Living, edge[e].told, NEW d \in Commands,
             cmd[d].step = "stopping", cmd[d].target = e
      PROVE  cmd'[d].step = "stopping" /\ cmd'[d].target = e
  <2>1. CASE d # c
    BY <1>2, <1>3, <2>1
  <2>2. CASE d = c
    BY <1>3, <2>2
    DEF CommandStep, Identify, Stage, Install, Inspect, Probe, Validate, Choose, Launch, Wait,
        Rollback, Restore, Restored, StopReads, StopSignals, StopWaits, StopClears, RemoveFails, At
  <2> QED BY <2>1, <2>2
<1>4. CASE UNCHANGED edge
  <2>1. Living' = Living
    BY <1>4, EdgesSame
  <2>2. \A e \in Edges : Phase(e)' # "none" => Verified(e)'
    BY <1>1, <1>4 DEF Attended, Verified, Phase
  <2> QED BY <1>1, <1>3, <1>4, <2>1, <2>2 DEF Attended
<1>5. ASSUME NEW v \in staged, NEW companion \in Version, Starts(v, companion)
      PROVE  /\ \A e \in Edges : Phase(e)' # "none" => Verified(e)'
             /\ \A e \in Living' :
                  edge'[e].told =>
                    \E d \in Commands : cmd'[d].step = "stopping" /\ cmd'[d].target = e
  <2>1. PICK n \in Edges :
          /\ Phase(n) = "none"
          /\ edge'[n].phase = "begun" /\ edge'[n].binary = v
          /\ edge'[n].tries = edge[n].tries /\ edge'[n].told = edge[n].told
          /\ \A f \in Edges \ {n} : edge'[f] = edge[f]
          /\ Living' = Living \cup {n} /\ n \notin Living /\ Listening' = Listening
    BY <1>5, StartsGives
  <2>2. ~edge[n].told
    BY <2>1 DEF BasicInv, Begun
  <2>3. \A e \in Edges : Phase(e)' # "none" => Verified(e)'
    BY <1>1, <2>1 DEF Attended, Verified, Phase
  <2>4. ASSUME NEW e \in Living', edge'[e].told
        PROVE  \E d \in Commands : cmd'[d].step = "stopping" /\ cmd'[d].target = e
    <3>1. e \in Living /\ edge[e].told
      BY <2>1, <2>2, <2>4 DEF Living
    <3> QED BY <1>3, <3>1 DEF Attended
  <2> QED BY <2>3, <2>4
<1>6. ASSUME StopSignals(c), cmd[c].target \in Living, Verified(cmd[c].target),
             edge' = [edge EXCEPT ![cmd[c].target].told = TRUE]
      PROVE  /\ \A e \in Edges : Phase(e)' # "none" => Verified(e)'
             /\ \A e \in Living' :
                  edge'[e].told =>
                    \E d \in Commands : cmd'[d].step = "stopping" /\ cmd'[d].target = e
  <2> DEFINE t == cmd[c].target
  <2>1. t \in Edges
    BY <1>6 DEF Living
  <2>2. /\ \A f \in Edges : /\ edge'[f].phase = edge[f].phase /\ edge'[f].binary = edge[f].binary
                            /\ f # t => edge'[f].told = edge[f].told
        /\ Living' = Living
    BY <1>6, <2>1, SignalGives
  <2> HIDE DEF t
  <2>3. To(c, "stopping")
    BY <1>6 DEF StopSignals
  <2>4. cmd'[c].step = "stopping" /\ cmd'[c].target = t
    BY <2>3, ToGives DEF TypeInv, t
  <2>5. ASSUME NEW e \in Edges, Phase(e)' # "none" PROVE Verified(e)'
    <3>1. edge'[e].phase = edge[e].phase /\ edge'[e].binary = edge[e].binary
      BY <2>2
    <3> QED BY <1>1, <2>5, <3>1 DEF Attended, Verified, Phase
  <2>6. ASSUME NEW e \in Living', edge'[e].told
        PROVE  \E d \in Commands : cmd'[d].step = "stopping" /\ cmd'[d].target = e
    <3>1. CASE e = t
      BY <2>4, <3>1
    <3>2. CASE e # t
      <4>1. e \in Living /\ e \in Edges
        BY <2>2 DEF Living
      <4>2. edge'[e].told = edge[e].told
        BY <2>2, <3>2, <4>1
      <4>3. edge[e].told
        BY <2>6, <4>2
      <4> QED BY <1>3, <4>1, <4>3 DEF Attended
    <3> QED BY <3>1, <3>2
  <2> QED BY <2>5, <2>6
<1> QED BY <1>1, <1>4, <1>5, <1>6, CommandEffects

\* Where the same errand goes on.
LEMMA AttendedSame ==
  ASSUME NEW c \in Commands, cmd'[c] = cmd[c], UNCHANGED world, staged \subseteq staged',
         /\ GoesOn(c, "launch") => cmd[c].want \in staged
         /\ \/ GoesOn(c, "launch") \/ GoesOn(c, "rollback")
            \/ cmd[c].step \in {"choose", "wait"} \/ cmd[c].result = "edge"
            => "admin" \notin reach
  PROVE  /\ GoesOn(c, "launch")' => cmd'[c].want \in staged'
         /\ \/ GoesOn(c, "launch")' \/ GoesOn(c, "rollback")'
            \/ cmd'[c].step \in {"choose", "wait"} \/ cmd'[c].result = "edge"
            => "admin" \notin reach'
BY DEF GoesOn, world

LEMMA AttendedCommand ==
  ASSUME TypeInv, BasicInv, ErrandInv, Attended, NEW c \in Commands, CommandStep(c), ~Remove(c),
         ~Interrupt(c), ~StopTimesOut(c), ~RemoveFails(c), ~cmd[c].cancelled
  PROVE  Attended'
<1>0. CmdInv /\ cmd[c] \in Invocation /\ Errand(c)
  BY DEF TypeInv, CmdInv, ErrandInv
<1>1. UNCHANGED world /\ \A d \in Commands \ {c} : cmd'[d] = cmd[d]
  BY CommandMoves
<1>2. windows' = windows
  BY DEF CommandStep, Identify, Stage, Install, Inspect, Probe, Validate, Choose, Launch, Wait,
         Rollback, Restore, Restored, StopReads, StopSignals, StopWaits, StopClears
<1>3. staged \subseteq staged'
  BY AttendedEdges
<1> DEFINE Heads(d) ==
             /\ GoesOn(d, "launch") => cmd[d].want \in staged
             /\ \/ GoesOn(d, "launch") \/ GoesOn(d, "rollback")
                \/ cmd[d].step \in {"choose", "wait"} \/ cmd[d].result = "edge"
                => "admin" \notin reach
<1>4. \A d \in Commands \ {c} : Heads(d)'
  BY <1>1, <1>3, AttendedSame DEF Attended
<1> SUFFICES Heads(c)'
  BY <1>1, <1>2, <1>4, AttendedEdges DEF Attended
<1>5. Heads(c) /\ windows /\ reach' = reach
  BY <1>1 DEF Attended, world
<1>6. ASSUME NEW result, Ends(c, result), result = "edge" => "admin" \notin reach
      PROVE  Heads(c)'
  BY <1>0, <1>5, <1>6, EndsGives DEF GoesOn, Stopping
<1>7. Fails(c) => Heads(c)'
  BY <1>6 DEF Fails
<1>8. ASSUME NEW step, To(c, step),
             step \notin Stopping \cup {"choose", "wait", "launch", "rollback"}
      PROVE  Heads(c)'
  <2>1. cmd'[c].step = step /\ cmd'[c].result = cmd[c].result
    BY <1>0, <1>8, ToGives
  <2> QED BY <1>5, <1>8, <2>1 DEF GoesOn
<1>9. CASE Identify(c) \/ Stage(c) \/ Rollback(c) \/ Restored(c) \/ Restore(c) \/ Validate(c)
  BY <1>6, <1>7, <1>8, <1>9
  DEF Identify, Stage, Rollback, Restored, Restore, Validate, Stopping
<1>10. CASE Install(c)
  <2>1. CASE Upgrades(c)
    <3>1. cmd'[c].step = "identify" /\ cmd'[c].result = cmd[c].result
      BY <1>0, <2>1, InstallGives
    <3> QED BY <1>5, <3>1 DEF GoesOn, Stopping
  <2> QED BY <1>6, <1>10, <2>1 DEF Install, Upgrades
<1>11. CASE Inspect(c)
  <2>1. CASE ~Fails(c)
    <3>1. cmd'[c].step = "probe" /\ cmd'[c].result = cmd[c].result
      BY <1>0, <1>11, <2>1, InspectGives
    <3> QED BY <1>5, <3>1 DEF GoesOn, Stopping
  <2> QED BY <1>7, <2>1
<1>12. CASE Probe(c)
  <2>1. CASE cmd' = Stops(c, "validate")
    <3>1. /\ cmd'[c].step = "stop" /\ cmd'[c].then = "validate" /\ cmd'[c].result = cmd[c].result
      BY <1>0, <2>1, StopsGives
    <3> QED BY <1>5, <3>1 DEF GoesOn, Stopping
  <2>2. CASE To(c, "choose") /\ "admin" \notin reach
    <3>1. cmd'[c].step = "choose"
      BY <1>0, <2>2, ToGives
    <3> QED BY <1>5, <2>2, <3>1 DEF GoesOn, Stopping
  <2> QED BY <1>5, <1>8, <1>12, <2>1, <2>2 DEF Probe, Stopping
<1>13. CASE Choose(c)
  <2>0. "admin" \notin reach
    BY <1>5, <1>13 DEF Choose, At
  <2>1. CASE Replaces(c) /\ metadata \in staged
    <3>1. /\ cmd'[c].step \in {"stop", "launch"} /\ cmd'[c].then = "launch"
          /\ cmd'[c].want = metadata
      BY <1>0, <2>1, ChooseGives
    <3> QED BY <1>3, <1>5, <2>0, <2>1, <3>1 DEF GoesOn
  <2> QED BY <1>6, <1>7, <1>13, <2>0, <2>1 DEF Choose, Replaces
<1>14. CASE Launch(c) \/ Wait(c)
  <2>0. "admin" \notin reach
    BY <1>5, <1>14 DEF Launch, Wait, At, GoesOn
  <2>1. CASE \E step \in {"wait", "rollback"} : To(c, step)
    <3>1. cmd'[c].step \in {"wait", "rollback"}
      BY <1>0, <2>1, ToGives
    <3> QED BY <1>5, <2>0, <3>1 DEF GoesOn, Stopping
  <2>2. CASE cmd' = Stops(c, "rollback")
    <3>1. cmd'[c].step = "stop" /\ cmd'[c].then = "rollback"
      BY <1>0, <2>2, StopsGives
    <3> QED BY <1>5, <2>0, <3>1 DEF GoesOn
  <2> QED BY <1>6, <1>14, <2>0, <2>1, <2>2 DEF Launch, Wait
<1>15. CASE StopReads(c) \/ StopSignals(c) \/ StopWaits(c) \/ StopClears(c)
  <2>0. cmd[c].step \in Stopping
    BY <1>15 DEF StopReads, StopSignals, StopWaits, StopClears, Stopping
  <2>1. CASE \E step \in Stopping : To(c, step)
    <3>1. /\ cmd'[c].step \in Stopping /\ cmd'[c].then = cmd[c].then /\ cmd'[c].want = cmd[c].want
          /\ cmd'[c].result = cmd[c].result
      BY <1>0, <2>1, ToGives
    <3> QED BY <1>3, <1>5, <2>0, <3>1 DEF GoesOn, Stopping
  <2>2. CASE To(c, cmd[c].then)
    <3>1. /\ cmd'[c].step = cmd[c].then /\ cmd'[c].want = cmd[c].want
          /\ cmd'[c].result = cmd[c].result
      BY <1>0, <2>2, ToGives
    <3> QED BY <1>0, <1>3, <1>5, <2>0, <3>1 DEF GoesOn, Stopping, Errand
  <2>3. CASE Judges(c)
    <3>1. /\ cmd'[c].step = "judge" /\ cmd'[c].then = cmd[c].then /\ cmd'[c].want = cmd[c].want
          /\ cmd'[c].result = cmd[c].result
      BY <1>0, <2>3, StopReadsGives
    <3> QED BY <1>3, <1>5, <2>0, <3>1 DEF GoesOn, Stopping
  <2> QED
    BY <1>7, <1>15, <2>1, <2>2, <2>3
    DEF StopReads, StopSignals, StopWaits, StopClears, Judges, Stopping
<1> QED BY <1>9, <1>10, <1>11, <1>12, <1>13, <1>14, <1>15 DEF CommandStep

LEMMA AttendedCall ==
  ASSUME TypeInv, Attended, NEW c \in Commands, Call(c)
  PROVE  Attended'
<1>0. CmdInv /\ UNCHANGED <<edge, files, windows, world>>
  BY DEF TypeInv, Call
<1>1. /\ cmd[c] = NotCalled /\ \A d \in Commands \ {c} : cmd'[d] = cmd[d]
      /\ cmd'[c].result = "none"
      /\ \/ cmd'[c].step \in {"identify", "stage"}
         \/ cmd'[c].step = "stop" /\ cmd'[c].then = "remove"
  BY <1>0, CallGives
<1>2. ASSUME NEW d \in Commands
      PROVE  /\ GoesOn(d, "launch")' => cmd'[d].want \in staged'
             /\ \/ GoesOn(d, "launch")' \/ GoesOn(d, "rollback")'
                \/ cmd'[d].step \in {"choose", "wait"} \/ cmd'[d].result = "edge"
                => "admin" \notin reach'
  <2>1. CASE d = c
    BY <1>1, <2>1 DEF GoesOn, Stopping
  <2>2. CASE d # c
    BY <1>0, <1>1, <2>2, AttendedSame DEF Attended, files
  <2> QED BY <2>1, <2>2
<1>3. Living' = Living /\ \A e \in Edges : Phase(e)' # "none" => Verified(e)'
  BY <1>0, EdgesSame DEF Attended, Verified, Phase, files
<1>4. \A d \in Commands : cmd[d].step = "stopping" => cmd'[d] = cmd[d]
  BY <1>1 DEF NotCalled
<1> QED BY <1>0, <1>2, <1>3, <1>4 DEF Attended

\* Commands at the same time, none of which removes anything: an edge comes
\* through, ...
Brings(e) ==
    \/ Phase(e) \in {"made", "listen"}
    \/ Phase(e) \in {"begun", "open", "look", "unlink"} /\ edge[e].tries = 0
    \/ Phase(e) = "open" /\ lock = NoLock

\* ... or a command is about to start one.
Carries(c) ==
    \/ cmd[c].step \in {"stopping", "clear", "launch", "restore"}
    \/ cmd[c].step = "validate" /\ cmd[c].seen # 0

Held == Forwards # {} \/ \E c \in Commands : cmd[c].step \in {"stopping", "clear"}

Used == \E e \in Edges : Phase(e) # "none"
Succeeded == \E c \in Commands : cmd[c].result \in {"edge", "direct"}

Crossing ==
    /\ \A c \in Commands : ~GoesOn(c, "rollback")
    /\ \A e \in Edges : lock = Record(e) /\ Phase(e) \in {"release", "erase"} => Held
    /\ Used => Forwards # {} \/ (\E c \in Commands : Carries(c)) \/ (\E e \in Edges : Brings(e))
    /\ Succeeded => Used
    /\ \A c \in Commands : cmd[c].step \in {"wait", "restored"} => Used

CrossedInv == Undisturbed /\ ~alone /\ "public" \notin reach => Crossing

-----------------------------------------------------------------------------

LEMMA ServingHeld ==
  ASSUME BasicInv, Attended, good = Versions, Listening # {}
  PROVE  Held
<1>1. PICK e \in Listening : TRUE
  OBVIOUS
<1>2. e \in Edges /\ e \in Living /\ Phase(e) = "serving"
  BY DEF Listening, Living, Is
<1>3. CASE edge[e].told
  BY <1>2, <1>3 DEF Attended, Held
<1>4. CASE ~edge[e].told
  <2>1. edge[e].binary \in good
    BY <1>2 DEF BasicInv, Begun
  <2> QED BY <1>4, <2>1 DEF Held, Forwards
<1> QED BY <1>3, <1>4

LEMMA HeldEdge ==
  ASSUME TypeInv, Held, NEW e \in Edges, EdgeStep(e) \/ End(e)
  PROVE  Held'
<1>1. cmd' = cmd
  BY EdgeMoves
<1> QED BY <1>1, ForwardsEdge DEF Held

LEMMA HeldCarries ==
  ASSUME Held
  PROVE  Forwards # {} \/ \E c \in Commands : Carries(c)
BY DEF Held, Carries

\* Who is on the way and sees another in its way leaves it to that one.
LEMMA BringsEdge ==
  ASSUME TypeInv, BasicInv, Attended, Crossing, good = Versions,
         NEW e \in Edges, EdgeStep(e) \/ End(e), Brings(e)
  PROVE  Held \/ Brings(e)' \/ (\E f \in Edges \ {e} : Brings(f)) \/ Forwards' # {}
<1>1. edge \in [Edges -> Process] /\ edge[e] \in Process /\ Begun(e)
  BY DEF TypeInv, EdgeInv, BasicInv
<1>2. CASE Begin(e)
  <2>1. Verified(e)
    BY <1>2 DEF Begin, Attended
  <2>2. edge'[e].phase = "open" /\ edge'[e].tries = 0
    BY <1>1, <1>2, <2>1 DEF Begin, Goes, Process, Begun
  <2> QED BY <2>2 DEF Brings, Phase
<1>3. CASE Open(e)
  <2>1. CASE lock = NoLock
    BY <1>1, <1>3, <2>1 DEF Open, Goes, Process, Brings, Phase
  <2>2. CASE lock # NoLock
    <3>1. edge[e].tries = 0
      BY <1>3, <2>2 DEF Brings, Open
    <3> QED BY <1>1, <1>3, <2>2, <3>1 DEF Open, Goes, Process, Brings, Phase
  <2> QED BY <2>1, <2>2
<1>4. CASE Write(e)
  BY <1>1, <1>4 DEF Write, Goes, Process, Brings, Phase
<1>5. CASE Look(e)
  <2>0. edge[e].tries = 0 /\ lock.by # e
    BY <1>1, <1>5 DEF Brings, Look, Begun
  <2>1. CASE ~Owned
    BY <1>1, <1>5, <2>0, <2>1 DEF Look, Goes, Process, Brings, Phase
  <2>2. CASE Owned
    <3> DEFINE g == lock.by
    <3>1. g \in Living /\ g \in Edges \ {e} /\ lock.written
      BY <2>0, <2>2 DEF Owned, Living
    <3>2. Begun(g)
      BY <3>1 DEF BasicInv
    <3>3. Phase(g) \notin {"begun", "open", "look", "unlink"}
      BY <3>2 DEF Begun
    <3>4. CASE Phase(g) \in {"made", "listen"}
      BY <3>1, <3>4 DEF Brings
    <3>5. CASE Phase(g) = "serving"
      BY <3>1, <3>5, ServingHeld DEF Listening, Is
    <3>6. CASE Phase(g) \in {"release", "erase"}
      <4>1. lock = Record(g)
        BY <3>1 DEF Record, TypeInv, FilesInv
      <4> QED BY <3>1, <3>6, <4>1 DEF Crossing
    <3> QED BY <3>1, <3>3, <3>4, <3>5, <3>6, LivingPhases DEF Starting
  <2> QED BY <2>1, <2>2
<1>6. CASE Unlink(e)
  <2>0. edge[e].tries = 0
    BY <1>6 DEF Brings, Unlink
  <2>1. edge'[e] = [edge[e] EXCEPT !.tries = @ + 1,
                                   !.phase = IF edge[e].tries = 0 THEN "open" ELSE "gone"]
    BY <1>1, <1>6 DEF Unlink
  <2>2. edge'[e].phase = "open" /\ lock' = NoLock
    BY <1>1, <1>6, <2>0, <2>1 DEF Unlink, Process
  <2> QED BY <2>2, LockNumbers DEF Brings, Phase, NoLock
<1>7. CASE Listen(e)
  <2>1. CASE Listening # {}
    BY <2>1, ServingHeld
  <2>2. CASE Listening = {}
    <3>1. edge'[e].phase = "serving" /\ edge'[e].binary = edge[e].binary
          /\ edge'[e].told = edge[e].told /\ good' = good
      BY <1>1, <1>7, <2>2 DEF Listen, Goes, Process, world
    <3>2. CASE edge[e].told
      <4>1. e \in Living
        BY <1>7 DEF Listen, Living, Is
      <4> QED BY <3>2, <4>1 DEF Attended, Held
    <3>3. CASE ~edge[e].told
      <4>1. edge[e].binary \in good
        BY <1>1, <1>7 DEF Begun, Listen
      <4>2. e \in Forwards'
        BY <3>1, <3>3, <4>1 DEF Forwards, Listening, Is, Phase
      <4> QED BY <4>2
    <3> QED BY <3>2, <3>3
  <2> QED BY <2>1, <2>2
<1>8. CASE Release(e) \/ Erase(e) \/ End(e)
  BY <1>8 DEF Release, Erase, End, Brings
<1> QED BY <1>2, <1>3, <1>4, <1>5, <1>6, <1>7, <1>8 DEF EdgeStep

LEMMA BringsOther ==
  ASSUME TypeInv, BasicInv, NEW e \in Edges, EdgeStep(e) \/ End(e), NEW f \in Edges \ {e}, Brings(f)
  PROVE  Brings(f)' \/ Brings(e)'
<1>1. edge'[f] = edge[f]
  BY EdgeMoves
<1>2. CASE Phase(f) = "open" /\ lock = NoLock
  <2>1. lock' = NoLock \/ edge'[e].phase = "made"
    BY <1>2, EdgeLocks, LockNumbers
  <2> QED BY <1>1, <1>2, <2>1 DEF Brings, Phase, NoLock
<1> QED BY <1>1, <1>2 DEF Brings, Phase

LEMMA CrossingEdge ==
  ASSUME TypeInv, BasicInv, Attended, Crossing, good = Versions,
         NEW e \in Edges, EdgeStep(e) \/ End(e)
  PROVE  Crossing'
<1>1. /\ cmd' = cmd /\ e \in Living
      /\ \A f \in Edges \ {e} : edge'[f] = edge[f]
      /\ edge'[e].phase # "none"
  BY EdgeMoves
<1>2. Used /\ Used'
  BY <1>1 DEF Used, Phase, Living, Is
<1>3. \A c \in Commands : ~GoesOn(c, "rollback")'
  BY <1>1 DEF Crossing, GoesOn
<1>4. ASSUME NEW f \in Edges, lock' = Record(f), edge'[f].phase \in {"release", "erase"}
      PROVE  Held'
  <2>1. CASE f # e
    <3>1. lock' = lock
      <4>1. lock' # NoLock /\ lock' # [by |-> e, written |-> FALSE] /\ lock' # Record(e)
        BY <1>4, <2>1, LockNumbers DEF Record
      <4> QED BY <4>1, EdgeLocks
    <3>2. Held
      BY <1>1, <1>4, <2>1, <3>1 DEF Crossing, Phase
    <3> QED BY <3>2, HeldEdge
  <2>2. CASE f = e
    <3>1. edge \in [Edges -> Process] /\ edge[e] \in Process
      BY DEF TypeInv, EdgeInv
    <3>2. CASE Listen(e)
      <4>1. Listening # {}
        BY <1>4, <2>2, <3>1, <3>2 DEF Listen, Goes, Process
      <4> QED BY <4>1, ServingHeld, HeldEdge
    <3>3. CASE End(e)
      <4>1. Held
        BY <1>1, <3>3 DEF End, Attended, Held
      <4> QED BY <4>1, HeldEdge
    <3>4. CASE Release(e) \/ Erase(e)
      <4>1. lock' = lock \/ lock' = NoLock
        BY <3>4 DEF Release, Erase, files
      <4>2. lock = Record(e) /\ Phase(e) \in {"release", "erase"}
        BY <1>4, <2>2, <3>4, <4>1, LockNumbers DEF Release, Erase
      <4> QED BY <4>2, HeldEdge DEF Crossing
    <3>5. CASE Begin(e) \/ Open(e) \/ Write(e) \/ Look(e) \/ Unlink(e)
      BY <1>4, <2>2, <3>1, <3>5 DEF Begin, Open, Write, Look, Unlink, Goes, Process
    <3> QED BY <3>2, <3>3, <3>4, <3>5 DEF EdgeStep
  <2> QED BY <2>1, <2>2
<1>5. Forwards' # {} \/ (\E c \in Commands : Carries(c)') \/ (\E f \in Edges : Brings(f)')
  <2>1. CASE Forwards # {}
    BY <2>1, ForwardsEdge
  <2>2. CASE \E c \in Commands : Carries(c)
    BY <1>1, <2>2 DEF Carries
  <2>3. ASSUME NEW f \in Edges, Brings(f)
        PROVE  Held \/ Forwards' # {} \/ (\E g \in Edges : Brings(g)')
    <3>1. CASE f = e
      BY <2>3, <3>1, BringsEdge, BringsOther
    <3>2. CASE f # e
      BY <2>3, <3>2, BringsOther
    <3> QED BY <3>1, <3>2
  <2>4. CASE Held
    BY <1>1, <2>4, HeldEdge, HeldCarries DEF Held, Carries
  <2> QED BY <1>2, <2>1, <2>2, <2>3, <2>4 DEF Crossing
<1> QED BY <1>1, <1>2, <1>3, <1>4, <1>5 DEF Crossing, Phase

\* Without the ports of Windows, nothing leads to the router but an edge.
LEMMA ReachableForwards ==
  ASSUME Reachable, "public" \notin reach
  PROVE  Forwards # {}
BY DEF Reachable

LEMMA ForwardsUsed ==
  ASSUME Forwards # {}
  PROVE  Used
BY DEF Forwards, Listening, Is, Used

\* Nobody who waits for an edge gives up.
LEMMA NoneGivesUp ==
  ASSUME ErrandInv, Attended, Undisturbed, Crossing, NEW c \in Commands, cmd[c].step = "wait",
         ~cmd[c].cancelled, CmdInv
  PROVE  ~GivesUp(c)
<1>1. Used /\ "admin" \notin reach
  BY DEF Crossing, Attended
<1>2. CASE Forwards # {}
  <2>1. Reachable
    BY <1>2 DEF Reachable, Attended, Forwards
  <2> QED BY <2>1 DEF GivesUp
<1>3. ASSUME NEW d \in Commands, Carries(d)
      PROVE  ~GivesUp(c)
  <2>1. cmd[d].step # "validate"
    BY <1>1 DEF ErrandInv, Errand, GoesOn
  <2>2. cmd[d].step \in {"stopping", "clear"} => cmd[d].kind = "run"
    BY DEF ErrandInv, Errand, Undisturbed, Removes, Stopping
  <2>3. d \in Replacing
    BY <1>3, <2>1, <2>2 DEF Carries, Replacing
  <2> QED BY <2>3 DEF GivesUp
<1>4. ASSUME NEW e \in Edges, Brings(e)
      PROVE  ~GivesUp(c)
  <2>1. e \in Is(Starting)
    BY <1>4 DEF Brings, Is, Starting
  <2> QED BY <2>1 DEF GivesUp
<1> QED BY <1>1, <1>2, <1>3, <1>4 DEF Crossing

\* What a command that does not fail leaves for others to come through.
LEMMA CarriesCommand ==
  ASSUME TypeInv, BasicInv, ErrandInv, Attended, Crossing, "public" \notin reach,
         NEW c \in Commands, CommandStep(c), ~Interrupt(c), ~StopTimesOut(c), ~cmd[c].cancelled,
         Carries(c)
  PROVE  \/ Carries(c)' \/ Removes(c)' \/ Forwards # {}
         \/ \E v \in staged, companion \in Version : Starts(v, companion)
<1>0. CmdInv /\ cmd[c] \in Invocation /\ Errand(c) /\ Knows(cmd[c])
  BY DEF TypeInv, CmdInv, ErrandInv
<1>1. CASE cmd[c].step = "stopping"
  <2>1. StopWaits(c)
    BY <1>1
    DEF CommandStep, Identify, Stage, Install, Inspect, Probe, Validate, Choose, Launch, Wait,
        Rollback, Restore, Restored, StopReads, StopSignals, StopClears, Remove, RemoveFails, At
  <2>2. cmd'[c].step = "clear"
    BY <1>0, <2>1, ToGives DEF StopWaits
  <2> QED BY <2>2 DEF Carries
<1>2. CASE cmd[c].step = "clear"
  <2>1. StopClears(c)
    BY <1>2
    DEF CommandStep, Identify, Stage, Install, Inspect, Probe, Validate, Choose, Launch, Wait,
        Rollback, Restore, Restored, StopReads, StopSignals, StopWaits, Remove, RemoveFails, At
  <2>2. /\ cmd'[c].step = cmd[c].then /\ cmd'[c].seen = cmd[c].seen /\ cmd'[c].kind = cmd[c].kind
    BY <1>0, <1>2, <2>1, ToGives DEF StopClears
  <2>3. cmd[c].then # "rollback"
    BY <1>2 DEF Crossing, GoesOn, Stopping
  <2> QED BY <1>0, <1>2, <2>2, <2>3 DEF Carries, Removes, Errand, Stopping
<1>3. CASE cmd[c].step = "launch"
  <2>1. Launch(c)
    BY <1>3
    DEF CommandStep, Identify, Stage, Install, Inspect, Probe, Validate, Choose, Wait, Rollback,
        Restore, Restored, StopReads, StopSignals, StopWaits, StopClears, Remove, RemoveFails, At
  <2>2. cmd[c].want \in staged
    BY <1>3 DEF Attended, GoesOn
  <2>3. cmd[c].version \in Version
    BY <1>0 DEF Invocation
  <2> QED BY <2>1, <2>2, <2>3 DEF Launch, CanStart
<1>4. CASE cmd[c].step = "restore"
  <2>1. Restore(c)
    BY <1>4
    DEF CommandStep, Identify, Stage, Install, Inspect, Probe, Validate, Choose, Launch, Wait,
        Rollback, Restored, StopReads, StopSignals, StopWaits, StopClears, Remove, RemoveFails, At
  <2>2. cmd[c].seen \in Edges /\ Phase(cmd[c].seen) # "none"
    BY <1>0, <1>4 DEF Errand, Knows, Invocation, Maybe
  <2>3. edge[cmd[c].seen].binary \in staged /\ edge[cmd[c].seen].companion \in Version
    BY <2>2 DEF Attended, Verified, TypeInv, EdgeInv, Process
  <2> QED BY <2>1, <2>3 DEF Restore, CanStart
<1>5. CASE cmd[c].step = "validate" /\ cmd[c].seen # 0
  <2>1. Validate(c)
    BY <1>5
    DEF CommandStep, Identify, Stage, Install, Inspect, Probe, Choose, Launch, Wait, Rollback,
        Restore, Restored, StopReads, StopSignals, StopWaits, StopClears, Remove, RemoveFails, At
  <2>2. CASE Finds(c)
    BY <2>2, ReachableForwards DEF Finds
  <2>3. CASE To(c, "restore")
    BY <1>0, <2>3, ToGives DEF Carries
  <2> QED BY <1>5, <2>1, <2>2, <2>3 DEF Validate
<1> QED BY <1>1, <1>2, <1>3, <1>4, <1>5 DEF Carries

\* No step rolls back, and who waits for an edge has started it.
LEMMA CrossingErrand ==
  ASSUME TypeInv, ErrandInv, Attended, Undisturbed, Crossing, "public" \notin reach,
         NEW c \in Commands, CommandStep(c), ~Interrupt(c), ~StopTimesOut(c), ~cmd[c].cancelled
  PROVE  /\ ~GoesOn(c, "rollback")'
         /\ cmd'[c].step \in {"wait", "restored"} \/ cmd'[c].result \in {"edge", "direct"} =>
              \/ Used \/ \E v \in staged, companion \in Version : Starts(v, companion)
<1>0. CmdInv /\ cmd[c] \in Invocation /\ Errand(c) /\ Knows(cmd[c])
  BY DEF TypeInv, CmdInv, ErrandInv
<1>1. ~GoesOn(c, "rollback") /\ (cmd[c].result \in {"edge", "direct"} => Used)
  BY DEF Crossing, Succeeded
<1> DEFINE Fine ==
      /\ ~GoesOn(c, "rollback")'
      /\ cmd'[c].step \in {"wait", "restored"} \/ cmd'[c].result \in {"edge", "direct"} =>
           \/ Used \/ \E v \in staged, companion \in Version : Starts(v, companion)
<1> SUFFICES Fine
  OBVIOUS
<1>2. ASSUME NEW result, Ends(c, result), result \in {"edge", "direct"} => Used
      PROVE  Fine
  BY <1>0, <1>2, EndsGives DEF GoesOn, Stopping
<1>3. Fails(c) => Fine
  BY <1>2 DEF Fails
<1>4. ASSUME NEW step, To(c, step), step \notin Stopping \cup {"rollback"},
             step \in {"wait", "restored"} =>
               Used \/ \E v \in staged, companion \in Version : Starts(v, companion)
      PROVE  Fine
  BY <1>0, <1>1, <1>4, ToGives DEF GoesOn
<1>5. Finds(c) => Used
  BY ReachableForwards, ForwardsUsed DEF Finds
<1>6. CASE Identify(c) \/ Stage(c) \/ Rollback(c) \/ Restored(c) \/ Validate(c) \/ Remove(c)
             \/ RemoveFails(c)
  BY <1>2, <1>3, <1>4, <1>5, <1>6
  DEF Identify, Stage, Rollback, Restored, Validate, Remove, RemoveFails, Stopping
<1>7. CASE Install(c)
  <2>1. CASE Upgrades(c)
    <3>1. cmd'[c].step = "identify" /\ cmd'[c].result = cmd[c].result
      BY <1>0, <2>1, InstallGives
    <3> QED BY <1>1, <3>1 DEF GoesOn, Stopping
  <2> QED BY <1>2, <1>7, <2>1 DEF Install, Upgrades
<1>8. CASE Inspect(c)
  <2>1. CASE ~Fails(c)
    <3>1. cmd'[c].step = "probe" /\ cmd'[c].result = cmd[c].result
      BY <1>0, <1>8, <2>1, InspectGives
    <3> QED BY <1>1, <3>1 DEF GoesOn, Stopping
  <2> QED BY <1>3, <2>1
<1>9. CASE Probe(c)
  <2>1. CASE cmd' = Stops(c, "validate")
    <3>1. cmd'[c].step = "stop" /\ cmd'[c].then = "validate" /\ cmd'[c].result = cmd[c].result
      BY <1>0, <2>1, StopsGives
    <3> QED BY <1>1, <3>1 DEF GoesOn
  <2> QED BY <1>4, <1>9, <2>1 DEF Probe, Stopping
<1>10. CASE Choose(c)
  <2>1. CASE Replaces(c)
    <3>1. /\ cmd'[c].step \in {"stop", "launch"} /\ cmd'[c].then = "launch"
          /\ cmd'[c].result = cmd[c].result
      BY <1>0, <2>1, ChooseGives
    <3> QED BY <1>1, <3>1 DEF GoesOn
  <2> QED BY <1>2, <1>3, <1>5, <1>10, <2>1 DEF Choose, Replaces
<1>11. CASE Launch(c)
  <2>1. cmd[c].want \in staged /\ cmd[c].version \in Version
    BY <1>0, <1>11 DEF Attended, GoesOn, Launch, At, Invocation
  <2> QED BY <1>4, <1>11, <2>1 DEF Launch, CanStart, Stopping
<1>12. CASE Wait(c)
  <2>1. ~GivesUp(c)
    BY <1>0, <1>12, NoneGivesUp DEF Wait, At
  <2> QED BY <1>2, <1>5, <1>12, <2>1 DEF Wait
<1>13. CASE Restore(c)
  <2>1. cmd[c].seen \in Edges /\ Phase(cmd[c].seen) # "none"
    BY <1>0, <1>13 DEF Errand, Knows, Invocation, Maybe, Restore, At
  <2>2. Used
    BY <2>1 DEF Used
  <2> QED BY <1>3, <1>4, <1>13, <2>2 DEF Restore, Stopping
<1>14. CASE StopReads(c) \/ StopSignals(c) \/ StopWaits(c) \/ StopClears(c)
  <2>0. cmd[c].step \in Stopping /\ cmd[c].then # "rollback"
    BY <1>1, <1>14 DEF StopReads, StopSignals, StopWaits, StopClears, Stopping, GoesOn
  <2>1. CASE \E step \in Stopping : To(c, step)
    <3>1. cmd'[c].step \in Stopping /\ cmd'[c].then = cmd[c].then /\ cmd'[c].result = cmd[c].result
      BY <1>0, <2>1, ToGives
    <3> QED BY <1>1, <2>0, <3>1 DEF GoesOn, Stopping
  <2>2. CASE To(c, cmd[c].then)
    <3>1. /\ cmd'[c].step = cmd[c].then /\ cmd'[c].result = cmd[c].result
          /\ cmd[c].then \in {"validate", "launch", "remove"}
      BY <1>0, <2>0, <2>2, ToGives DEF Errand
    <3> QED BY <1>1, <2>0, <3>1 DEF GoesOn, Stopping
  <2>3. CASE Judges(c)
    <3>1. cmd'[c].step = "judge" /\ cmd'[c].then = cmd[c].then /\ cmd'[c].result = cmd[c].result
      BY <1>0, <2>3, StopReadsGives
    <3> QED BY <1>1, <2>0, <3>1 DEF GoesOn, Stopping
  <2> QED
    BY <1>3, <1>14, <2>1, <2>2, <2>3
    DEF StopReads, StopSignals, StopWaits, StopClears, Judges, Stopping
<1> QED BY <1>6, <1>7, <1>8, <1>9, <1>10, <1>11, <1>12, <1>13, <1>14 DEF CommandStep

LEMMA CrossingCommand ==
  ASSUME TypeInv, BasicInv, ErrandInv, Attended, Undisturbed, Undisturbed', Crossing,
         "public" \notin reach, NEW c \in Commands, CommandStep(c)
  PROVE  Crossing'
<1>0. /\ CmdInv /\ cmd[c] \in Invocation
      /\ ~Interrupt(c) /\ ~StopTimesOut(c) /\ ~Remove(c) /\ ~cmd[c].cancelled
      /\ ~Removes(c)'
  <2>1. ~cmd[c].cancelled
    BY DEF BasicInv, Counted, Undisturbed
  <2> QED BY <2>1, UndisturbedBefore DEF TypeInv, CmdInv, Undisturbed
<1>1. UNCHANGED world /\ \A d \in Commands \ {c} : cmd'[d] = cmd[d]
  BY CommandMoves
<1>2. lock' = lock \/ (lock' = NoLock /\ StopClears(c))
  BY <1>0, CommandEffects
<1>3. Used => Used'
  BY StaysUsed DEF Used
<1>4. ASSUME NEW v \in staged, NEW companion \in Version, Starts(v, companion)
      PROVE  \E e \in Edges : Brings(e)' /\ Used'
  <2>1. PICK e \in Edges :
           /\ Phase(e) = "none"
           /\ edge'[e].phase = "begun" /\ edge'[e].tries = edge[e].tries
    BY <1>4, StartsGives DEF TypeInv
  <2>2. edge[e].tries = 0
    BY <2>1 DEF BasicInv, Begun
  <2> QED BY <2>1, <2>2 DEF Brings, Used, Phase
<1>5. ASSUME NEW d \in Commands
      PROVE  /\ ~GoesOn(d, "rollback")'
             /\ cmd'[d].step \in {"wait", "restored"} \/ cmd'[d].result \in {"edge", "direct"}
                  => Used'
  <2>1. CASE d = c
    BY <1>0, <1>3, <1>4, <2>1, CrossingErrand
  <2>2. CASE d # c
    BY <1>1, <1>3, <2>2 DEF Crossing, GoesOn, Succeeded
  <2> QED BY <2>1, <2>2
\* What leads to the router does so until somebody waits for its end.
<1>6. ASSUME Forwards # {}
      PROVE  Forwards' # {} \/ cmd'[c].step = "stopping"
  <2>1. CASE UNCHANGED edge
    <3>1. Forwards' = Forwards
      BY <1>1, <2>1, EdgesSame DEF Forwards, world
    <3> QED BY <1>6, <3>1
  <2>2. ASSUME NEW v \in staged, NEW companion \in Version, Starts(v, companion)
        PROVE  Forwards' # {}
    <3>1. PICK n \in Edges :
           /\ Phase(n) = "none" /\ Listening' = Listening
           /\ \A f \in Edges \ {n} : edge'[f] = edge[f]
      BY <2>2, StartsGives DEF TypeInv
    <3>2. PICK f \in Forwards : TRUE
      BY <1>6
    <3>3. f \in Edges \ {n}
      BY <3>1 DEF Forwards, Listening, Is
    <3>4. f \in Forwards'
      BY <1>1, <3>1, <3>3 DEF Forwards, world
    <3> QED BY <3>4
  <2>3. StopSignals(c) /\ cmd[c].target \in Living /\ Verified(cmd[c].target)
          => cmd'[c].step = "stopping"
    BY <1>0, ToGives DEF StopSignals
  <2> QED BY <2>1, <2>2, <2>3, CommandEffects
<1>7. ASSUME NEW e \in Edges, lock' = Record(e), edge'[e].phase \in {"release", "erase"}
      PROVE  Held'
  <2>1. lock' = lock /\ ~StopClears(c)
    BY <1>2, <1>7, LockNumbers DEF StopClears
  <2>2. Phase(e) \in {"release", "erase"}
    <3>1. CASE UNCHANGED edge
      BY <1>7, <3>1 DEF Phase
    <3>2. ASSUME NEW v \in staged, NEW companion \in Version, Starts(v, companion)
          PROVE  Phase(e) \in {"release", "erase"}
      <4>1. PICK n \in Edges :
             /\ edge'[n].phase = "begun"
             /\ \A f \in Edges \ {n} : edge'[f] = edge[f]
        BY <3>2, StartsGives DEF TypeInv
      <4> QED BY <1>7, <4>1 DEF Phase
    <3>3. ASSUME cmd[c].target \in Living, edge' = [edge EXCEPT ![cmd[c].target].told = TRUE]
          PROVE  Phase(e) \in {"release", "erase"}
      <4>1. cmd[c].target \in Edges
        BY <3>3 DEF Living
      <4> QED BY <1>7, <3>3, <4>1, SignalGives DEF TypeInv, Phase
    <3> QED BY <3>1, <3>2, <3>3, CommandEffects
  <2>3. Held
    BY <1>7, <2>1, <2>2 DEF Crossing
  <2>4. CASE Forwards # {}
    BY <1>6, <2>4 DEF Held
  <2>5. ASSUME NEW d \in Commands, cmd[d].step \in {"stopping", "clear"}
        PROVE  cmd'[d].step \in {"stopping", "clear"}
    <3>1. CASE d # c
      BY <1>1, <2>5, <3>1
    <3>2. CASE d = c
      <4>1. StopWaits(c) \/ StopClears(c)
        BY <1>0, <2>5, <3>2
        DEF CommandStep, Identify, Stage, Install, Inspect, Probe, Validate, Choose, Launch, Wait,
            Rollback, Restore, Restored, StopReads, StopSignals, RemoveFails, At
      <4> QED BY <1>0, <2>1, <3>2, <4>1, ToGives DEF StopWaits
    <3> QED BY <3>1, <3>2
  <2> QED BY <2>3, <2>4, <2>5 DEF Held
<1>8. ASSUME Used'
      PROVE  Forwards' # {} \/ (\E d \in Commands : Carries(d)') \/ (\E e \in Edges : Brings(e)')
  <2>1. CASE \E v \in staged, companion \in Version : Starts(v, companion)
    BY <1>4, <2>1
  <2>2. CASE cmd'[c].step = "stopping"
    BY <2>2 DEF Carries
  <2>3. CASE UNCHANGED edge
    <3>1. Used
      BY <1>8, <2>3 DEF Used, Phase
    <3>2. CASE Forwards # {}
      BY <1>6, <2>2, <3>2
    <3>3. ASSUME NEW d \in Commands, Carries(d)
          PROVE  \/ Carries(d)' \/ Forwards # {}
                 \/ \E v \in staged, companion \in Version : Starts(v, companion)
      <4>1. CASE d # c
        BY <1>1, <3>3, <4>1 DEF Carries
      <4>2. CASE d = c
        BY <1>0, <3>3, <4>2, CarriesCommand
      <4> QED BY <4>1, <4>2
    <3>4. ASSUME NEW e \in Edges, Brings(e)
          PROVE  Brings(e)'
      BY <1>2, <2>3, <3>4 DEF Brings, Phase, NoLock
    <3> QED BY <2>1, <3>1, <3>2, <3>3, <3>4 DEF Crossing
  <2>4. StopSignals(c) /\ cmd[c].target \in Living /\ Verified(cmd[c].target)
          => cmd'[c].step = "stopping"
    BY <1>0, ToGives DEF StopSignals
  <2> QED BY <2>1, <2>2, <2>3, <2>4, CommandEffects
<1> QED BY <1>5, <1>7, <1>8 DEF Crossing, Succeeded, Phase

\* What a call leaves as it is.
LEMMA CrossingCall ==
  ASSUME TypeInv, Crossing, NEW c \in Commands, Call(c)
  PROVE  Crossing'
<1>0. CmdInv /\ UNCHANGED <<edge, files, windows, world>>
  BY DEF TypeInv, Call
<1>1. /\ cmd[c] = NotCalled /\ \A d \in Commands \ {c} : cmd'[d] = cmd[d]
      /\ cmd'[c].result = "none"
      /\ \/ cmd'[c].step \in {"identify", "stage"}
         \/ cmd'[c].step = "stop" /\ cmd'[c].then = "remove"
  BY <1>0, CallGives
<1>2. ASSUME NEW d \in Commands
      PROVE  /\ ~GoesOn(d, "rollback")'
             /\ cmd'[d].step \in {"wait", "restored"} \/ cmd'[d].result \in {"edge", "direct"}
                  => Used
             /\ cmd[d].step \in {"stopping", "clear"} => cmd'[d] = cmd[d]
             /\ Carries(d) => Carries(d)'
  <2>1. CASE d = c
    BY <1>1, <2>1 DEF GoesOn, Carries, NotCalled, Stopping
  <2>2. CASE d # c
    BY <1>1, <2>2 DEF Crossing, GoesOn, Succeeded, Carries
  <2> QED BY <2>1, <2>2
<1>3. /\ Forwards' = Forwards /\ (Used' <=> Used)
      /\ \A e \in Edges : (Brings(e)' <=> Brings(e)) /\ Phase(e)' = Phase(e)
  BY <1>0, EdgesSame DEF Forwards, Used, Brings, Phase, world, files, NoLock
<1>4. Held => Held'
  BY <1>2, <1>3 DEF Held
<1> QED BY <1>0, <1>2, <1>3, <1>4 DEF Crossing, Succeeded, files, Record

-----------------------------------------------------------------------------

\* Commands one after the other: the edge that leads to the router stays until
\* one is started for it that does so too.  What a run does on the way:
Lasting(c) ==
  LET x == cmd[c]
  IN
    /\ \/ x.step \in {"identify", "stage", "install", "inspect", "probe", "choose"}
       \/ x.step \in {"stop", "judge"} /\ x.then # "rollback"
       => Forwards # {}
    /\ \/ x.step \in {"probe", "choose", "validate", "launch", "wait", "rollback", "restore"}
       \/ x.step \in Stopping /\ x.kind = "run"
       => x.seen # 0 /\ edge[x.seen].binary \in good
    /\ x.step = "restored" => ComesUp /\ \A e \in Living : edge[e].binary \in good

Turn(c) ==
    /\ cmd[c].step = "judge" => cmd[c].target \in Listening
    /\ cmd[c].step # "sweep"
    /\ cmd[c].step \in {"restore", "restored"} => "public" \notin reach
    /\ Succeeded => IF "public" \in reach THEN Living = {} ELSE Lasting(c)

Between == Succeeded => IF "public" \in reach THEN Living = {} ELSE Forwards # {}

EndsTold == \A e \in Edges : Phase(e) \in {"release", "erase"} => edge[e].told

InTurns ==
    /\ EndsTold
    /\ \A c \in Commands : cmd[c].step \in Underway => Turn(c)
    /\ (\A c \in Commands : cmd[c].step \notin Underway) => Between

AloneInv == Undisturbed /\ alone => InTurns

\* What holds meanwhile, by what is proved before.
Orderly ==
    /\ alone /\ faults = 0 /\ Undisturbed /\ TypeInv /\ BasicInv /\ OneEdge
    /\ ErrandInv /\ Attended /\ EndsTold

-----------------------------------------------------------------------------

LEMMA TurnEnds ==
  ASSUME \A c \in Commands : cmd[c].step \notin Underway, InTurns
  PROVE  Between
BY DEF InTurns

LEMMA SucceededBy ==
  ASSUME NEW c \in Commands, \A d \in Commands \ {c} : cmd'[d] = cmd[d],
         cmd'[c].result \in {"edge", "direct"} => cmd[c].result \in {"edge", "direct"}
  PROVE  Succeeded' => Succeeded
BY DEF Succeeded

LEMMA ForwardsSame ==
  ASSUME UNCHANGED <<edge, world>>
  PROVE  /\ Forwards' = Forwards /\ Living' = Living /\ Listening' = Listening
         /\ EndsTold => EndsTold'
BY EdgesSame DEF Forwards, EndsTold, Phase, world

\* Where no edge begins, one that lives serves, is not told to end, and has the
\* lock, unless a command waits for its end.
LEMMA LivingServes ==
  ASSUME Orderly, NoneStarts, NEW e \in Living,
         \A c \in Commands : cmd[c].step # "stopping"
  PROVE  e \in Listening /\ ~edge[e].told /\ lock = Record(e) /\ e \in Edges
<1>1. e \in Edges /\ lock = Record(e)
  BY HoldsLock, LivingPhases DEF Orderly
<1>2. ~edge[e].told
  BY DEF Orderly, Attended
<1>3. Phase(e) \in {"serving", "release", "erase"}
  BY LivingPhases DEF Orderly, NoneStarts, Is
<1>4. Phase(e) = "serving"
  BY <1>1, <1>2, <1>3 DEF Orderly, EndsTold
<1> QED BY <1>1, <1>2, <1>4 DEF Listening, Is

LEMMA InTurnsEdge ==
  ASSUME Orderly, InTurns, NEW e \in Edges, EdgeStep(e) \/ End(e)
  PROVE  InTurns'
<1>0. TypeInv /\ BasicInv /\ OneEdge /\ Attended
  BY DEF Orderly
<1>1. /\ \A f \in Edges \ {e} : edge'[f] = edge[f]
      /\ edge'[e].binary = edge[e].binary /\ edge'[e].told = edge[e].told
      /\ e \in Living /\ Living' \subseteq Living /\ edge'[e].phase # "none"
      /\ UNCHANGED <<world, cmd>>
  BY <1>0, EdgeMoves
<1>2. Forwards \subseteq Forwards'
  BY <1>0, ForwardsEdge
<1>3. (Succeeded' <=> Succeeded) /\ UNCHANGED <<reach, good>>
  BY <1>1 DEF Succeeded, world
<1>4. EndsTold'
  <2>1. edge'[e].phase = "release" => edge[e].told
    <3>1. Listening # {} => e \in Listening
      BY <1>0, <1>1 DEF OneEdge, Living, Listening, Is
    <3>2. edge[e] \in Process /\ edge \in [Edges -> Process]
      BY <1>0 DEF TypeInv, EdgeInv
    <3> QED
      BY <3>1, <3>2
      DEF EdgeStep, Begin, Open, Write, Look, Unlink, Listen, Release, Erase, End, Goes, Process,
          Listening, Is
  <2>2. edge'[e].phase = "erase" => edge[e].told
    <3>1. edge[e] \in Process /\ edge \in [Edges -> Process]
      BY <1>0 DEF TypeInv, EdgeInv
    <3>2. edge'[e].phase = "erase" => Phase(e) = "release"
      BY <3>1
      DEF EdgeStep, Begin, Open, Write, Look, Unlink, Listen, Release, Erase, End, Goes, Process
    <3> QED BY <3>2 DEF Orderly, EndsTold
  <2> QED BY <1>1, <2>1, <2>2 DEF Orderly, EndsTold, Phase
<1>5. ASSUME NEW c \in Commands, cmd[c].step \in Underway
      PROVE  Turn(c)'
  <2>0. Turn(c) /\ cmd[c] \in Invocation /\ Errand(c)
    BY <1>0, <1>5 DEF InTurns, TypeInv, CmdInv, Orderly, ErrandInv
  <2>1. cmd[c].step = "judge" => cmd[c].target \in Listening'
    <3> SUFFICES ASSUME cmd[c].step = "judge" PROVE FALSE
      OBVIOUS
    <3>1. e = cmd[c].target /\ e \in Listening
      BY <1>0, <1>1, <2>0 DEF OneEdge, Leaves, Turn
    <3>2. edge[e].told
      BY <3>1
      DEF EdgeStep, Begin, Open, Write, Look, Unlink, Listen, Release, Erase, End, Listening, Is
    <3>3. PICK d \in Commands : cmd[d].step = "stopping"
      BY <1>0, <1>1, <3>2 DEF Attended
    <3> QED BY <3>3 DEF Orderly, BasicInv, InTurn, Underway, Steps
  <2>2. ASSUME Succeeded, "public" \notin reach
        PROVE  Lasting(c)'
    <3>1. Lasting(c)
      BY <2>0, <2>2 DEF Turn
    <3>2. cmd[c].seen # 0 => edge'[cmd[c].seen].binary = edge[cmd[c].seen].binary
      <4>1. cmd[c].seen \in Edges \cup {0}
        BY <2>0 DEF Invocation, Maybe
      <4> QED BY <1>1, <4>1
    <3>3. ComesUp => ComesUp'
      BY <1>0, ComesUpEdge
    <3>4. (\A f \in Living : edge[f].binary \in good)
            => \A f \in Living' : edge'[f].binary \in good'
      BY <1>1, <1>3 DEF Living
    <3> QED BY <1>1, <1>2, <1>3, <3>1, <3>2, <3>3, <3>4 DEF Lasting
  <2> QED BY <1>1, <1>3, <2>0, <2>1, <2>2 DEF Turn
<1>6. Between => Between'
  BY <1>1, <1>2, <1>3 DEF Between
<1> QED BY <1>1, <1>4, <1>5, <1>6 DEF InTurns

LEMMA InTurnsCall ==
  ASSUME Orderly, InTurns, NEW c \in Commands, Call(c)
  PROVE  InTurns'
<1>0. CmdInv
  BY DEF Orderly, TypeInv
<1>1. /\ \A d \in Commands \ {c} : cmd'[d] = cmd[d]
      /\ cmd'[c].result = "none"
      /\ \/ cmd'[c].kind = "run" /\ cmd'[c].step = "identify"
         \/ cmd'[c].kind = "setup" /\ cmd'[c].step = "stage"
         \/ cmd'[c].kind = "uninstall" /\ cmd'[c].step = "stop" /\ cmd'[c].then = "remove"
      /\ \A d \in Commands : cmd[d].step \notin Underway
      /\ UNCHANGED <<edge, world>>
  BY <1>0, CallGives DEF Orderly
<1>2. Between /\ (Succeeded' => Succeeded)
  BY <1>1, SucceededBy DEF InTurns
<1>3. Forwards' = Forwards /\ Living' = Living /\ EndsTold' /\ reach' = reach
  BY <1>1, ForwardsSame DEF InTurns, world
<1>4. Turn(c)'
  BY <1>1, <1>2, <1>3 DEF Turn, Lasting, Between, Stopping
<1> QED BY <1>1, <1>3, <1>4 DEF InTurns, Underway, Steps

\* A command that goes on, or ends.
Onward(c) == EndsTold /\ IF cmd[c].step \in Underway THEN Turn(c) ELSE Between

LEMMA OrderlyGives ==
  ASSUME Orderly, NEW c \in Commands, CommandStep(c), Undisturbed'
  PROVE  /\ CmdInv /\ EdgeInv /\ cmd[c] \in Invocation
         /\ ~cmd[c].cancelled /\ cmd[c].step \in Underway
         /\ Errand(c) /\ Leaves(c)
         /\ \A d \in Commands \ {c} : cmd'[d] = cmd[d] /\ cmd[d].step \notin Underway
         /\ windows /\ UNCHANGED world
         /\ ~Interrupt(c) /\ ~StopTimesOut(c) /\ ~RemoveFails(c) /\ ~Remove(c)
<1>1. TypeInv /\ BasicInv /\ ErrandInv /\ OneEdge /\ Attended
  BY DEF Orderly
<1>2. ~Interrupt(c) /\ ~StopTimesOut(c) /\ ~RemoveFails(c) /\ ~Remove(c)
  BY <1>1, UndisturbedBefore
<1>3. ~cmd[c].cancelled
  BY <1>1 DEF BasicInv, Counted, Orderly
<1>4. cmd[c].step \in Underway /\ UNCHANGED world /\ \A d \in Commands \ {c} : cmd'[d] = cmd[d]
  BY <1>1, <1>2, CommandMoves
<1>5. \A d \in Commands \ {c} : cmd[d].step \notin Underway
  BY <1>1, <1>4 DEF Orderly, BasicInv, InTurn
<1> QED BY <1>1, <1>2, <1>3, <1>4, <1>5 DEF TypeInv, CmdInv, ErrandInv, OneEdge, Attended

\* Where edges stay as they are, and nothing more has succeeded.
LEMMA OnwardQuiet ==
  ASSUME Orderly, NEW c \in Commands, UNCHANGED <<edge, world>>, Succeeded' => Succeeded, Turn(c),
         \/ /\ cmd'[c].step \in Underway \ {"judge", "sweep", "restore", "restored"}
            /\ Succeeded /\ "public" \notin reach => Lasting(c)'
         \/ cmd'[c].step \notin Underway
            /\ (Succeeded /\ "public" \notin reach => Forwards # {})
  PROVE  Onward(c)'
<1>1. /\ Forwards' = Forwards /\ Living' = Living /\ Listening' = Listening
      /\ EndsTold' /\ reach' = reach
  BY ForwardsSame DEF Orderly, world
<1>2. CASE cmd'[c].step \notin Underway
  BY <1>1, <1>2 DEF Onward, Between, Turn
<1>3. CASE cmd'[c].step \in Underway
  BY <1>1, <1>3 DEF Onward, Turn
<1> QED BY <1>2, <1>3

\* A run before it stops an edge or starts one.
LEMMA InTurnsLooks ==
  ASSUME Orderly, NEW c \in Commands, CommandStep(c), Undisturbed', Turn(c),
         Identify(c) \/ Stage(c) \/ Install(c) \/ Inspect(c) \/ Probe(c) \/ Choose(c)
  PROVE  Onward(c)'
<1>0. /\ CmdInv /\ cmd[c] \in Invocation /\ Errand(c) /\ Leaves(c)
      /\ ~cmd[c].cancelled /\ UNCHANGED <<edge, world>>
      /\ \A d \in Commands \ {c} : cmd'[d] = cmd[d] /\ cmd[d].step \notin Underway
  BY OrderlyGives DEF Identify, Stage, Install, Inspect, Probe, Choose
<1>1. Succeeded /\ "public" \notin reach => Forwards # {} /\ Lasting(c)
  BY DEF Turn, Lasting, Identify, Stage, Install, Inspect, Probe, Choose, At
<1>2. /\ Forwards' = Forwards /\ reach' = reach /\ good' = good
  BY <1>0, ForwardsSame DEF world
<1>3. ASSUME NEW result, Ends(c, result), result \notin {"edge", "direct"}
      PROVE  Onward(c)'
  <2>1. cmd'[c].step = "over" /\ cmd'[c].result = result
    BY <1>0, <1>3, EndsGives
  <2>2. Succeeded' => Succeeded
    BY <1>0, <1>3, <2>1, SucceededBy
  <2> QED BY <1>0, <1>1, <2>1, <2>2, OnwardQuiet DEF Underway
<1>4. ASSUME NEW step \in {"inspect", "stage", "install"}, To(c, step)
      PROVE  Onward(c)'
  <2>1. cmd'[c].step = step /\ cmd'[c].result = cmd[c].result
    BY <1>0, <1>4, ToGives
  <2>2. Succeeded' => Succeeded
    BY <1>0, <2>1, SucceededBy
  <2>3. Succeeded /\ "public" \notin reach => Lasting(c)'
    BY <1>1, <1>2, <2>1 DEF Lasting, Stopping
  <2> QED BY <1>0, <2>1, <2>2, <2>3, OnwardQuiet DEF Underway, Steps
<1>5. CASE Install(c)
  <2>1. CASE Upgrades(c)
    <3>1. cmd'[c].step = "identify" /\ cmd'[c].result = cmd[c].result
      BY <1>0, <2>1, InstallGives
    <3>2. Succeeded' => Succeeded
      BY <1>0, <3>1, SucceededBy
    <3>3. Succeeded /\ "public" \notin reach => Lasting(c)'
      BY <1>1, <1>2, <3>1 DEF Lasting, Stopping
    <3> QED BY <1>0, <3>1, <3>2, <3>3, OnwardQuiet DEF Underway, Steps
  <2> QED BY <1>3, <1>5, <2>1 DEF Install, Upgrades
\* The edge that leads to the router is the one that Inspect finds.
<1>6. CASE Inspect(c)
  <2>1. CASE ~Fails(c)
    <3>1. /\ cmd'[c].step = "probe" /\ cmd'[c].seen = (IF Owned THEN lock.by ELSE 0)
          /\ cmd'[c].result = cmd[c].result
      BY <1>0, <1>6, <2>1, InspectGives
    <3>2. Succeeded' => Succeeded
      BY <1>0, <3>1, SucceededBy
    <3>3. ASSUME NEW e \in Forwards
          PROVE  cmd'[c].seen = e /\ e # 0 /\ edge'[e].binary \in good'
      <4>1. e \in Living /\ edge[e].binary \in good /\ e \in Edges
        BY DEF Forwards, Listening, Living, Is
      <4>2. NoneStarts
        BY <1>0, <1>6 DEF Leaves, Inspect, At
      <4>3. lock = Record(e)
        BY <4>1, <4>2, HoldsLock DEF Orderly
      <4>4. Owned /\ lock.by = e /\ e # 0
        BY <4>1, <4>3, EdgeAssumption DEF Owned, Record
      <4> QED BY <1>0, <1>2, <3>1, <4>1, <4>4
    <3>4. Succeeded /\ "public" \notin reach => Lasting(c)'
      BY <1>1, <1>2, <3>1, <3>3 DEF Lasting, Stopping
    <3> QED BY <1>0, <3>1, <3>2, <3>4, OnwardQuiet DEF Underway, Steps
  <2> QED BY <1>3, <2>1 DEF Fails
<1>7. CASE Probe(c)
  <2>1. CASE cmd' = Stops(c, "validate")
    <3>1. /\ cmd'[c].step = "stop" /\ cmd'[c].then = "validate" /\ cmd'[c].seen = cmd[c].seen
          /\ cmd'[c].result = cmd[c].result
      BY <1>0, <2>1, StopsGives
    <3>2. Succeeded' => Succeeded
      BY <1>0, <3>1, SucceededBy
    <3>3. Succeeded /\ "public" \notin reach => Lasting(c)'
      BY <1>0, <1>1, <1>2, <1>7, <3>1 DEF Lasting, Probe, At
    <3> QED BY <1>0, <3>1, <3>2, <3>3, OnwardQuiet DEF Underway, Steps
  <2>2. ASSUME NEW step \in {"validate", "choose"}, To(c, step)
        PROVE  Onward(c)'
    <3>1. cmd'[c].step = step /\ cmd'[c].result = cmd[c].result /\ cmd'[c].seen = cmd[c].seen
      BY <1>0, <2>2, ToGives
    <3>2. Succeeded' => Succeeded
      BY <1>0, <3>1, SucceededBy
    <3>3. Succeeded /\ "public" \notin reach => Lasting(c)'
      BY <1>0, <1>1, <1>2, <1>7, <3>1 DEF Lasting, Probe, At, Stopping
    <3> QED BY <1>0, <3>1, <3>2, <3>3, OnwardQuiet DEF Underway, Steps
  <2> QED BY <1>7, <2>1, <2>2 DEF Probe
<1>8. CASE Choose(c)
  <2>0. "public" \notin reach
    BY <1>8 DEF Choose, At, Orderly, Attended, ErrandInv
  <2>1. CASE Replaces(c)
    <3>1. /\ cmd'[c].step = IF cmd[c].seen # 0 THEN "stop" ELSE "launch"
          /\ cmd'[c].then = "launch" /\ cmd'[c].seen = cmd[c].seen
          /\ cmd'[c].result = cmd[c].result
      BY <1>0, <2>1, ChooseGives
    <3>2. Succeeded' => Succeeded
      BY <1>0, <3>1, SucceededBy
    <3>3. Succeeded /\ "public" \notin reach => Lasting(c)'
      BY <1>0, <1>1, <1>2, <1>8, <3>1 DEF Lasting, Choose, At, Stopping
    <3> QED BY <1>0, <3>1, <3>2, <3>3, OnwardQuiet DEF Underway, Steps
  <2>2. CASE Finds(c) /\ Ends(c, "edge")
    <3>1. Forwards # {}
      BY <2>0, <2>2, ReachableForwards DEF Finds
    <3>2. cmd'[c].step = "over" /\ "over" \notin Underway
      BY <1>0, <2>2, EndsGives DEF Underway
    <3>3. EndsTold'
      BY <1>0, ForwardsSame DEF Orderly
    <3> QED BY <1>2, <2>0, <3>1, <3>2, <3>3 DEF Onward, Between
  <2> QED BY <1>3, <1>8, <2>1, <2>2 DEF Choose, Replaces, Fails
<1> QED BY <1>3, <1>4, <1>5, <1>6, <1>7, <1>8 DEF Identify, Stage

\* A run after it has stopped an edge or started one.
LEMMA InTurnsDecides ==
  ASSUME Orderly, NEW c \in Commands, CommandStep(c), Undisturbed', Turn(c),
         Validate(c) \/ Wait(c) \/ Rollback(c) \/ Restored(c)
  PROVE  Onward(c)'
<1>0. /\ CmdInv /\ cmd[c] \in Invocation /\ Errand(c) /\ Leaves(c) /\ windows
      /\ ~cmd[c].cancelled /\ UNCHANGED <<edge, world>> /\ cmd[c].kind = "run"
      /\ \A d \in Commands \ {c} : cmd'[d] = cmd[d] /\ cmd[d].step \notin Underway
  BY OrderlyGives DEF Validate, Wait, Rollback, Restored, At
<1>1. Succeeded /\ "public" \notin reach => Lasting(c)
  BY DEF Turn
<1>2. /\ Forwards' = Forwards /\ Living' = Living /\ EndsTold'
      /\ reach' = reach /\ good' = good
  BY <1>0, ForwardsSame DEF Orderly, world
<1>3. ASSUME Fails(c), Succeeded /\ "public" \notin reach => Forwards # {}
      PROVE  Onward(c)'
  <2>1. cmd'[c].step = "over" /\ cmd'[c].result = "failed"
    BY <1>0, <1>3, FailsGives
  <2>2. Succeeded' => Succeeded
    BY <1>0, <2>1, SucceededBy
  <2> QED BY <1>0, <1>3, <2>1, <2>2, OnwardQuiet DEF Underway
<1>4. ASSUME To(c, "restore"), "public" \notin reach, cmd[c].step \in {"validate", "rollback"}
      PROVE  Onward(c)'
  <2>1. /\ cmd'[c].step = "restore" /\ cmd'[c].result = cmd[c].result
        /\ cmd'[c].seen = cmd[c].seen
    BY <1>0, <1>4, ToGives
  <2>2. Succeeded' => Succeeded
    BY <1>0, <2>1, SucceededBy
  <2>3. Succeeded => Lasting(c)'
    BY <1>0, <1>1, <1>2, <1>4, <2>1 DEF Lasting, Stopping
  <2> QED BY <1>2, <1>4, <2>1, <2>2, <2>3 DEF Onward, Turn, Underway, Steps
<1>5. CASE Validate(c)
  <2>0. Living = {} /\ cmd[c].step = "validate"
    BY <1>0, <1>5 DEF Leaves, Validate, At
  <2>1. Finds(c) <=> "public" \in reach
    BY <1>0, <2>0 DEF Finds, Reachable, Living, Listening, Is
  <2>2. CASE Finds(c) /\ Ends(c, "direct")
    <3>1. cmd'[c].step = "over" /\ "over" \notin Underway
      BY <1>0, <2>2, EndsGives DEF Underway
    <3> QED BY <1>2, <2>0, <2>1, <2>2, <3>1 DEF Onward, Between
  <2>3. CASE ~Finds(c) /\ cmd[c].seen # 0 /\ To(c, "restore")
    BY <1>4, <2>0, <2>1, <2>3
  <2>4. CASE ~Finds(c) /\ cmd[c].seen = 0 /\ Fails(c)
    BY <1>1, <1>3, <2>0, <2>4 DEF Lasting
  <2> QED BY <1>5, <2>2, <2>3, <2>4 DEF Validate
<1>6. CASE Wait(c)
  <2>0. "public" \notin reach /\ cmd[c].step = "wait"
    BY <1>6 DEF Wait, At, Orderly, Attended, ErrandInv
  <2>1. CASE Finds(c) /\ Ends(c, "edge")
    <3>1. Forwards # {}
      BY <2>0, <2>1, ReachableForwards DEF Finds
    <3>2. cmd'[c].step = "over" /\ "over" \notin Underway
      BY <1>0, <2>1, EndsGives DEF Underway
    <3> QED BY <1>2, <2>0, <3>1, <3>2 DEF Onward, Between
  <2>2. CASE cmd' = Stops(c, "rollback")
    <3>1. /\ cmd'[c].step = "stop" /\ cmd'[c].then = "rollback" /\ cmd'[c].seen = cmd[c].seen
          /\ cmd'[c].result = cmd[c].result
      BY <1>0, <2>2, StopsGives
    <3>2. Succeeded' => Succeeded
      BY <1>0, <3>1, SucceededBy
    <3>3. Succeeded /\ "public" \notin reach => Lasting(c)'
      BY <1>0, <1>1, <1>2, <2>0, <3>1 DEF Lasting, Stopping
    <3> QED BY <1>0, <3>1, <3>2, <3>3, OnwardQuiet DEF Underway, Steps
  <2> QED BY <1>6, <2>1, <2>2 DEF Wait
<1>7. CASE Rollback(c)
  <2>0. "public" \notin reach /\ cmd[c].step = "rollback"
    BY <1>7 DEF Rollback, At, Orderly, Attended, ErrandInv, GoesOn
  <2>1. CASE cmd[c].seen # 0 /\ To(c, "restore")
    BY <1>4, <2>0, <2>1
  <2>2. CASE cmd[c].seen = 0 /\ Fails(c)
    BY <1>1, <1>3, <2>0, <2>2 DEF Lasting
  <2> QED BY <1>7, <2>1, <2>2 DEF Rollback
\* What is put back comes up, or is waited for.
<1>8. CASE Restored(c)
  <2>0. "public" \notin reach /\ cmd[c].step = "restored"
    BY <1>8 DEF Restored, At, Turn
  <2>1. CASE Finds(c)
    BY <1>3, <1>8, <2>0, <2>1, ReachableForwards DEF Finds, Restored
  <2>2. CASE GivesUp(c)
    <3>1. Is(Starting) = {}
      BY <1>0, <2>2 DEF GivesUp
    <3>2. ASSUME Succeeded PROVE Forwards # {}
      <4>1. ComesUp /\ \A e \in Living : edge[e].binary \in good
        BY <1>1, <2>0, <3>2 DEF Lasting
      <4>2. Listening # {} /\ \A e \in Listening : ~edge[e].told
        BY <3>1, <4>1 DEF ComesUp, Is, Living
      <4>3. Listening \subseteq Living
        BY DEF Listening, Living, Is
      <4> QED BY <4>1, <4>2, <4>3 DEF Forwards
    <3> QED BY <1>3, <1>8, <3>2 DEF Restored
  <2> QED BY <1>8, <2>1, <2>2 DEF Restored
<1> QED BY <1>5, <1>6, <1>7, <1>8

\* The edge that is put back has led to the router before.
LEMMA InTurnsStarts ==
  ASSUME Orderly, NEW c \in Commands, CommandStep(c), Undisturbed', Turn(c),
         Launch(c) \/ Restore(c)
  PROVE  Onward(c)'
<1>0. /\ CmdInv /\ EdgeInv /\ cmd[c] \in Invocation /\ Errand(c) /\ Leaves(c) /\ Knows(cmd[c])
      /\ ~cmd[c].cancelled /\ UNCHANGED world /\ UNCHANGED <<lock, staged>>
      /\ \A d \in Commands \ {c} : cmd'[d] = cmd[d] /\ cmd[d].step \notin Underway
  BY OrderlyGives DEF Launch, Restore, files, CmdInv
<1>1. "public" \notin reach
  BY DEF Launch, Restore, At, Turn, Orderly, Attended, ErrandInv, GoesOn
<1>2. (Succeeded => Lasting(c)) /\ Living = {}
  BY <1>0, <1>1 DEF Turn, Leaves, Launch, Restore, At
<1>3. reach' = reach /\ good' = good
  BY <1>0 DEF world
<1>4. ASSUME NEW v \in staged, NEW companion, Starts(v, companion),
             NEW step \in {"wait", "restored"}, To(c, step),
             Succeeded /\ step = "restored" => v \in good,
             Succeeded /\ step = "wait" => cmd[c].seen # 0 /\ edge[cmd[c].seen].binary \in good
      PROVE  Onward(c)'
  <2>1. PICK e \in Edges :
           /\ Phase(e) = "none"
           /\ edge'[e].phase = "begun" /\ edge'[e].binary = v
           /\ edge'[e].tries = edge[e].tries /\ edge'[e].told = edge[e].told
           /\ \A f \in Edges \ {e} : edge'[f] = edge[f]
           /\ Living' = Living \cup {e}
    BY <1>0, <1>4, StartsGives
  <2>2. ~edge[e].told
    BY <2>1 DEF Orderly, BasicInv, Begun
  <2>3. EndsTold'
    BY <2>1 DEF Orderly, EndsTold, Phase
  <2>4. /\ cmd'[c].step = step /\ cmd'[c].seen = cmd[c].seen /\ cmd'[c].result = cmd[c].result
    BY <1>0, <1>4, ToGives
  <2>5. Succeeded' => Succeeded
    BY <1>0, <2>4, SucceededBy
  <2>6. ComesUp'
    BY <1>0, <1>2, <1>4, <2>1, <2>2 DEF ComesUp, Verified, Phase, Starting
  <2>7. ASSUME Succeeded PROVE Lasting(c)'
    <3>1. cmd[c].seen # 0 => edge'[cmd[c].seen].binary = edge[cmd[c].seen].binary
      <4>1. cmd[c].seen # 0 => cmd[c].seen \in Edges /\ cmd[c].seen # e
        BY <1>0, <2>1 DEF Errand, Invocation, Maybe
      <4> QED BY <2>1, <4>1
    <3> QED
      BY <1>2, <1>3, <1>4, <2>1, <2>4, <2>6, <2>7, <3>1 DEF Lasting, Stopping
  <2> QED BY <1>1, <1>3, <2>3, <2>4, <2>5, <2>7 DEF Onward, Turn, Underway, Steps
<1>5. CASE Launch(c)
  <2>1. cmd[c].want \in staged
    BY <1>5 DEF Orderly, Attended, GoesOn, Launch, At
  <2>2. Succeeded => cmd[c].seen # 0 /\ edge[cmd[c].seen].binary \in good
    BY <1>2, <1>5 DEF Lasting, Launch, At
  <2> QED BY <1>0, <1>4, <1>5, <2>1, <2>2 DEF Launch, CanStart
<1>6. CASE Restore(c)
  <2>1. cmd[c].seen # 0 /\ cmd[c].seen \in Edges /\ Phase(cmd[c].seen) # "none"
    BY <1>0, <1>6 DEF Errand, Knows, Invocation, Maybe, Restore, At
  <2>2. edge[cmd[c].seen].binary \in staged
    BY <2>1 DEF Orderly, Attended, Verified
  <2>3. Succeeded => edge[cmd[c].seen].binary \in good
    BY <1>2, <1>6 DEF Lasting, Restore, At
  <2> QED BY <1>0, <1>4, <1>6, <2>2, <2>3 DEF Restore, CanStart
<1> QED BY <1>5, <1>6

\* Stop finds the edge there is by its lock, and does not fail.
LEMMA InTurnsStops ==
  ASSUME Orderly, NEW c \in Commands, CommandStep(c), Undisturbed', Turn(c),
         StopReads(c) \/ StopSignals(c) \/ StopWaits(c) \/ StopClears(c)
  PROVE  Onward(c)'
<1>0. /\ CmdInv /\ EdgeInv /\ cmd[c] \in Invocation /\ Errand(c) /\ Leaves(c)
      /\ ~cmd[c].cancelled /\ UNCHANGED world /\ cmd[c].step \in Stopping
      /\ \A d \in Commands \ {c} : cmd'[d] = cmd[d] /\ cmd[d].step \notin Underway
  BY OrderlyGives DEF StopReads, StopSignals, StopWaits, StopClears, Stopping
<1>1. Succeeded /\ "public" \notin reach => Lasting(c)
  BY DEF Turn
<1>2. reach' = reach /\ good' = good /\ (UNCHANGED edge => Forwards' = Forwards)
  BY <1>0, ForwardsSame DEF world
<1>3. ASSUME NEW step \in {"clear", "validate", "launch", "rollback"}, To(c, step), UNCHANGED edge,
             cmd[c].kind = "run"
      PROVE  Onward(c)'
  <2>1. /\ cmd'[c].step = step /\ cmd'[c].seen = cmd[c].seen /\ cmd'[c].result = cmd[c].result
    BY <1>0, <1>3, ToGives
  <2>2. Succeeded' => Succeeded
    BY <1>0, <2>1, SucceededBy
  <2>3. Succeeded /\ "public" \notin reach => Lasting(c)'
    BY <1>0, <1>1, <1>2, <1>3, <2>1 DEF Lasting
  <2> QED BY <1>0, <1>3, <2>1, <2>2, <2>3, OnwardQuiet DEF Underway, Steps
<1>4. ASSUME To(c, "remove")
      PROVE  cmd[c].kind = "run"
  BY <1>0, <1>4, ToGives DEF Undisturbed, Removes, Errand
<1>5. ASSUME lock # NoLock, cmd[c].step = "stop"
      PROVE  lock.by \in Listening /\ lock.written
  <2>1. lock.by \in Living /\ NoneStarts
    BY <1>0, <1>5 DEF Orderly, OneEdge, LockHeld, Leaves
  <2>2. \A d \in Commands : cmd[d].step # "stopping"
    BY <1>0, <1>5 DEF Underway, Steps
  <2>3. lock.by \in Listening /\ lock = Record(lock.by)
    BY <2>1, <2>2, LivingServes
  <2> QED BY <2>3 DEF Record
<1>6. CASE StopReads(c)
  <2>0. UNCHANGED edge /\ cmd[c].step = "stop"
    BY <1>6 DEF StopReads
  <2>1. CASE lock = NoLock /\ To(c, cmd[c].then)
    <3>1. cmd[c].kind = "run" /\ cmd[c].then \in {"validate", "launch", "rollback"}
      BY <1>0, <1>4, <2>1 DEF Errand
    <3> QED BY <1>3, <2>0, <2>1, <3>1
  <2>2. CASE Judges(c)
    <3>1. lock # NoLock
      BY <1>6, <2>0, <2>2, <1>0, ToGives, StopReadsGives, FailsGives DEF StopReads, NoLock, Errand
    <3>2. /\ cmd'[c].step = "judge" /\ cmd'[c].target = lock.by /\ cmd'[c].seen = cmd[c].seen
          /\ cmd'[c].then = cmd[c].then /\ cmd'[c].kind = cmd[c].kind
          /\ cmd'[c].result = cmd[c].result
      BY <1>0, <2>2, StopReadsGives
    <3>3. Succeeded' => Succeeded
      BY <1>0, <3>2, SucceededBy
    <3>4. Succeeded /\ "public" \notin reach => Lasting(c)'
      BY <1>0, <1>1, <1>2, <2>0, <3>2 DEF Lasting
    <3>5. Listening' = Listening /\ Living' = Living /\ EndsTold'
      BY <1>0, <2>0, ForwardsSame DEF Orderly
    <3> QED BY <1>2, <1>5, <2>0, <3>1, <3>2, <3>3, <3>4, <3>5 DEF Onward, Turn, Underway, Steps
  <2> QED BY <1>5, <1>6, <2>0, <2>1, <2>2 DEF StopReads, Judges
<1>7. CASE StopSignals(c)
  <2> DEFINE t == cmd[c].target
  <2>1. t \in Listening /\ t \in Living /\ t \in Edges /\ Verified(t)
    BY <1>7 DEF StopSignals, Turn, Listening, Living, Is, Orderly, Attended
  <2>2. edge' = [edge EXCEPT ![t].told = TRUE] /\ To(c, "stopping")
    BY <1>7, <2>1 DEF StopSignals
  <2>3. /\ \A f \in Edges : /\ edge'[f].phase = edge[f].phase /\ edge'[f].binary = edge[f].binary
                            /\ f # t => edge'[f].told = edge[f].told
        /\ Living' = Living
    BY <1>0, <2>1, <2>2, SignalGives
  <2>4. EndsTold'
    BY <2>1, <2>3 DEF Orderly, EndsTold, Phase, Listening, Is
  <2>5. /\ cmd'[c].step = "stopping" /\ cmd'[c].seen = cmd[c].seen /\ cmd'[c].kind = cmd[c].kind
        /\ cmd'[c].result = cmd[c].result
    BY <1>0, <2>2, ToGives
  <2>6. Succeeded' => Succeeded
    BY <1>0, <2>5, SucceededBy
  <2>7. Succeeded /\ "public" \notin reach => Lasting(c)'
    <3>1. cmd[c].seen # 0 => edge'[cmd[c].seen].binary = edge[cmd[c].seen].binary
      BY <1>0, <2>3 DEF Invocation, Maybe
    <3> QED BY <1>0, <1>1, <1>2, <2>5, <3>1 DEF Lasting
  <2> QED BY <1>2, <2>3, <2>4, <2>5, <2>6, <2>7 DEF Onward, Turn, Underway, Steps
<1>8. CASE StopWaits(c) \/ StopClears(c)
  <2>0. UNCHANGED edge /\ cmd[c].kind = "run"
    BY <1>0, <1>8 DEF StopWaits, StopClears, Turn, Orderly, Undisturbed, Removes, Errand
  <2>1. CASE StopWaits(c)
    BY <1>3, <2>0, <2>1 DEF StopWaits
  <2>2. CASE StopClears(c)
    <3>1. To(c, cmd[c].then)
      BY <2>2 DEF StopClears, Turn
    <3> QED BY <1>0, <1>3, <2>0, <3>1 DEF Errand
  <2> QED BY <1>8, <2>1, <2>2
<1> QED BY <1>6, <1>7, <1>8

LEMMA InTurnsCommand ==
  ASSUME Orderly, InTurns, NEW c \in Commands, CommandStep(c), Undisturbed'
  PROVE  InTurns'
<1>1. /\ cmd[c].step \in Underway
      /\ ~Interrupt(c) /\ ~StopTimesOut(c) /\ ~RemoveFails(c) /\ ~Remove(c)
      /\ \A d \in Commands \ {c} : cmd'[d] = cmd[d] /\ cmd[d].step \notin Underway
  BY OrderlyGives
<1>2. Turn(c)
  BY <1>1 DEF InTurns
<1>3. Onward(c)'
  BY <1>1, <1>2, InTurnsLooks, InTurnsDecides, InTurnsStarts, InTurnsStops DEF CommandStep
<1> QED BY <1>1, <1>3 DEF Onward, InTurns

-----------------------------------------------------------------------------

TransportInv == ErrandInv /\ AttendedInv /\ CrossedInv /\ AloneInv

LEMMA TransportInit ==
  ASSUME Init
  PROVE  TransportInv
<1>1. PICK v \in Versions, first \in BOOLEAN :
        /\ edge = [e \in Edges |->
                     IF first /\ e = 1
                     THEN [NotStarted EXCEPT !.phase = "serving", !.binary = v, !.companion = v]
                     ELSE NotStarted]
        /\ lock = IF first THEN Record(1) ELSE NoLock
        /\ staged = IF first THEN {v} ELSE {}
  BY DEF Init
<1>2. ASSUME NEW e \in Edges
      PROVE  /\ edge[e].tries = 0 /\ ~edge[e].told
             /\ IF first /\ e = 1 THEN edge[e].phase = "serving" /\ edge[e].binary = v
                                  ELSE edge[e].phase = "none"
  BY <1>1 DEF NotStarted
<1>3. \A c \in Commands : /\ cmd[c].step = "idle" /\ cmd[c].result = "none" /\ cmd[c].seen = 0
                          /\ cmd[c].kind = "none"
  BY DEF Init, NotCalled
<1>4. /\ windows /\ good \subseteq Versions /\ (alone \/ good = Versions)
      /\ "public" \in reach => "admin" \in reach
  BY DEF Init
<1>5. ErrandInv
  BY <1>3, <1>4 DEF ErrandInv, Errand, GoesOn, Stopping
<1>6. AttendedInv
  BY <1>1, <1>2, <1>3, <1>4 DEF AttendedInv, Attended, Verified, Phase, GoesOn, Stopping, Living
<1>7. CrossedInv
  <2> SUFFICES ASSUME ~alone PROVE Crossing
    BY DEF CrossedInv
  <2>1. ASSUME Used PROVE Forwards # {}
    <3>1. 1 \in Edges /\ first
      BY <1>2, <2>1 DEF Used, Phase
    <3>2. 1 \in Forwards
      BY <1>2, <1>4, <3>1 DEF Forwards, Listening, Is, Phase
    <3> QED BY <3>2
  <2> QED BY <1>2, <1>3, <2>1 DEF Crossing, GoesOn, Stopping, Succeeded, Phase
<1>8. AloneInv
  BY <1>2, <1>3 DEF AloneInv, InTurns, EndsTold, Between, Succeeded, Phase, Underway
<1> QED BY <1>5, <1>6, <1>7, <1>8 DEF TransportInv

LEMMA OrderlyIs ==
  ASSUME TypeInv, CommandsInv, TransportInv, Undisturbed, alone
  PROVE  Orderly /\ InTurns
<1>1. OneEdge
  BY EdgeAssumption DEF CommandsInv, OneEdgeInv, Undisturbed
<1>2. InTurns /\ Attended
  BY DEF TransportInv, AloneInv, AttendedInv
<1> QED BY <1>1, <1>2 DEF Orderly, Undisturbed, CommandsInv, TransportInv, InTurns

LEMMA TransportStep ==
  ASSUME TypeInv, TypeInv', CommandsInv, TransportInv, [Next]_vars
  PROVE  TransportInv'
<1>0. BasicInv /\ ErrandInv
  BY DEF CommandsInv, TransportInv
<1>1. ASSUME NEW e \in Edges, EdgeStep(e) \/ End(e) PROVE TransportInv'
  <2>1. cmd' = cmd /\ faults' = faults /\ UNCHANGED world
    BY <1>1, EdgeMoves
    DEF EdgeStep, Begin, Open, Write, Look, Unlink, Listen, Release, Erase, End
  <2>2. Undisturbed' <=> Undisturbed
    BY <2>1 DEF Undisturbed, Removes
  <2>3. AttendedInv'
    BY <1>1, <2>2, AttendedEdge DEF TransportInv, AttendedInv
  <2>4. CrossedInv'
    BY <1>0, <1>1, <2>1, <2>2, CrossingEdge
    DEF TransportInv, AttendedInv, CrossedInv, ErrandInv, world
  <2>5. AloneInv'
    BY <1>1, <2>1, <2>2, OrderlyIs, InTurnsEdge DEF AloneInv, world
  <2> QED BY <1>0, <1>1, <2>3, <2>4, <2>5, ErrandEdge DEF TransportInv
<1>2. ASSUME NEW c \in Commands, CommandStep(c) PROVE TransportInv'
  <2>1. UNCHANGED world /\ (Undisturbed' => Undisturbed)
    BY <1>0, <1>2, CommandMoves, UndisturbedBefore
  <2>2. ASSUME Undisturbed'
        PROVE  /\ Attended /\ ~Interrupt(c) /\ ~StopTimesOut(c) /\ ~RemoveFails(c) /\ ~Remove(c)
               /\ ~cmd[c].cancelled
    BY <1>0, <1>2, <2>1, <2>2, UndisturbedBefore
    DEF TransportInv, AttendedInv, Undisturbed, BasicInv, Counted
  <2>3. AttendedInv'
    BY <1>0, <1>2, <2>2, AttendedCommand DEF AttendedInv
  <2>4. CrossedInv'
    BY <1>0, <1>2, <2>1, <2>2, CrossingCommand DEF TransportInv, CrossedInv, world
  <2>5. AloneInv'
    BY <1>2, <2>1, OrderlyIs, InTurnsCommand DEF AloneInv, world
  <2> QED BY <1>0, <1>2, <2>3, <2>4, <2>5, ErrandCommand DEF TransportInv
<1>3. ASSUME NEW c \in Commands, Call(c) PROVE TransportInv'
  <2>1. UNCHANGED world /\ faults' = faults /\ cmd[c] = NotCalled
        /\ \A d \in Commands \ {c} : cmd'[d] = cmd[d]
    BY <1>3, CallGives DEF Call, TypeInv
  <2>2. Undisturbed' => Undisturbed
    BY <2>1 DEF Undisturbed, Removes, NotCalled
  <2>3. AttendedInv'
    BY <1>3, <2>2, AttendedCall DEF TransportInv, AttendedInv
  <2>4. CrossedInv'
    BY <1>3, <2>1, <2>2, CrossingCall DEF TransportInv, CrossedInv, world
  <2>5. AloneInv'
    BY <1>3, <2>1, <2>2, OrderlyIs, InTurnsCall DEF AloneInv, world
  <2> QED BY <1>0, <1>3, <2>3, <2>4, <2>5, ErrandCall DEF TransportInv
\* After a fault no more is said.
<1>4. ASSUME (\E e \in Edges : Crash(e)) \/ WindowsStops PROVE TransportInv'
  <2>1. faults' = faults + 1 /\ faults \in Nat /\ UNCHANGED <<world, cmd>>
    BY <1>4, EdgeAssumption DEF Crash, WindowsStops, Another, TypeInv, FaultsInv
  <2>2. ~Undisturbed'
    BY <2>1 DEF Undisturbed
  <2>3. ErrandInv'
    <3>1. CASE WindowsStops
      BY <1>0, <2>1, <3>1, ErrandSame DEF WindowsStops, ErrandInv, Phase, world
    <3> QED BY <1>0, <1>4, <3>1, ErrandEdge
  <2> QED BY <2>2, <2>3 DEF TransportInv, AttendedInv, CrossedInv, AloneInv
<1>5. CASE UNCHANGED vars
  <2>1. UNCHANGED <<edge, lock, staged, windows, reach, good, alone, cmd, faults>>
    BY <1>5 DEF vars, files, world
  <2>2. UNCHANGED <<edge, world>> /\ (Undisturbed' <=> Undisturbed)
    BY <2>1 DEF world, Undisturbed, Removes
  <2>3. /\ Forwards' = Forwards /\ Living' = Living /\ Listening' = Listening
        /\ (EndsTold => EndsTold') /\ (Used' <=> Used) /\ (Succeeded' <=> Succeeded)
        /\ ComesUp => ComesUp'
    BY <2>1, <2>2, ForwardsSame, RestsSame DEF Used, Succeeded, Phase, ComesUp, Verified
  <2>4. ErrandInv'
    BY <1>0, <2>1, <2>2, ErrandSame DEF ErrandInv, Phase
  <2>5. Attended => Attended'
    BY <2>1, <2>3 DEF Attended, Verified, Phase, GoesOn
  <2>6. Crossing => Crossing'
    BY <2>1, <2>3 DEF Crossing, Held, Brings, Carries, Phase, GoesOn, Record, NoLock
  <2>7. InTurns => InTurns'
    BY <2>1, <2>3 DEF InTurns, Turn, Lasting, Between
  <2> QED
    BY <2>1, <2>2, <2>4, <2>5, <2>6, <2>7
    DEF TransportInv, AttendedInv, CrossedInv, AloneInv
<1> QED BY <1>1, <1>2, <1>3, <1>4, <1>5 DEF Next

\* When all is quiet, nobody ends what somebody has found to lead to the router.
LEMMA TransportIsKept ==
  ASSUME TypeInv, CommandsInv, TransportInv
  PROVE  TransportKept
<1> SUFFICES ASSUME AllDone, faults = 0, \A c \in Commands : cmd[c].result # "removed", Succeeded
             PROVE  Reachable
  BY DEF TransportKept, Succeeded
<1>1. /\ \A c \in Commands : cmd[c].step = "over"
      /\ Living = Listening
  BY DEF AllDone, Over, Settled, Living, Listening, Is
<1>2. Undisturbed
  BY <1>1 DEF Undisturbed, Removes
<1>3. Attended /\ BasicInv /\ (alone \/ good = Versions)
  BY <1>2 DEF TransportInv, AttendedInv, CommandsInv, ErrandInv
<1>4. \A e \in Listening : ~edge[e].told
  BY <1>1, <1>3 DEF Attended
<1>5. ~alone => Listening = Forwards
  BY <1>3, <1>4 DEF Forwards, BasicInv, Begun, Listening, Is
<1>6. alone => Between
  BY <1>1, <1>2 DEF TransportInv, AloneInv, InTurns, Underway
<1>7. CASE alone
  BY <1>1, <1>3, <1>6, <1>7 DEF Reachable, Between, Attended, Forwards
<1>8. CASE ~alone /\ "public" \in reach
  BY <1>3, <1>5, <1>8 DEF Reachable, Attended
<1>9. CASE ~alone /\ "public" \notin reach
  <2>1. Crossing
    BY <1>2, <1>9 DEF TransportInv, CrossedInv
  <2>2. \A c \in Commands : ~Carries(c)
    BY <1>1 DEF Carries
  <2>3. \A e \in Edges : ~Brings(e)
    BY <1>1 DEF Brings, Living, Listening, Is
  <2>4. Forwards # {}
    BY <2>1, <2>2, <2>3 DEF Crossing
  <2> QED BY <1>3, <2>4 DEF Reachable, Attended, Forwards
<1> QED BY <1>7, <1>8, <1>9

\* What a run has found to lead to the router still leads there when all is
\* quiet, whatever runs replace, stop and restore at once or in turn, as long as
\* nothing fails and nothing is removed (ensureWSLPublicTransport).
THEOREM TransportStays == SessionSpec => []TransportKept
<1>1. SessionInit => Inv /\ CommandsInv /\ TransportInv
  BY InitInv, CommandsInit, TransportInit DEF SessionInit
<1>2. /\ Inv /\ CommandsInv /\ TransportInv /\ [SessionNext]_allVars
      => (Inv /\ CommandsInv /\ TransportInv)'
  <2> SUFFICES ASSUME Inv, CommandsInv, TransportInv, [SessionNext]_allVars
               PROVE  Inv' /\ CommandsInv' /\ TransportInv'
    OBVIOUS
  <2>1. Inv'
    BY StepInv
  <2>2. TypeInv /\ TypeInv'
    BY <2>1 DEF Inv
  <2> QED BY <2>1, <2>2, SessionSteps, CommandsStep, TransportStep
<1>3. Inv /\ CommandsInv /\ TransportInv => TransportKept
  BY TransportIsKept DEF Inv
<1> QED BY <1>1, <1>2, <1>3, PTL DEF SessionSpec

=============================================================================
