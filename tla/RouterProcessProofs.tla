------------------------- MODULE RouterProcessProofs -------------------------
(***************************************************************************)
(* What RouterProcess keeps for any number of routers, commands and faults.*)
(* The invariant InstanceKept rests on the ports: because no two routers   *)
(* have the admin port, none publishes while another serves.  The promises *)
(* of a stop rest on ToldGone: from what a command has seen it follows at  *)
(* each of its later steps that the router it stops has ended, since a     *)
(* router that has ended does not come back.  StopTakesEffect needs what a *)
(* stop knows of the routers that served when it began (Past), and         *)
(* StartsSucceed that a router fails only while another, which has the     *)
(* port, is on its way to serve (Easy).                                    *)
(***************************************************************************)
EXTENDS RouterProcess, TLAPS

-----------------------------------------------------------------------------
(* The inductive invariant *)

\* Routers that a record or a command names have been started.
PIDHeld == pid # None => Phase(pid) # "none"
Held(c) ==
    /\ cmd[c].saw # None => Phase(cmd[c].saw) # "none"
    /\ cmd[c].target # None => Phase(cmd[c].target) # "none"
    /\ At(c, "record") => cmd[c].target # None

\* What was recorded before the last boot has ended.
OldGone == old /\ pid # None => pid \notin Living

\* The router a command has read of has ended, as soon as the command has
\* found that it is not behind the record, or has waited for its end.
Asks == {"ask", "unit", "unitStopping", "judge"}
Afterwards == {"forget", "stopped", "nothing", "unconfirmed", "removed", "wiped"}
ToldGone(c) ==
    \/ cmd[c].saw \notin Living
    \/ /\ ~(At(c, "inspect") /\ cmd[c].boot)
       /\ cmd[c].step \in Asks => cmd[c].found = "matched"
       /\ cmd[c].step \notin Afterwards

IInv ==
    /\ TypeOK /\ InstanceKept /\ PIDHeld /\ OldGone
    /\ \A c \in Commands : Held(c) /\ ToldGone(c)

\* What a step may make of a router: it comes nearer to its end, and takes a
\* port only when no router has it, and alone.
OnlyPhaseOf(r) == \A q \in Routers \ {r} : proc'[q].phase = Phase(q)
Onward ==
    {<<"bound", "publishing">>, <<"publishing", "serving">>, <<"serving", "closing">>,
     <<"closing", "drained">>, <<"drained", "closed">>}
Becomes(r) ==
    \/ proc'[r].phase = Phase(r)
    \/ Phase(r) # "none" /\ proc'[r].phase \in {"gone", "failed"}
    \/ Phase(r) = "none" /\ proc'[r].phase = "begun"
    \/ <<Phase(r), proc'[r].phase>> \in Onward
    \/ Phase(r) = "begun" /\ proc'[r].phase = "http" /\ Is(HTTPOpen) = {} /\ OnlyPhaseOf(r)
    \/ Phase(r) = "http" /\ proc'[r].phase = "bound" /\ Is(AdminOpen) = {} /\ OnlyPhaseOf(r)

\* None is the number of no router.
LEMMA NoneIsNoRouter == None \notin Routers
BY RouterAssumption DEF None

\* What the steps of routers and commands that change one field do.
LEMMA GoesOn ==
    ASSUME proc \in [Routers -> Process],
           NEW r \in Routers, NEW phase \in Phases, Goes(r, phase)
    PROVE  /\ proc' \in [Routers -> Process]
           /\ proc'[r] = [proc[r] EXCEPT !.phase = phase]
           /\ proc'[r].phase = phase /\ proc'[r].token = proc[r].token
           /\ \A q \in Routers \ {r} : proc'[q] = proc[q]
<1>1. proc[r] \in Process
  OBVIOUS
<1>2. [proc[r] EXCEPT !.phase = phase] \in Process
  BY <1>1 DEF Process
<1> QED BY <1>1, <1>2 DEF Goes, Process

LEMMA GoesThrough ==
    ASSUME cmd \in [Commands -> Call],
           NEW c \in Commands, NEW step \in StepNames, Steps(c, step)
    PROVE  /\ cmd' \in [Commands -> Call]
           /\ cmd'[c] = [cmd[c] EXCEPT !.step = step]
           /\ cmd'[c].step = step /\ cmd'[c].saw = cmd[c].saw
           /\ cmd'[c].target = cmd[c].target /\ cmd'[c].found = cmd[c].found
           /\ cmd'[c].boot = cmd[c].boot
           /\ \A d \in Commands \ {c} : cmd'[d] = cmd[d]
<1>1. cmd[c] \in Call
  OBVIOUS
<1>2. [cmd[c] EXCEPT !.step = step] \in Call
  BY <1>1 DEF Call
<1> QED BY <1>1, <1>2 DEF Steps, Call

\* A fault is one of those allowed, and a new process is one.
LEMMA AnotherFault == faults \in 0 .. MaxFaults /\ Another => faults' \in 0 .. MaxFaults
BY RouterAssumption DEF Another

LEMMA BegunTyped == \A m \in BOOLEAN : Begun(m) \in Process
BY DEF Begun, Process, Phases

\* Starting a process that no router has been yet, and shutting several down.
LEMMA LaunchesTyped ==
    ASSUME proc \in [Routers -> Process], cmd \in [Commands -> Call],
           NEW c \in Commands, Launches(c)
    PROVE  proc' \in [Routers -> Process] /\ cmd' \in [Commands -> Call]
<1>1. CASE Steps(c, "cut") /\ UNCHANGED proc
  BY <1>1, GoesThrough DEF StepNames
<1>2. CASE \E r \in Routers :
              /\ Fresh(r)
              /\ proc' = [proc EXCEPT ![r] = Begun(FALSE)]
              /\ cmd' = [cmd EXCEPT ![c].step = "record", ![c].target = r]
  <2>1. PICK r \in Routers :
           /\ proc' = [proc EXCEPT ![r] = Begun(FALSE)]
           /\ cmd' = [cmd EXCEPT ![c].step = "record", ![c].target = r]
    BY <1>2
  <2>2. Begun(FALSE) \in Process
    BY BegunTyped
  <2>3. cmd[c] \in Call
    OBVIOUS
  <2>4. cmd'[c] \in Call
    BY <2>1, <2>3 DEF Call, StepNames
  <2>5. \A d \in Commands \ {c} : cmd'[d] = cmd[d]
    BY <2>1
  <2>6. proc' \in [Routers -> Process]
    BY <2>1, <2>2
  <2>7. cmd' \in [Commands -> Call]
    BY <2>1, <2>4, <2>5
  <2> QED BY <2>6, <2>7
<1> QED BY <1>1, <1>2 DEF Launches

LEMMA ClosingTyped ==
    ASSUME proc \in [Routers -> Process], NEW asked
    PROVE  Closing(asked) \in [Routers -> Process]
BY DEF Closing, Process, Phases, HTTPOpen

\* A command that reads the record remembers routers.
LEMMA ReadsTyped ==
    ASSUME cmd \in [Commands -> Call], NEW c \in Commands, NEW k \in Kinds,
           pid \in Routers \cup {None}, old \in BOOLEAN, NEW served \in SUBSET Routers,
           cmd' = [cmd EXCEPT ![c].kind = k, ![c].step = "inspect",
                              ![c].saw = pid, ![c].boot = old, ![c].before = served]
    PROVE  cmd' \in [Commands -> Call]
<1>1. cmd[c] \in Call /\ "inspect" \in StepNames
  BY DEF StepNames
<1>2. [cmd[c] EXCEPT !.kind = k, !.step = "inspect", !.saw = pid, !.boot = old,
                     !.before = served] \in Call
  BY <1>1 DEF Call
<1> QED BY <1>2

\* Every action keeps the types.
LEMMA StepTyped ==
    ASSUME Typed, [Next]_vars
    PROVE  Typed'
<1> USE RouterAssumption DEF Typed, vars, records, service, At, None
<1>1. ASSUME NEW r \in Routers,
             Runs(r) \/ PublishFails(r) \/ Crash(r) \/ Restart(r) \/ NoRestart(r)
      PROVE  Typed'
  <2>1. CASE ListenHTTP(r)
    <3>1. proc[r] \in Process
      OBVIOUS
    <3>2. proc'[r] \in Process
      BY <2>1, <3>1 DEF ListenHTTP, Process, Phases, Ended, HTTPOpen, AdminOpen
    <3>3. \A q \in Routers \ {r} : proc'[q] = proc[q]
      BY <2>1 DEF ListenHTTP
    <3>4. proc' \in [Routers -> Process]
      BY <2>1, <3>2, <3>3 DEF ListenHTTP
    <3> QED BY <2>1, <3>4 DEF ListenHTTP
  <2>2. CASE \/ ListenAdmin(r) \/ PublishPID(r) \/ PublishInstance(r)
             \/ CloseTold(r) \/ CloseHTTP(r) \/ CloseAdmin(r)
    BY <2>2, GoesOn, GoesThrough
       DEF ListenAdmin, PublishPID, PublishInstance, CloseTold, CloseHTTP, CloseAdmin,
           Phases, Ended, HTTPOpen, AdminOpen
  <2>3. CASE PublishFails(r)
    <3>1. proc' \in [Routers -> Process]
      BY <2>3, GoesOn DEF PublishFails, Phases, Ended, HTTPOpen, AdminOpen
    <3>2. faults' \in 0 .. MaxFaults
      BY <2>3, AnotherFault DEF PublishFails
    <3>3. pid' \in Routers \cup {None} /\ instance' \in Routers \cup {None}
      BY <2>3 DEF PublishFails
    <3> QED BY <2>3, <3>1, <3>2, <3>3 DEF PublishFails
  <2>4. CASE Release(r) \/ Obey(r) \/ NoRestart(r)
    BY <2>4, GoesOn, GoesThrough
       DEF Release, Obey, NoRestart, Phases, Ended, HTTPOpen, AdminOpen
  <2>5. CASE Crash(r)
    BY <2>5, GoesOn, GoesThrough, AnotherFault DEF Crash, Phases, Ended, HTTPOpen, AdminOpen
  <2>6. CASE Restart(r)
    <3>1. PICK q \in Is({"failed"}) : proc' = [proc EXCEPT ![q].phase = "gone", ![r] = Begun(TRUE)]
      BY <2>6 DEF Restart
    <3>2. q \in Routers /\ q # r
      BY <2>6 DEF Is, Restart, Fresh, Phase
    <3>3. proc'[r] = Begun(TRUE)
      BY <3>1, <3>2
    <3>4. proc'[q] \in Process
      BY <3>1, <3>2 DEF Process, Phases, Ended, HTTPOpen, AdminOpen
    <3>5. \A p \in Routers \ {q, r} : proc'[p] = proc[p]
      BY <3>1, <3>2
    <3>6. Begun(TRUE) \in Process
      BY BegunTyped
    <3>7. proc' \in [Routers -> Process]
      BY <3>1, <3>2, <3>3, <3>4, <3>5, <3>6
    <3> QED BY <2>6, <3>7 DEF Restart
  <2> QED BY <1>1, <2>1, <2>2, <2>3, <2>4, <2>5, <2>6 DEF Runs
<1>2. ASSUME NEW c \in Commands,
             \/ Look(c) \/ ReadRecord(c) \/ Starts(c) \/ Stops(c)
             \/ RecordFails(c) \/ AskFails(c) \/ Interrupt(c)
      PROVE  Typed'
  <2>1. CASE Look(c)
    <3>1. cmd[c] \in Call
      OBVIOUS
    <3>2. cmd'[c] \in Call
      BY <2>1, <3>1 DEF Look, Call, StepNames, Kinds
    <3>3. \A d \in Commands \ {c} : cmd'[d] = cmd[d]
      BY <2>1 DEF Look
    <3>4. cmd' \in [Commands -> Call]
      BY <2>1, <3>2, <3>3 DEF Look
    <3> QED BY <2>1, <3>4 DEF Look
  <2>2. CASE ReadRecord(c)
    <3>1. cmd[c] \in Call /\ Serving \in SUBSET Routers
      BY DEF Serving, Is
    <3>2. PICK k \in Kinds \ {"run"} :
             cmd' = [cmd EXCEPT ![c].kind = k, ![c].step = "inspect",
                                ![c].saw = pid, ![c].boot = old, ![c].before = Serving]
      BY <2>2 DEF ReadRecord
    <3>3. cmd' \in [Commands -> Call]
      BY <3>1, <3>2, ReadsTyped
    <3> QED BY <2>2, <3>3 DEF ReadRecord
  <2>3. CASE Launch(c)
    <3>1. CASE Launches(c)
      BY <2>3, <3>1, LaunchesTyped DEF Launch
    <3>2. CASE Steps(c, "setup") /\ UNCHANGED proc
      BY <2>3, <3>2, GoesThrough DEF Launch, StepNames
    <3> QED BY <2>3, <3>1, <3>2 DEF Launch
  <2>4. CASE Record(c)
    <3>1. cmd' \in [Commands -> Call]
      BY <2>4, GoesThrough DEF Record, StepNames
    <3>2. cmd[c].target \in Routers \cup {None}
      BY DEF Call
    <3> QED BY <2>4, <3>1, <3>2 DEF Record
  <2>5. CASE RecordFails(c)
    <3>1. cmd' \in [Commands -> Call]
      BY <2>5, GoesThrough DEF RecordFails, StepNames
    <3>2. cmd[c].target \in Living => cmd[c].target \in Routers
      BY DEF Living
    <3>3. proc' \in [Routers -> Process]
      BY <2>5, <3>2, GoesOn DEF RecordFails, Phases, Ended, HTTPOpen, AdminOpen
    <3>4. faults' \in 0 .. MaxFaults
      BY <2>5, AnotherFault DEF RecordFails
    <3> QED BY <2>5, <3>1, <3>3, <3>4 DEF RecordFails
  <2>6. CASE \/ WaitReady(c) \/ WaitFails(c) \/ Judge(c)
             \/ GraceEnds(c) \/ Refresh(c) \/ Remove(c)
    <3>1. PICK step \in {"done", "failed", "setup", "grace", "signal", "forget", "removed"} :
             Steps(c, step)
      BY <2>6 DEF WaitReady, WaitFails, Judge, GraceEnds, Refresh, Remove
    <3>2. step \in StepNames
      BY DEF StepNames
    <3>4. cmd' \in [Commands -> Call]
      BY <3>1, <3>2, GoesThrough
    <3> QED BY <2>6, <3>4 DEF WaitReady, WaitFails, Judge, GraceEnds, Refresh, Remove
  <2>7. CASE SetUp(c)
    <3>1. cmd[c] \in Call
      OBVIOUS
    <3>2. cmd'[c] \in Call
      BY <2>7, <3>1 DEF SetUp, Call, StepNames
    <3>3. \A d \in Commands \ {c} : cmd'[d] = cmd[d]
      BY <2>7 DEF SetUp
    <3>4. cmd' \in [Commands -> Call]
      BY <2>7, <3>2, <3>3 DEF SetUp
    <3> QED BY <2>7, <3>4 DEF SetUp
  <2>8. CASE Install(c)
    <3>1. disk' \in [binary : BOOLEAN, state : BOOLEAN] /\ UNCHANGED <<pid, old, instance, systemd>>
      BY <2>8 DEF Install
    <3>2. CASE StartUnit(c)
      <4>1. cmd' \in [Commands -> Call]
        BY <3>2, GoesThrough DEF StartUnit, StepNames
      <4>2. proc' \in [Routers -> Process]
        BY <3>2, BegunTyped DEF StartUnit
      <4> QED BY <3>1, <3>2, <4>1, <4>2 DEF StartUnit
    <3>3. CASE Launches(c) /\ UNCHANGED <<unit, faults>>
      BY <3>1, <3>3, LaunchesTyped
    <3>4. CASE /\ Another
               /\ unit' = IF unit = "none" THEN "loaded" ELSE unit
               /\ Launches(c)
      <4>1. unit' \in {"none", "loaded", "active"}
        BY <3>4
      <4> QED BY <3>1, <3>4, <4>1, LaunchesTyped, AnotherFault
    <3> QED BY <2>8, <3>2, <3>3, <3>4 DEF Install
  <2>9. CASE Inspect(c)
    <3>1. CASE Steps(c, "failed")
      BY <2>9, <3>1, GoesThrough DEF Inspect, StepNames
    <3>2. CASE ~Steps(c, "failed")
      <4>1. PICK f \in {"absent", "matched", "other", "unknown"} :
               cmd' = [cmd EXCEPT ![c].step = "ask",
                                  ![c].found = IF f = "unknown" THEN "other" ELSE f,
                                  ![c].boot = (f = "unknown")]
        BY <2>9, <3>2 DEF Inspect
      <4>2. cmd[c] \in Call
        OBVIOUS
      <4>3. cmd'[c] \in Call
        <5>1. "ask" \in StepNames
          BY DEF StepNames
        <5>2. cmd'[c] = [cmd[c] EXCEPT !.step = "ask",
                           !.found = IF f = "unknown" THEN "other" ELSE f, !.boot = (f = "unknown")]
          BY <4>1
        <5> QED BY <4>2, <5>1, <5>2 DEF Call
      <4>4. \A d \in Commands \ {c} : cmd'[d] = cmd[d]
        BY <4>1
      <4>5. cmd' \in [Commands -> Call]
        BY <4>1, <4>3, <4>4
      <4> QED BY <2>9, <4>5 DEF Inspect
    <3> QED BY <3>1, <3>2
  <2>10. CASE Ask(c)
    <3>1. proc' \in [Routers -> Process]
      BY <2>10, ClosingTyped DEF Ask
    <3>2. cmd[c] \in Call
      OBVIOUS
    <3>3. cmd'[c] \in Call
      <4>1. AfterAsking(c) \in StepNames
        BY DEF AfterAsking, StepNames
      <4>2. cmd'[c] = [cmd[c] EXCEPT !.step = AfterAsking(c), !.accepted = Asked # {}]
        BY <2>10 DEF Ask
      <4> QED BY <3>2, <4>1, <4>2 DEF Call
    <3>4. \A d \in Commands \ {c} : cmd'[d] = cmd[d]
      BY <2>10 DEF Ask
    <3>5. cmd' \in [Commands -> Call]
      BY <2>10, <3>3, <3>4 DEF Ask
    <3> QED BY <2>10, <3>1, <3>5 DEF Ask
  <2>11. CASE AskFails(c)
    <3>1. proc' \in [Routers -> Process]
      BY <2>11, ClosingTyped DEF AskFails
    <3>2. cmd' \in [Commands -> Call]
      BY <2>11, GoesThrough DEF AskFails, AfterAsking, StepNames
    <3> QED BY <2>11, <3>1, <3>2, AnotherFault DEF AskFails
  <2>12. CASE StopUnit(c)
    <3>1. cmd' \in [Commands -> Call]
      BY <2>12, GoesThrough DEF StopUnit, StepNames
    <3>2. \A r \in Routers : [proc[r] EXCEPT !.told = TRUE] \in Process
      <4> SUFFICES ASSUME NEW r \in Routers PROVE [proc[r] EXCEPT !.told = TRUE] \in Process
        OBVIOUS
      <4>1. proc[r] \in Process
        OBVIOUS
      <4> QED BY <4>1 DEF Process
    <3>3. proc' \in [Routers -> Process] /\ unit' \in {"none", "loaded", "active"}
      BY <2>12, <3>2 DEF StopUnit
    <3> QED BY <2>12, <3>1, <3>3 DEF StopUnit
  <2>13. CASE UnitStopped(c)
    <3>1. cmd[c] \in Call
      OBVIOUS
    <3>2. cmd'[c] \in Call
      BY <2>13, <3>1 DEF UnitStopped, Call, StepNames
    <3>3. \A d \in Commands \ {c} : cmd'[d] = cmd[d]
      BY <2>13 DEF UnitStopped
    <3>4. cmd' \in [Commands -> Call]
      BY <2>13, <3>2, <3>3 DEF UnitStopped
    <3> QED BY <2>13, <3>4, AnotherFault DEF UnitStopped
  <2>14. CASE Signal(c)
    <3>1. cmd' \in [Commands -> Call]
      BY <2>14, GoesThrough DEF Signal, StepNames
    <3>2. CASE cmd[c].saw \in Living
      <4>1. cmd[c].saw \in Routers /\ proc[cmd[c].saw] \in Process
        BY <3>2 DEF Living
      <4>2. [proc[cmd[c].saw] EXCEPT !.told = TRUE] \in Process
        BY <4>1 DEF Process
      <4> QED BY <2>14, <3>1, <3>2, <4>1, <4>2 DEF Signal
    <3>3. CASE cmd[c].saw \notin Living
      BY <2>14, <3>1, <3>3 DEF Signal
    <3> QED BY <3>2, <3>3
  <2>15. CASE Signalled(c) \/ Interrupt(c)
    BY <2>15, GoesOn, GoesThrough, AnotherFault DEF Signalled, Interrupt, StepNames
  <2>16. CASE Forget(c)
    BY <2>16, GoesOn, GoesThrough DEF Forget, Verdict, StepNames
  <2>17. CASE RemoveState(c)
    <3>1. cmd' \in [Commands -> Call]
      BY <2>17, GoesThrough DEF RemoveState, StepNames
    <3>2. \A r \in Routers : [proc[r] EXCEPT !.token = FALSE] \in Process
      <4> SUFFICES ASSUME NEW r \in Routers PROVE [proc[r] EXCEPT !.token = FALSE] \in Process
        OBVIOUS
      <4>1. proc[r] \in Process
        OBVIOUS
      <4> QED BY <4>1 DEF Process
    <3>4. proc' \in [Routers -> Process]
      BY <2>17, <3>2 DEF RemoveState
    <3>3. disk' \in [binary : BOOLEAN, state : BOOLEAN]
      BY <2>17 DEF RemoveState
    <3> QED BY <2>17, <3>1, <3>3, <3>4 DEF RemoveState
  <2> QED BY <1>2, <2>1, <2>2, <2>3, <2>4, <2>5, <2>6, <2>7, <2>8, <2>9, <2>10, <2>11, <2>12,
             <2>13, <2>14, <2>15, <2>16, <2>17 DEF Starts, Stops
<1>3. CASE Reboot
  <2>1. \A c \in Commands : [cmd[c] EXCEPT !.step = "failed"] \in Call
    BY DEF Call, StepNames
  <2>2. cmd' \in [Commands -> Call]
    BY <1>3, <2>1 DEF Reboot
  <2>3. proc' \in [Routers -> Process]
      <4>1. \A r \in Routers : [proc[r] EXCEPT !.phase = "gone"] \in Process
        BY DEF Process, Phases, Ended
      <4>2. [r \in Routers |->
               IF Phase(r) = "none" THEN proc[r] ELSE [proc[r] EXCEPT !.phase = "gone"]]
            \in [Routers -> Process]
        BY <4>1
      <4> QED BY <1>3, <4>2, BegunTyped DEF Reboot
  <2>4. unit' \in {"none", "loaded", "active"}
    BY <1>3 DEF Reboot
  <2>5. old' \in BOOLEAN
    BY <1>3 DEF Reboot
  <2> QED BY <1>3, <2>2, <2>3, <2>4, <2>5, AnotherFault DEF Reboot
<1>4. CASE AllDone \/ UNCHANGED vars
  BY <1>4 DEF AllDone
<1> QED BY <1>1, <1>2, <1>3, <1>4 DEF Next

\* Becomes, action by action.
LEMMA SameBecomes == UNCHANGED proc => \A s \in Routers : Becomes(s)
BY DEF Becomes, Phase

LEMMA LaunchesBecomes ==
    ASSUME proc \in [Routers -> Process], NEW c \in Commands, Launches(c)
    PROVE  \A s \in Routers : Becomes(s)
BY DEF Launches, Becomes, Begun, Fresh, Phase

LEMMA ClosingBecomes ==
    ASSUME proc \in [Routers -> Process], NEW asked, proc' = Closing(asked)
    PROVE  \A s \in Routers : Becomes(s)
BY DEF Closing, Becomes, Onward, Serving, Is, Phase, Process

LEMMA RebootEnds ==
    ASSUME proc \in [Routers -> Process], NEW s \in Routers, Reboot
    PROVE  IF Phase(s) = "none" THEN proc'[s].phase \in {"none", "begun"}
           ELSE proc'[s].phase = "gone"
<1> DEFINE ended == [r \in Routers |->
                       IF Phase(r) = "none" THEN proc[r] ELSE [proc[r] EXCEPT !.phase = "gone"]]
<1>1. ended[s].phase = IF Phase(s) = "none" THEN "none" ELSE "gone"
  BY DEF Process, Phase
<1>2. CASE proc' = ended
  BY <1>1, <1>2
<1>3. CASE \E r \in Routers : Fresh(r) /\ proc' = [ended EXCEPT ![r] = Begun(TRUE)]
  <2>1. PICK r \in Routers : Fresh(r) /\ proc' = [ended EXCEPT ![r] = Begun(TRUE)]
    BY <1>3
  <2>2. CASE s = r
    BY <2>1, <2>2 DEF Begun, Fresh
  <2>3. CASE s # r
    BY <1>1, <2>1, <2>3
  <2> QED BY <2>2, <2>3
<1> QED BY <1>2, <1>3 DEF Reboot

LEMMA GoesBecomes ==
    ASSUME proc \in [Routers -> Process], NEW r \in Routers, NEW phase \in Phases, Goes(r, phase),
           \/ Phase(r) # "none" /\ phase \in {"gone", "failed"}
           \/ <<Phase(r), phase>> \in Onward
           \/ Phase(r) = "http" /\ phase = "bound" /\ Is(AdminOpen) = {}
    PROVE  \A s \in Routers : Becomes(s)
<1>1. proc'[r].phase = phase /\ \A q \in Routers \ {r} : proc'[q] = proc[q]
  BY GoesOn
<1>2. OnlyPhaseOf(r)
  BY <1>1 DEF OnlyPhaseOf, Phase
<1>3. \A s \in Routers \ {r} : Becomes(s)
  BY <1>1 DEF Becomes, Phase
<1>4. Becomes(r)
  BY <1>1, <1>2 DEF Becomes
<1> QED BY <1>3, <1>4

LEMMA RouterBecomes ==
    ASSUME Typed, NEW r \in Routers,
           Runs(r) \/ PublishFails(r) \/ Crash(r) \/ Restart(r) \/ NoRestart(r)
    PROVE  \A s \in Routers : Becomes(s)
<1>1. proc \in [Routers -> Process]
  BY DEF Typed
<1>2. {"gone", "failed", "bound", "publishing", "serving", "closing", "drained", "closed"} \subseteq Phases
  BY DEF Phases, Ended, HTTPOpen, AdminOpen
<1>3. CASE ListenHTTP(r)
  BY <1>1, <1>3 DEF ListenHTTP, Becomes, OnlyPhaseOf, Phase, Process
<1>4. CASE ListenAdmin(r)
  <2>1. PICK phase \in {"bound", "failed"} :
           Goes(r, phase) /\ Phase(r) = "http" /\ (phase = "bound" => Is(AdminOpen) = {})
    BY <1>4 DEF ListenAdmin
  <2> QED BY <1>1, <1>2, <2>1, GoesBecomes
<1>5. CASE \/ PublishPID(r) \/ PublishInstance(r)
           \/ CloseTold(r) \/ CloseHTTP(r) \/ CloseAdmin(r)
  <2>1. \E phase \in {"publishing", "serving", "closing", "drained", "closed"} :
           Goes(r, phase) /\ <<Phase(r), phase>> \in Onward
    BY <1>5 DEF PublishPID, PublishInstance, CloseTold, CloseHTTP, CloseAdmin, Onward
  <2> QED BY <1>1, <1>2, <2>1, GoesBecomes
<1>6. CASE PublishFails(r) \/ Release(r) \/ NoRestart(r) \/ Obey(r) \/ Crash(r)
  <2>1. Phase(r) # "none" /\ \E phase \in {"gone", "failed"} : Goes(r, phase)
    BY <1>6 DEF PublishFails, Release, NoRestart, Obey, Crash, Living, Is, Ended
  <2> QED BY <1>1, <1>2, <2>1, GoesBecomes
<1>7. CASE Restart(r)
  BY <1>1, <1>7 DEF Restart, Becomes, Phase, Is, Begun, Fresh, Process
<1> QED BY <1>3, <1>4, <1>5, <1>6, <1>7 DEF Runs

LEMMA StepBecomes ==
    ASSUME Typed, [Next]_vars
    PROVE  \A s \in Routers : Becomes(s)
<1> USE DEF Typed, vars, At
<1>1. ASSUME NEW r \in Routers,
             Runs(r) \/ PublishFails(r) \/ Crash(r) \/ Restart(r) \/ NoRestart(r)
      PROVE  \A s \in Routers : Becomes(s)
  BY <1>1, RouterBecomes
<1>2. ASSUME NEW c \in Commands,
             \/ Look(c) \/ ReadRecord(c) \/ Starts(c) \/ Stops(c)
             \/ RecordFails(c) \/ AskFails(c) \/ Interrupt(c)
      PROVE  \A s \in Routers : Becomes(s)
  <2>1. CASE \/ Look(c) \/ ReadRecord(c) \/ Record(c)
             \/ WaitReady(c) \/ WaitFails(c) \/ SetUp(c)
    BY <2>1, SameBecomes DEF Look, ReadRecord, Record, WaitReady, WaitFails, SetUp
  <2>2. CASE Launch(c)
    BY <2>2, LaunchesBecomes, SameBecomes DEF Launch
  <2>3. CASE RecordFails(c)
    <3>1. CASE cmd[c].target \in Living
      <4>1. cmd[c].target \in Routers /\ Phase(cmd[c].target) # "none"
        BY <3>1 DEF Living, Is, Ended
      <4>2. Goes(cmd[c].target, "failed") /\ "failed" \in Phases
        BY <2>3, <3>1 DEF RecordFails, Phases, Ended
      <4> QED BY <4>1, <4>2, GoesBecomes
    <3>2. CASE cmd[c].target \notin Living
      BY <2>3, <3>2, SameBecomes DEF RecordFails
    <3> QED BY <3>1, <3>2
  <2>4. CASE Install(c)
    BY <2>4, LaunchesBecomes DEF Install, StartUnit, Begun, Becomes, Phase, Fresh
  <2>5. CASE \/ Inspect(c) \/ UnitStopped(c) \/ Judge(c)
             \/ GraceEnds(c) \/ Signalled(c) \/ Forget(c)
    BY <2>5, SameBecomes DEF Inspect, UnitStopped, Judge, GraceEnds, Signalled, Forget
  <2>6. CASE Ask(c) \/ AskFails(c)
    BY <2>6, ClosingBecomes DEF Ask, AskFails
  <2>7. CASE StopUnit(c) \/ RemoveState(c)
    BY <2>7 DEF StopUnit, RemoveState, Becomes, Phase, Process
  <2>8. CASE Signal(c)
    BY <2>8 DEF Signal, Becomes, Phase, Process, Living
  <2>9. CASE Refresh(c) \/ Remove(c) \/ Interrupt(c)
    BY <2>9, SameBecomes DEF Refresh, Remove, Interrupt
  <2> QED BY <1>2, <2>1, <2>2, <2>3, <2>4, <2>5, <2>6, <2>7, <2>8, <2>9 DEF Starts, Stops
<1>3. CASE Reboot
  BY <1>3, RebootEnds DEF Becomes, Phase
<1>4. CASE AllDone \/ UNCHANGED vars
  BY <1>4, SameBecomes DEF AllDone
<1> QED BY <1>1, <1>2, <1>3, <1>4 DEF Next

-----------------------------------------------------------------------------
(* The ports, and the end of a router *)

\* Whoever has a port had it before, or is the only one that moved and found
\* it free.
LEMMA StepPorts ==
    ASSUME TypeOK, [Next]_vars
    PROVE  PortsOwned'
<1>1. Typed /\ \A s \in Routers : Becomes(s)
  BY StepBecomes DEF TypeOK
<1>2. ASSUME NEW q \in Routers, NEW r \in Routers, q # r,
             proc'[q].phase \in HTTPOpen, proc'[r].phase \in HTTPOpen
      PROVE  FALSE
  <2>1. ASSUME NEW s \in Routers, proc'[s].phase \in HTTPOpen
        PROVE  Phase(s) \in HTTPOpen \/ (Is(HTTPOpen) = {} /\ OnlyPhaseOf(s))
    <3>1. Becomes(s)
      BY <1>1
    <3>2. <<Phase(s), proc'[s].phase>> \in Onward => Phase(s) \in HTTPOpen
      BY <2>1 DEF Onward, HTTPOpen
    <3> QED BY <2>1, <3>1, <3>2 DEF Becomes, HTTPOpen
  <2>2. ~(Phase(q) \in HTTPOpen /\ Phase(r) \in HTTPOpen)
    BY <1>2 DEF TypeOK, PortsOwned, Is
  <2>3. Phase(q) \notin HTTPOpen /\ Phase(r) \notin HTTPOpen
    BY <1>2, <2>1, <2>2 DEF OnlyPhaseOf, Is
  <2> QED BY <1>2, <2>1, <2>3 DEF OnlyPhaseOf
<1>3. ASSUME NEW q \in Routers, NEW r \in Routers, q # r,
             proc'[q].phase \in AdminOpen, proc'[r].phase \in AdminOpen
      PROVE  FALSE
  <2>1. ASSUME NEW s \in Routers, proc'[s].phase \in AdminOpen
        PROVE  Phase(s) \in AdminOpen \/ (Is(AdminOpen) = {} /\ OnlyPhaseOf(s))
    <3>1. Becomes(s)
      BY <1>1
    <3>2. <<Phase(s), proc'[s].phase>> \in Onward => Phase(s) \in AdminOpen
      BY <2>1 DEF Onward, AdminOpen
    <3> QED BY <2>1, <3>1, <3>2 DEF Becomes, AdminOpen
  <2>2. ~(Phase(q) \in AdminOpen /\ Phase(r) \in AdminOpen)
    BY <1>3 DEF TypeOK, PortsOwned, Is
  <2>3. Phase(q) \notin AdminOpen /\ Phase(r) \notin AdminOpen
    BY <1>3, <2>1, <2>2 DEF OnlyPhaseOf, Is
  <2> QED BY <1>3, <2>1, <2>3 DEF OnlyPhaseOf
<1> QED BY <1>2, <1>3 DEF PortsOwned, Is, Phase

\* A router that has ended does not come back.
LEMMA StepEnds ==
    ASSUME Typed, [Next]_vars, NEW r
    PROVE  /\ r \in Routers /\ Phase(r) # "none" => proc'[r].phase # "none"
           /\ r \notin Living /\ (r \in Routers => Phase(r) # "none") => r \notin Living'
<1>1. CASE r \in Routers
  <2>1. Becomes(r)
    BY <1>1, StepBecomes
  <2> QED BY <1>1, <2>1 DEF Becomes, Onward, Living, Is, Ended, Phase
<1>2. CASE r \notin Routers
  BY <1>2 DEF Living
<1> QED BY <1>1, <1>2

-----------------------------------------------------------------------------
(* router.instance *)

\* Who serves after a process was started, or after one changed its phase.
LEMMA LaunchesToken ==
    ASSUME proc \in [Routers -> Process], NEW c \in Commands, Launches(c),
           NEW s \in Routers, proc'[s].phase = "serving"
    PROVE  proc'[s] = proc[s]
BY DEF Launches, Begun

LEMMA GoesServes ==
    ASSUME proc \in [Routers -> Process], NEW r \in Routers, NEW phase \in Phases,
           Goes(r, phase), NEW s \in Routers, proc'[s].phase = "serving"
    PROVE  (s = r /\ phase = "serving" /\ proc'[s].token = proc[s].token) \/ proc'[s] = proc[s]
BY GoesOn

\* A router that serves after a step has just published its records, or it
\* served before; it is given its token before it takes a port.
LEMMA StepServes ==
    ASSUME Typed, [Next]_vars, NEW s \in Routers, proc'[s].phase = "serving"
    PROVE  \/ Phase(s) = "serving" /\ (proc'[s].token => proc[s].token)
           \/ Phase(s) = "publishing" /\ instance' = s
<1> USE DEF Typed, vars, At
<1>1. ASSUME NEW r \in Routers,
             Runs(r) \/ PublishFails(r) \/ Crash(r) \/ Restart(r) \/ NoRestart(r)
      PROVE  \/ Phase(s) = "serving" /\ (proc'[s].token => proc[s].token)
             \/ Phase(s) = "publishing" /\ instance' = s
  <2>1. CASE ListenHTTP(r)
    BY <2>1 DEF ListenHTTP, Phase, Process
  <2>2. CASE \/ ListenAdmin(r) \/ PublishPID(r) \/ PublishFails(r)
             \/ CloseTold(r) \/ CloseHTTP(r) \/ CloseAdmin(r)
    BY <2>2, GoesServes
       DEF ListenAdmin, PublishPID, PublishFails, CloseTold, CloseHTTP, CloseAdmin, Phase,
           Living, Phases, Ended, HTTPOpen, AdminOpen
  <2>3. CASE PublishInstance(r)
    BY <2>3, GoesServes DEF PublishInstance, Phase, Phases, HTTPOpen
  <2>4. CASE Release(r) \/ Obey(r) \/ Crash(r) \/ NoRestart(r)
    BY <2>4, GoesServes
       DEF Release, Obey, Crash, NoRestart, Phase, Living, Phases, Ended, HTTPOpen,
           AdminOpen
  <2>5. CASE Restart(r)
    BY <2>5 DEF Restart, Phase, Is, Begun, Fresh, Process
  <2> QED BY <1>1, <2>1, <2>2, <2>3, <2>4, <2>5 DEF Runs
<1>2. ASSUME NEW c \in Commands,
             \/ Look(c) \/ ReadRecord(c) \/ Starts(c) \/ Stops(c)
             \/ RecordFails(c) \/ AskFails(c) \/ Interrupt(c)
      PROVE  \/ Phase(s) = "serving" /\ (proc'[s].token => proc[s].token)
             \/ Phase(s) = "publishing" /\ instance' = s
  <2>1. CASE \/ Look(c) \/ ReadRecord(c) \/ Record(c)
             \/ WaitReady(c) \/ WaitFails(c) \/ SetUp(c)
    BY <2>1 DEF Look, ReadRecord, Record, WaitReady, WaitFails, SetUp, Phase
  <2>2. CASE Launch(c)
    BY <2>2, LaunchesToken DEF Launch, Phase
  <2>3. CASE RecordFails(c)
    <3>1. CASE cmd[c].target \in Living
      <4>1. cmd[c].target \in Routers
        BY <3>1 DEF Living
      <4>2. Goes(cmd[c].target, "failed") /\ "failed" \in Phases
        BY <2>3, <3>1 DEF RecordFails, Phases, Ended
      <4> QED BY <4>1, <4>2, GoesOn DEF Phase
    <3>2. CASE cmd[c].target \notin Living
      BY <2>3, <3>2 DEF RecordFails, Phase
    <3> QED BY <3>1, <3>2
  <2>4. CASE Install(c)
    BY <2>4, LaunchesToken DEF Install, StartUnit, Begun, Phase
  <2>5. CASE \/ Inspect(c) \/ UnitStopped(c) \/ Judge(c)
             \/ GraceEnds(c) \/ Signalled(c) \/ Forget(c)
    BY <2>5 DEF Inspect, UnitStopped, Judge, GraceEnds, Signalled, Forget, Phase
  <2>6. CASE Ask(c) \/ AskFails(c)
    BY <2>6 DEF Ask, AskFails, Closing, Process, Phase, Serving, Is
  <2>7. CASE StopUnit(c) \/ RemoveState(c)
    BY <2>7 DEF StopUnit, RemoveState, Process, Phase
  <2>8. CASE Signal(c)
    BY <2>8 DEF Signal, Process, Living, Phase
  <2>9. CASE Refresh(c) \/ Remove(c) \/ Interrupt(c)
    BY <2>9 DEF Refresh, Remove, Interrupt, Phase
  <2> QED BY <1>2, <2>1, <2>2, <2>3, <2>4, <2>5, <2>6, <2>7, <2>8, <2>9 DEF Starts, Stops
<1>3. CASE Reboot
  BY <1>3, RebootEnds
<1>4. CASE AllDone \/ UNCHANGED vars
  BY <1>4 DEF AllDone, Phase
<1> QED BY <1>1, <1>2, <1>3, <1>4 DEF Next

\* Only one router publishes or serves, so that no other writes or releases
\* the record of the one that serves.
LEMMA StepInstance ==
    ASSUME TypeOK, InstanceKept, [Next]_vars
    PROVE  InstanceKept'
<1>1. Typed /\ Typed' /\ \A s \in Routers : Becomes(s)
  BY StepTyped, StepBecomes DEF TypeOK
<1>2. SUFFICES ASSUME NEW r \in Routers, proc'[r].phase = "serving", proc'[r].token
               PROVE  instance' = r
  BY DEF InstanceKept, Serving, Is, Phase
<1>3. \/ Phase(r) = "serving" /\ proc[r].token
      \/ Phase(r) = "publishing" /\ instance' = r
  BY <1>1, <1>2, StepServes
<1>4. \A q \in Routers : Phase(q) \in {"publishing", "serving"} => q = r
  BY <1>3 DEF TypeOK, PortsOwned, Is, AdminOpen
<1>5. Phase(r) = "serving" => instance = r
  BY <1>3 DEF InstanceKept, Serving, Is
<1>6. CASE instance' = instance
  BY <1>3, <1>5, <1>6
<1>7. CASE instance' # instance
  <2>1. \/ \E q \in Routers : PublishInstance(q) \/ PublishFails(q) \/ Release(q)
        \/ \E c \in Commands : RemoveState(c)
    <3>1. ASSUME NEW q \in Routers,
                 Runs(q) \/ PublishFails(q) \/ Crash(q) \/ Restart(q) \/ NoRestart(q)
          PROVE  PublishInstance(q) \/ PublishFails(q) \/ Release(q)
      BY <1>7, <3>1 DEF Runs, records, ListenHTTP, ListenAdmin, PublishPID, CloseTold,
         CloseHTTP, CloseAdmin, Obey, Crash, Restart, NoRestart
    <3>2. ASSUME NEW c \in Commands,
                 Look(c) \/ ReadRecord(c) \/ Starts(c) \/ RecordFails(c) \/ AskFails(c)
                 \/ Interrupt(c)
          PROVE  FALSE
      BY <1>7, <3>2 DEF Starts, records, Look, ReadRecord, Launch, Record, RecordFails,
         WaitReady, WaitFails, SetUp, Install, AskFails, Interrupt
    <3>3. ASSUME NEW c \in Commands, Stops(c)
          PROVE  RemoveState(c)
      BY <1>7, <3>3 DEF Stops, records, Inspect, Ask, StopUnit, UnitStopped, Judge,
         GraceEnds, Signal, Signalled, Forget, Refresh, Remove
    <3>4. ~Reboot /\ ~AllDone /\ ~UNCHANGED vars
      BY <1>7 DEF Reboot, AllDone, vars, records
    <3> QED BY <3>1, <3>2, <3>3, <3>4 DEF Next
  <2>2. ASSUME NEW q \in Routers, PublishInstance(q) \/ PublishFails(q)
        PROVE  instance' = r
    BY <1>4, <1>7, <2>2 DEF PublishInstance, PublishFails
  <2>3. ASSUME NEW q \in Routers, Release(q)
        PROVE  instance' = r
    BY <1>3, <1>5, <2>3 DEF Release
  <2>4. ASSUME NEW c \in Commands, RemoveState(c)
        PROVE  FALSE
    <3>1. proc'[r] = [proc[r] EXCEPT !.token = FALSE]
      BY <1>7, <2>4 DEF RemoveState, records
    <3> QED BY <1>1, <1>2, <3>1 DEF Typed, Process
  <2> QED BY <2>1, <2>2, <2>3, <2>4
<1> QED BY <1>6, <1>7

-----------------------------------------------------------------------------
(* What records and commands know *)

\* Whoever is written into router.pid has been started, and when a boot makes
\* the record old it has ended.
LEMMA StepPID ==
    ASSUME Typed, PIDHeld, OldGone, \A c \in Commands : Held(c), [Next]_vars
    PROVE  PIDHeld' /\ OldGone'
<1>1. \/ pid' \in {pid, None} /\ (old' = old \/ old' = FALSE)
      \/ pid' = pid /\ Reboot
      \/ \E r \in Routers : PublishPID(r)
      \/ \E c \in Commands : Record(c)
  <2>1. ASSUME NEW r \in Routers,
               Runs(r) \/ PublishFails(r) \/ Crash(r) \/ Restart(r) \/ NoRestart(r)
        PROVE  PublishPID(r) \/ (pid' \in {pid, None} /\ (old' = old \/ old' = FALSE))
    BY <2>1
       DEF Runs, records, ListenHTTP, ListenAdmin, PublishInstance, PublishFails, CloseTold,
           CloseHTTP, CloseAdmin, Release, Obey, Crash, Restart, NoRestart
  <2>2. ASSUME NEW c \in Commands,
               \/ Look(c) \/ ReadRecord(c) \/ Starts(c) \/ Stops(c)
               \/ RecordFails(c) \/ AskFails(c) \/ Interrupt(c)
        PROVE  Record(c) \/ (pid' \in {pid, None} /\ old' = old)
    <3>1. CASE Forget(c) \/ RemoveState(c)
      BY <3>1 DEF Forget, RemoveState, records
    <3>2. CASE ~(Forget(c) \/ RemoveState(c))
      BY <2>2, <3>2
         DEF Starts, Stops, records, Look, ReadRecord, Launch, RecordFails, WaitReady,
             WaitFails, SetUp, Install, Inspect, Ask, AskFails, StopUnit, UnitStopped, Judge,
             GraceEnds, Signal, Signalled, Refresh, Remove, Interrupt
    <3> QED BY <3>1, <3>2
  <2> QED BY <2>1, <2>2 DEF Next, vars, records, Reboot, AllDone
<1>2. CASE pid' \in {pid, None} /\ (old' = old \/ old' = FALSE)
  BY <1>2, StepEnds DEF PIDHeld, OldGone, Phase, Typed
<1>3. CASE pid' = pid /\ Reboot
  <2>1. pid # None => pid \in Routers /\ Phase(pid) # "none"
    BY DEF PIDHeld, Typed
  <2>2. pid # None => proc'[pid].phase = "gone"
    BY <1>3, <2>1, RebootEnds DEF Typed
  <2> QED BY <1>3, <2>2 DEF PIDHeld, OldGone, Phase, Living, Is, Ended
<1>4. CASE \E r \in Routers : PublishPID(r)
  <2>1. PICK r \in Routers : PublishPID(r)
    BY <1>4
  <2>2. proc'[r].phase = "publishing"
    BY <2>1, GoesOn DEF PublishPID, Typed, Phases, HTTPOpen
  <2> QED BY <2>1, <2>2 DEF PublishPID, PIDHeld, OldGone, Phase
<1>5. CASE \E c \in Commands : Record(c)
  <2>1. PICK c \in Commands : Record(c)
    BY <1>5
  <2>2. cmd[c].target \in Routers /\ Phase(cmd[c].target) # "none"
    BY <2>1 DEF Record, Held, Typed, Call
  <2> QED BY <2>1, <2>2 DEF Record, PIDHeld, OldGone, Phase
<1> QED BY <1>1, <1>2, <1>3, <1>4, <1>5

\* What a command knows stays true while it does nothing.
LEMMA KnowsOn ==
    ASSUME Typed, [Next]_vars, NEW c \in Commands, Held(c), ToldGone(c), cmd'[c] = cmd[c]
    PROVE  Held(c)' /\ ToldGone(c)'
<1>1. cmd[c].saw \in Routers \cup {None} /\ cmd[c].target \in Routers \cup {None}
  BY DEF Typed, Call
<1>2. Held(c)'
  BY <1>1, StepEnds DEF Held, At, Phase
<1>3. cmd[c].saw \notin Living => cmd[c].saw \notin Living'
  BY <1>1, StepEnds, NoneIsNoRouter DEF Held
<1> QED BY <1>2, <1>3 DEF ToldGone, At

\* A command goes on to a step, knowing there what has to be known.
LEMMA KnowsThen ==
    ASSUME Typed, [Next]_vars, NEW c \in Commands, Held(c),
           cmd'[c].saw = cmd[c].saw, cmd'[c].target = cmd[c].target,
           cmd'[c].step \notin {"record", "inspect"},
           cmd'[c].step \in Asks => cmd'[c].found = "matched" \/ cmd[c].saw \notin Living,
           cmd'[c].step \in Afterwards => cmd[c].saw \notin Living
    PROVE  Held(c)' /\ ToldGone(c)'
<1>1. cmd[c].saw \in Routers \cup {None} /\ cmd[c].target \in Routers \cup {None}
  BY DEF Typed, Call
<1>2. Held(c)'
  BY <1>1, StepEnds DEF Held, At, Phase
<1>3. cmd[c].saw \notin Living => cmd[c].saw \notin Living'
  BY <1>1, StepEnds, NoneIsNoRouter DEF Held
<1> QED BY <1>2, <1>3 DEF ToldGone, At

LEMMA KnowsGoing ==
    ASSUME Typed, [Next]_vars, NEW c \in Commands, Held(c), NEW step \in StepNames,
           Steps(c, step), step \notin {"record", "inspect"},
           step \in Asks => cmd[c].found = "matched" \/ cmd[c].saw \notin Living,
           step \in Afterwards => cmd[c].saw \notin Living
    PROVE  /\ Held(c)' /\ ToldGone(c)'
           /\ \A d \in Commands \ {c} : cmd'[d] = cmd[d]
<1>1. /\ cmd'[c].step = step /\ cmd'[c].saw = cmd[c].saw
      /\ cmd'[c].target = cmd[c].target /\ cmd'[c].found = cmd[c].found
      /\ \A d \in Commands \ {c} : cmd'[d] = cmd[d]
  BY GoesThrough DEF Typed
<1> QED BY <1>1, KnowsThen

\* It starts a router, and goes on to record it, or is cut off.
LEMMA KnowsLaunched ==
    ASSUME Typed, [Next]_vars, NEW c \in Commands, Held(c), Launches(c)
    PROVE  /\ Held(c)' /\ ToldGone(c)'
           /\ \A d \in Commands \ {c} : cmd'[d] = cmd[d]
<1>1. CASE Steps(c, "cut")
  BY <1>1, KnowsGoing DEF StepNames, Asks, Afterwards
<1>2. CASE \E r \in Routers :
              /\ Fresh(r)
              /\ proc' = [proc EXCEPT ![r] = Begun(FALSE)]
              /\ cmd' = [cmd EXCEPT ![c].step = "record", ![c].target = r]
  <2>1. PICK r \in Routers :
           /\ proc' = [proc EXCEPT ![r] = Begun(FALSE)]
           /\ cmd' = [cmd EXCEPT ![c].step = "record", ![c].target = r]
    BY <1>2
  <2>2. cmd[c] \in Call /\ cmd[c].saw \in Routers \cup {None}
    BY DEF Typed, Call
  <2>3. cmd'[c].step = "record" /\ cmd'[c].target = r /\ cmd'[c].saw = cmd[c].saw
    BY <2>1, <2>2 DEF Typed, Call
  <2>4. proc'[r].phase = "begun" /\ r # None
    BY <2>1, NoneIsNoRouter DEF Typed, Begun
  <2>5. cmd[c].saw # None => proc'[cmd[c].saw].phase # "none"
    BY <2>2, StepEnds DEF Held
  <2>6. \A d \in Commands \ {c} : cmd'[d] = cmd[d]
    BY <2>1 DEF Typed
  <2>7. Held(c)'
    BY <2>3, <2>4, <2>5 DEF Held, At, Phase
  <2>8. ToldGone(c)'
    BY <2>3 DEF ToldGone, At, Asks, Afterwards
  <2> QED BY <2>6, <2>7, <2>8
<1> QED BY <1>1, <1>2 DEF Launches

\* What every command knows, action by action.
LEMMA StepKnows ==
    ASSUME Typed, PIDHeld, OldGone, \A c \in Commands : Held(c) /\ ToldGone(c), [Next]_vars
    PROVE  \A c \in Commands : Held(c)' /\ ToldGone(c)'
<1>0. SUFFICES ASSUME NEW d \in Commands, cmd'[d] # cmd[d]
               PROVE  Held(d)' /\ ToldGone(d)'
  BY KnowsOn
<1>1. ASSUME NEW r \in Routers,
             Runs(r) \/ PublishFails(r) \/ Crash(r) \/ Restart(r) \/ NoRestart(r)
      PROVE  Held(d)' /\ ToldGone(d)'
  <2>1. CASE \/ ListenHTTP(r) \/ ListenAdmin(r) \/ PublishPID(r)
             \/ PublishInstance(r) \/ PublishFails(r) \/ CloseTold(r)
    BY <2>1, <1>0
       DEF ListenHTTP, ListenAdmin, PublishPID, PublishInstance, PublishFails, CloseTold
  <2>2. CASE CloseHTTP(r) \/ CloseAdmin(r) \/ Release(r) \/ Obey(r) \/ Crash(r) \/ Restart(r)
    BY <2>2, <1>0 DEF CloseHTTP, CloseAdmin, Release, Obey, Crash, Restart
  <2>3. CASE NoRestart(r)
    BY <2>3, <1>0 DEF NoRestart
  <2> QED BY <1>1, <2>1, <2>2, <2>3 DEF Runs
<1>2. ASSUME NEW c \in Commands,
             \/ Look(c) \/ ReadRecord(c) \/ Starts(c) \/ Stops(c)
             \/ RecordFails(c) \/ AskFails(c) \/ Interrupt(c)
      PROVE  Held(d)' /\ ToldGone(d)'
  <2>1. CASE Look(c)
    <3>1. cmd'[c].saw = cmd[c].saw /\ cmd'[c].target = cmd[c].target
          /\ cmd'[c].step \in {"done", "launch"}
      BY <2>1 DEF Look, Typed, Call
    <3>2. d = c
      BY <2>1, <1>0 DEF Look, Typed
    <3> QED BY <3>1, <3>2, KnowsThen DEF Asks, Afterwards
  <2>2. CASE ReadRecord(c)
    <3>1. /\ cmd'[c].saw = pid /\ cmd'[c].boot = old /\ cmd'[c].step = "inspect"
          /\ cmd'[c].target = cmd[c].target
      BY <2>2 DEF ReadRecord, Typed, Call
    <3>2. UNCHANGED <<proc, pid, old>>
      BY <2>2 DEF ReadRecord, records
    <3>3. d = c
      BY <2>2, <1>0 DEF ReadRecord, Typed
    <3>4. Held(c)'
      BY <3>1, <3>2 DEF PIDHeld, Held, At, Phase
    <3>5. ToldGone(c)'
      <4>1. pid = None => pid \notin Living
        BY NoneIsNoRouter DEF Living
      <4>2. old => pid \notin Living'
        BY <3>2, <4>1 DEF OldGone, Living, Is, Phase
      <4> QED BY <3>1, <4>2 DEF ToldGone, At, Asks, Afterwards
    <3> QED BY <3>3, <3>4, <3>5
  <2>3. CASE Launch(c)
    BY <2>3, <1>0, KnowsGoing, KnowsLaunched DEF Launch, StepNames, Asks, Afterwards
  <2>4. CASE \/ Record(c) \/ RecordFails(c) \/ WaitReady(c)
             \/ WaitFails(c) \/ StopUnit(c) \/ Judge(c)
    BY <2>4, <1>0, KnowsGoing
       DEF Record, RecordFails, WaitReady, WaitFails, StopUnit, Judge, ToldGone, At,
           StepNames, Asks, Afterwards
  <2>5. CASE SetUp(c)
    <3>1. cmd'[c].saw = cmd[c].saw /\ cmd'[c].target = cmd[c].target
          /\ cmd'[c].step \in {"wait", "install"}
      BY <2>5 DEF SetUp, Typed, Call
    <3>2. d = c
      BY <2>5, <1>0 DEF SetUp, Typed
    <3> QED BY <3>1, <3>2, KnowsThen DEF Asks, Afterwards
  <2>6. CASE Install(c)
    BY <2>6, <1>0, KnowsGoing, KnowsLaunched DEF Install, StartUnit, StepNames, Asks, Afterwards
  <2>7. CASE Inspect(c)
    <3>1. CASE Steps(c, "failed")
      BY <2>7, <1>0, <3>1, KnowsGoing DEF Inspect, StepNames, Asks, Afterwards
    <3>2. CASE ~Steps(c, "failed")
      <4>1. PICK f \in {"absent", "matched", "other", "unknown"} :
               /\ cmd' = [cmd EXCEPT ![c].step = "ask",
                                     ![c].found = IF f = "unknown" THEN "other" ELSE f,
                                     ![c].boot = (f = "unknown")]
               /\ f = "unknown" => cmd[c].boot
               /\ f \in {"absent", "other"} => cmd[c].saw \notin Living
        BY <2>7, <3>2, NoneIsNoRouter DEF Inspect, Living
      <4>2. d = c
        BY <1>0, <4>1 DEF Typed
      <4>3. /\ cmd'[c].saw = cmd[c].saw /\ cmd'[c].target = cmd[c].target
            /\ cmd'[c].step = "ask" /\ cmd'[c].found = IF f = "unknown" THEN "other" ELSE f
        BY <4>1 DEF Typed, Call
      <4>4. f = "matched" \/ cmd[c].saw \notin Living
        BY <2>7, <4>1 DEF Inspect, ToldGone, At
      <4> QED BY <4>2, <4>3, <4>4, KnowsThen DEF Asks, Afterwards
    <3> QED BY <3>1, <3>2
  <2>8. CASE Ask(c)
    <3>1. /\ cmd'[c].saw = cmd[c].saw /\ cmd'[c].target = cmd[c].target
          /\ cmd'[c].found = cmd[c].found /\ cmd'[c].step \in {"judge", "unit"}
      BY <2>8 DEF Ask, AfterAsking, Typed, Call
    <3>2. cmd[c].found = "matched" \/ cmd[c].saw \notin Living
      BY <2>8 DEF Ask, ToldGone, At, Asks
    <3>3. d = c
      BY <2>8, <1>0 DEF Ask, Typed
    <3> QED BY <3>1, <3>2, <3>3, KnowsThen DEF Asks, Afterwards
  <2>9. CASE AskFails(c)
    BY <2>9, <1>0, KnowsGoing
       DEF AskFails, AfterAsking, ToldGone, At, StepNames, Asks, Afterwards
  <2>10. CASE UnitStopped(c)
    <3>1. /\ cmd'[c].saw = cmd[c].saw /\ cmd'[c].target = cmd[c].target
          /\ cmd'[c].found = cmd[c].found /\ cmd'[c].step \in {"judge"}
      BY <2>10 DEF UnitStopped, Typed, Call
    <3>2. cmd[c].found = "matched" \/ cmd[c].saw \notin Living
      BY <2>10 DEF UnitStopped, ToldGone, At, Asks
    <3>3. d = c
      BY <2>10, <1>0 DEF UnitStopped, Typed
    <3> QED BY <3>1, <3>2, <3>3, KnowsThen DEF Asks, Afterwards
  <2>11. CASE \/ GraceEnds(c) \/ Signal(c) \/ Signalled(c)
              \/ Refresh(c) \/ Remove(c) \/ RemoveState(c)
    BY <2>11, <1>0, KnowsGoing
       DEF GraceEnds, Signal, Signalled, Refresh, Remove, RemoveState, ToldGone, At,
           StepNames, Asks, Afterwards
  <2>12. CASE Forget(c)
    BY <2>12, <1>0, KnowsGoing DEF Forget, Verdict, ToldGone, At, StepNames, Asks, Afterwards
  <2>13. CASE Interrupt(c)
    BY <2>13, <1>0, KnowsGoing DEF Interrupt, ToldGone, At, StepNames, Asks, Afterwards
  <2> QED BY <1>2, <2>1, <2>2, <2>3, <2>4, <2>5, <2>6, <2>7, <2>8, <2>9, <2>10, <2>11, <2>12,
             <2>13 DEF Starts, Stops
<1>3. CASE Reboot
  <2>1. cmd'[d] = [cmd[d] EXCEPT !.step = "failed"]
    BY <1>3, <1>0 DEF Reboot
  <2>2. /\ cmd'[d].saw = cmd[d].saw /\ cmd'[d].target = cmd[d].target
        /\ cmd'[d].step = "failed"
    BY <2>1 DEF Typed, Call
  <2> QED BY <2>2, KnowsThen DEF Asks, Afterwards
<1>4. CASE AllDone \/ UNCHANGED vars
  BY <1>4, <1>0 DEF AllDone, vars
<1> QED BY <1>1, <1>2, <1>3, <1>4 DEF Next

-----------------------------------------------------------------------------
(* The theorems *)

LEMMA InitInv == Init => IInv
<1> SUFFICES ASSUME Init
             PROVE  IInv
  OBVIOUS
<1>1. /\ NotStarted \in Process
      /\ [Begun(systemd) EXCEPT !.phase = "serving", !.token = TRUE] \in Process
  BY DEF NotStarted, Begun, Process, Phases, Ended, HTTPOpen, Init
<1>2. /\ proc \in [Routers -> Process]
      /\ \A r \in Routers : Phase(r) = "none" \/ (r = 1 /\ instance = 1)
  <2>1. CASE proc = [r \in Routers |-> NotStarted]
    BY <1>1, <2>1 DEF NotStarted, Phase
  <2>2. CASE /\ proc = [r \in Routers |->
                          IF r = 1 THEN [Begun(systemd) EXCEPT !.phase = "serving", !.token = TRUE]
                          ELSE NotStarted]
             /\ instance = 1
    <3> DEFINE first == [Begun(systemd) EXCEPT !.phase = "serving", !.token = TRUE]
    <3> HIDE DEF first
    <3>1. first \in Process
      BY <1>1 DEF first
    <3>2. proc = [r \in Routers |-> IF r = 1 THEN first ELSE NotStarted]
      BY <2>2 DEF first
    <3> QED BY <1>1, <2>2, <3>1, <3>2 DEF NotStarted, Phase
  <2> QED BY <2>1, <2>2 DEF Init
<1>3. pid # None => pid = 1 /\ Phase(1) = "serving"
  BY RouterAssumption DEF Init, None, Phase, Begun
<1>4. NotCalled \in Call
  BY RouterAssumption DEF NotCalled, Call, Kinds, StepNames, None
<1>5. TypeOK
  <2>1. Typed
    <3>1. unit \in {"none", "loaded", "active"}
      BY DEF Init
    <3>4. \E b \in BOOLEAN : disk = [binary |-> b, state |-> b]
      BY DEF Init
    <3>5. disk \in [binary : BOOLEAN, state : BOOLEAN]
      BY <3>4
    <3>2. /\ pid \in Routers \cup {None} /\ instance \in Routers \cup {None}
          /\ faults \in 0 .. MaxFaults
      BY RouterAssumption DEF Init, None
    <3>3. cmd \in [Commands -> Call]
      BY <1>4 DEF Init
    <3> QED BY <1>2, <3>1, <3>2, <3>3, <3>5 DEF Init, Typed
  <2>2. PortsOwned
    BY <1>2 DEF PortsOwned, Is, HTTPOpen, AdminOpen
  <2> QED BY <2>1, <2>2 DEF TypeOK
<1>6. InstanceKept
  BY <1>2 DEF InstanceKept, Serving, Is
<1>7. PIDHeld /\ OldGone
  BY <1>3 DEF PIDHeld, OldGone, Init
<1>8. ASSUME NEW c \in Commands
      PROVE  Held(c) /\ ToldGone(c)
  <2>1. cmd[c] = NotCalled
    BY DEF Init
  <2> QED BY <2>1, NoneIsNoRouter DEF NotCalled, Held, ToldGone, At, Living
<1> QED BY <1>5, <1>6, <1>7, <1>8 DEF IInv

LEMMA StepInv ==
    ASSUME IInv, [Next]_vars
    PROVE  IInv'
<1>1. Typed /\ TypeOK /\ InstanceKept /\ PIDHeld /\ OldGone
      /\ \A c \in Commands : Held(c) /\ ToldGone(c)
  BY DEF IInv, TypeOK
<1>2. TypeOK'
  BY <1>1, StepTyped, StepPorts DEF TypeOK
<1>3. InstanceKept'
  BY <1>1, StepInstance
<1>4. PIDHeld' /\ OldGone'
  BY <1>1, StepPID
<1>5. \A c \in Commands : Held(c)' /\ ToldGone(c)'
  BY <1>1, StepKnows
<1> QED BY <1>2, <1>3, <1>4, <1>5 DEF IInv

\* The invariant holds for any numbers of routers, commands and faults.
THEOREM InvHolds == Spec => []IInv
BY InitInv, StepInv, PTL DEF Spec

\* The variables keep their types, and a port has one router: of all routers
\* that start at once, restart and close, one at most publishes or serves.
THEOREM TypeCorrect == Spec => []TypeOK
<1>1. IInv => TypeOK
  BY DEF IInv
<1> QED BY <1>1, InvHolds, PTL

\* router.instance names the router that serves, whichever routers publish,
\* fail to publish or release their records when.
THEOREM InstanceAlways == Spec => []InstanceKept
<1>1. IInv => InstanceKept
  BY DEF IInv
<1> QED BY <1>1, InvHolds, PTL

\* Uninstall removes the service and the state only when the router whose
\* record it read has ended.
THEOREM RemovesGone == Spec => []RemovesAfterStop
<1>1. IInv => RemovesAfterStop
  BY DEF IInv, ToldGone, RemovesAfterStop, Afterwards
<1> QED BY <1>1, InvHolds, PTL

\* The record of a router that serves is taken away by no step.
LEMMA StepRecord ==
    ASSUME IInv, [Next]_vars, NEW r \in Serving, pid = r
    PROVE  pid' # None \/ ~proc'[r].token
<1>1. /\ r \in Routers /\ Phase(r) = "serving" /\ r \in Living /\ r # None
      /\ Typed /\ PortsOwned /\ \A c \in Commands : Held(c) /\ ToldGone(c)
  BY NoneIsNoRouter DEF IInv, TypeOK, Serving, Is, Living, Ended
<1>2. \A q \in Routers : Phase(q) = "publishing" => q = r
  BY <1>1 DEF PortsOwned, Is, AdminOpen
<1>3. \/ pid' = pid
      \/ \E q \in Routers : PublishPID(q) \/ PublishFails(q) \/ Release(q)
      \/ \E c \in Commands : Record(c) \/ Forget(c) \/ RemoveState(c)
  <2>1. ASSUME NEW q \in Routers,
               Runs(q) \/ PublishFails(q) \/ Crash(q) \/ Restart(q) \/ NoRestart(q)
        PROVE  pid' = pid \/ PublishPID(q) \/ PublishFails(q) \/ Release(q)
    BY <2>1
       DEF Runs, records, ListenHTTP, ListenAdmin, PublishInstance, CloseTold, CloseHTTP,
           CloseAdmin, Obey, Crash, Restart, NoRestart
  <2>2. ASSUME NEW c \in Commands,
               \/ Look(c) \/ ReadRecord(c) \/ Starts(c) \/ Stops(c)
               \/ RecordFails(c) \/ AskFails(c) \/ Interrupt(c)
        PROVE  pid' = pid \/ Record(c) \/ Forget(c) \/ RemoveState(c)
    BY <2>2
       DEF Starts, Stops, records, Look, ReadRecord, Launch, RecordFails, WaitReady,
           WaitFails, SetUp, Install, Inspect, Ask, AskFails, StopUnit, UnitStopped, Judge,
           GraceEnds, Signal, Signalled, Refresh, Remove, Interrupt
  <2> QED BY <2>1, <2>2 DEF Next, vars, records, Reboot, AllDone
<1>4. ASSUME NEW q \in Routers, PublishPID(q) \/ PublishFails(q) \/ Release(q)
      PROVE  pid' # None
  <2>1. CASE PublishPID(q)
    BY <2>1, NoneIsNoRouter DEF PublishPID
  <2>2. CASE PublishFails(q)
    BY <1>1, <1>2, <2>2 DEF PublishFails
  <2>3. CASE Release(q)
    BY <1>1, <2>3 DEF Release
  <2> QED BY <1>4, <2>1, <2>2, <2>3
<1>5. ASSUME NEW c \in Commands, Record(c) \/ Forget(c) \/ RemoveState(c)
      PROVE  pid' # None \/ ~proc'[r].token
  <2>1. CASE Record(c)
    BY <1>1, <2>1 DEF Record, Held
  <2>2. CASE Forget(c)
    <3>1. cmd[c].saw # r
      BY <1>1, <2>2 DEF Forget, ToldGone, At, Afterwards
    <3> QED BY <1>1, <2>2, <3>1 DEF Forget
  <2>3. CASE RemoveState(c)
    <3>1. CASE pid' = pid
      BY <1>1, <3>1
    <3>2. CASE pid' # pid
      <4>1. proc'[r] = [proc[r] EXCEPT !.token = FALSE]
        BY <1>1, <2>3, <3>2 DEF RemoveState, records
      <4> QED BY <1>1, <4>1 DEF Typed, Process
    <3> QED BY <3>1, <3>2
  <2> QED BY <1>5, <2>1, <2>2, <2>3
<1> QED BY <1>1, <1>3, <1>4, <1>5

\* Nobody takes the record of a router that serves away: what a stop removes is
\* the record of a router it knows to have ended.
THEOREM RecordStays == Spec => RecordNotErased
<1>1. IInv /\ [Next]_vars => [\A r \in Serving : pid = r => pid' # None \/ ~proc'[r].token]_vars
  BY StepRecord
<1> QED BY <1>1, InvHolds, PTL DEF Spec, RecordNotErased

-----------------------------------------------------------------------------
(* Whose step it is *)

\* A fault is never taken back.
LEMMA FaultsStay ==
    ASSUME Typed, [Next]_vars, faults' = 0
    PROVE  faults = 0
<1>1. ASSUME NEW r \in Routers,
             Runs(r) \/ PublishFails(r) \/ Crash(r) \/ Restart(r) \/ NoRestart(r)
      PROVE  faults' \in {faults, faults + 1}
  BY <1>1 DEF Runs, ListenHTTP, ListenAdmin, PublishPID, PublishInstance, PublishFails,
     CloseTold, CloseHTTP, CloseAdmin, Release, Obey, Crash, Restart, NoRestart, Another
<1>2. ASSUME NEW c \in Commands,
             \/ Look(c) \/ ReadRecord(c) \/ Starts(c) \/ Stops(c)
             \/ RecordFails(c) \/ AskFails(c) \/ Interrupt(c)
      PROVE  faults' \in {faults, faults + 1}
  BY <1>2
     DEF Starts, Stops, Look, ReadRecord, Launch, Record, RecordFails, WaitReady, WaitFails,
         SetUp, Install, StartUnit, Inspect, Ask, AskFails, StopUnit, UnitStopped, Judge,
         GraceEnds, Signal, Signalled, Forget, Refresh, Remove, RemoveState, Interrupt, Another
<1>3. faults' \in {faults, faults + 1}
  BY <1>1, <1>2 DEF Next, vars, Reboot, Another, AllDone
<1>4. faults \in 0 .. MaxFaults
  BY DEF Typed
<1> QED BY <1>3, <1>4, RouterAssumption

\* A router changes no command, and a command changes no other, nor its own
\* kind once it has begun.
LEMMA RouterKeepsCommands ==
    ASSUME NEW r \in Routers,
           Runs(r) \/ PublishFails(r) \/ Crash(r) \/ Restart(r) \/ NoRestart(r)
    PROVE  UNCHANGED cmd
<1>1. CASE \/ ListenHTTP(r) \/ ListenAdmin(r) \/ PublishPID(r)
           \/ PublishInstance(r) \/ PublishFails(r) \/ CloseTold(r)
  BY <1>1 DEF ListenHTTP, ListenAdmin, PublishPID, PublishInstance, PublishFails, CloseTold
<1>2. CASE CloseHTTP(r) \/ CloseAdmin(r) \/ Release(r) \/ Obey(r) \/ Crash(r) \/ Restart(r)
  BY <1>2 DEF CloseHTTP, CloseAdmin, Release, Obey, Crash, Restart
<1>3. CASE NoRestart(r)
  BY <1>3 DEF NoRestart
<1> QED BY <1>1, <1>2, <1>3 DEF Runs

LEMMA KindKept ==
    ASSUME Typed, NEW c \in Commands,
           \/ Look(c) \/ ReadRecord(c) \/ Starts(c) \/ Stops(c)
           \/ RecordFails(c) \/ AskFails(c) \/ Interrupt(c)
    PROVE  /\ At(c, "idle") \/ cmd'[c].kind = cmd[c].kind
           /\ \A d \in Commands \ {c} : cmd'[d] = cmd[d]
<1>0. cmd \in [Commands -> Call] /\ cmd[c] \in Call
  BY DEF Typed
<1>1. CASE Look(c) \/ ReadRecord(c)
  BY <1>0, <1>1 DEF Look, ReadRecord
<1>2. ASSUME NEW step, Steps(c, step)
      PROVE  cmd'[c].kind = cmd[c].kind /\ \A d \in Commands \ {c} : cmd'[d] = cmd[d]
  BY <1>0, <1>2 DEF Steps, Call
<1>3. ASSUME Launches(c)
      PROVE  cmd'[c].kind = cmd[c].kind /\ \A d \in Commands \ {c} : cmd'[d] = cmd[d]
  <2>1. CASE \E r \in Routers : cmd' = [cmd EXCEPT ![c].step = "record", ![c].target = r]
    BY <1>0, <2>1 DEF Call
  <2> QED BY <1>2, <1>3, <2>1 DEF Launches
<1>4. CASE \/ Launch(c) \/ Record(c) \/ RecordFails(c) \/ WaitReady(c) \/ WaitFails(c)
           \/ Install(c) \/ AskFails(c) \/ StopUnit(c) \/ Judge(c)
  BY <1>2, <1>3, <1>4
     DEF Launch, Record, RecordFails, WaitReady, WaitFails, Install, StartUnit, AskFails,
         StopUnit, Judge
<1>5. CASE \/ GraceEnds(c) \/ Signal(c) \/ Signalled(c) \/ Forget(c) \/ Refresh(c)
           \/ Remove(c) \/ RemoveState(c) \/ Interrupt(c)
  BY <1>2, <1>5
     DEF GraceEnds, Signal, Signalled, Forget, Refresh, Remove, RemoveState, Interrupt
<1>6. CASE SetUp(c)
  BY <1>0, <1>6 DEF SetUp, Call
<1>7. CASE UnitStopped(c)
  BY <1>0, <1>7 DEF UnitStopped, Call
<1>8. CASE Ask(c)
  BY <1>0, <1>8 DEF Ask, Call
<1>9. CASE Inspect(c)
  <2>1. \/ Steps(c, "failed")
        \/ \E f \in {"absent", "matched", "other", "unknown"} :
              cmd' = [cmd EXCEPT ![c].step = "ask",
                                 ![c].found = IF f = "unknown" THEN "other" ELSE f,
                                 ![c].boot = (f = "unknown")]
    BY <1>9 DEF Inspect
  <2> QED BY <1>0, <1>2, <2>1 DEF Call
<1> QED BY <1>1, <1>4, <1>5, <1>6, <1>7, <1>8, <1>9 DEF Starts, Stops

-----------------------------------------------------------------------------
(* What a stop knows of the routers that served when it began *)

\* A command that was not called has seen nothing.  A router that served when
\* a stop began has served since or has closed, and it has closed if a request
\* to shut down was accepted: a router that answers has the admin port, which
\* the one that serves has.
Since == {"serving", "closing", "drained", "closed", "gone", "failed"}
Past(c) ==
    /\ At(c, "idle") => cmd[c] = NotCalled
    /\ \A r \in cmd[c].before :
          Phase(r) \in Since /\ (cmd[c].accepted => Phase(r) # "serving")

PastInv == \A c \in Commands : Past(c)

\* A router that served before serves on or has closed.
LEMMA StepSince ==
    ASSUME Typed, [Next]_vars, NEW r \in Routers, Phase(r) \in Since
    PROVE  /\ proc'[r].phase \in Since
           /\ proc'[r].phase = "serving" => Phase(r) = "serving"
<1>1. Becomes(r)
  BY StepBecomes
<1> QED BY <1>1 DEF Becomes, Since, Onward

\* A command whose memory of the routers that served is left alone.
LEMMA PastOn ==
    ASSUME Typed, [Next]_vars, NEW c \in Commands, Past(c),
           cmd'[c].before = cmd[c].before, cmd'[c].accepted = cmd[c].accepted,
           cmd'[c].step = "idle" => cmd'[c] = cmd[c]
    PROVE  Past(c)'
<1>1. cmd[c].before \subseteq Routers
  BY DEF Typed, Call
<1>2. \A r \in cmd[c].before :
         /\ proc'[r].phase \in Since
         /\ cmd[c].accepted => proc'[r].phase # "serving"
  BY <1>1, StepSince DEF Past
<1>3. At(c, "idle")' => cmd'[c] = NotCalled
  BY DEF Past, At
<1> QED BY <1>2, <1>3 DEF Past, Phase

LEMMA PastGoing ==
    ASSUME Typed, [Next]_vars, NEW c \in Commands, Past(c), NEW step \in StepNames,
           Steps(c, step), step # "idle"
    PROVE  Past(c)' /\ \A d \in Commands \ {c} : cmd'[d] = cmd[d]
<1>1. cmd[c] \in Call
  BY DEF Typed
<1>2. cmd'[c] = [cmd[c] EXCEPT !.step = step] /\ \A d \in Commands \ {c} : cmd'[d] = cmd[d]
  BY DEF Typed, Steps
<1>3. /\ cmd'[c].before = cmd[c].before /\ cmd'[c].accepted = cmd[c].accepted
      /\ cmd'[c].step = step
  BY <1>1, <1>2 DEF Call
<1> QED BY <1>2, <1>3, PastOn

LEMMA PastLaunched ==
    ASSUME Typed, [Next]_vars, NEW c \in Commands, Past(c), Launches(c)
    PROVE  Past(c)' /\ \A d \in Commands \ {c} : cmd'[d] = cmd[d]
<1>1. CASE Steps(c, "cut")
  BY <1>1, PastGoing DEF StepNames
<1>2. CASE \E r \in Routers :
              cmd' = [cmd EXCEPT ![c].step = "record", ![c].target = r]
  <2>1. PICK r \in Routers : cmd' = [cmd EXCEPT ![c].step = "record", ![c].target = r]
    BY <1>2
  <2>2. cmd[c] \in Call
    BY DEF Typed
  <2>3. /\ cmd'[c].before = cmd[c].before /\ cmd'[c].accepted = cmd[c].accepted
        /\ cmd'[c].step = "record"
    BY <2>1, <2>2 DEF Typed, Call
  <2>4. \A d \in Commands \ {c} : cmd'[d] = cmd[d]
    BY <2>1 DEF Typed
  <2> QED BY <2>3, <2>4, PastOn
<1> QED BY <1>1, <1>2 DEF Launches

\* When some router accepts the request, the one that serves closes.
LEMMA AskCloses ==
    ASSUME TypeOK, NEW c \in Commands, Ask(c), NEW r \in Routers, Asked # {}
    PROVE  proc'[r].phase # "serving"
<1>1. Typed /\ \A q, s \in Is(AdminOpen) : q = s
  BY DEF TypeOK, PortsOwned
<1>2. PICK q \in Routers : q \in Asked /\ Phase(q) \in AdminOpen
  BY DEF Asked, Answering, Is, AdminOpen
<1>3. proc'[r] = IF r \in Asked \cap Serving THEN [proc[r] EXCEPT !.phase = "closing"] ELSE proc[r]
  BY DEF Ask, Closing
<1>4. Phase(r) = "serving" => r \in Asked \cap Serving
  BY <1>1, <1>2 DEF Is, AdminOpen, Serving
<1> QED BY <1>1, <1>3, <1>4 DEF Phase, Typed, Process

LEMMA StepPast ==
    ASSUME TypeOK, PastInv, [Next]_vars
    PROVE  PastInv'
<1>0. Typed /\ \A c \in Commands : Past(c)
  BY DEF TypeOK, PastInv
<1>1. SUFFICES ASSUME NEW d \in Commands, cmd'[d] # cmd[d]
               PROVE  Past(d)'
  BY <1>0, PastOn DEF PastInv
<1>2. ASSUME NEW r \in Routers,
             Runs(r) \/ PublishFails(r) \/ Crash(r) \/ Restart(r) \/ NoRestart(r)
      PROVE  Past(d)'
  BY <1>1, <1>2, RouterKeepsCommands
<1>3. ASSUME NEW c \in Commands,
             \/ Look(c) \/ ReadRecord(c) \/ Starts(c) \/ Stops(c)
             \/ RecordFails(c) \/ AskFails(c) \/ Interrupt(c)
      PROVE  Past(d)'
  <2>1. CASE Look(c)
    <3>1. /\ cmd'[c].before = cmd[c].before /\ cmd'[c].accepted = cmd[c].accepted
          /\ cmd'[c].step \in {"done", "launch"}
      BY <2>1, <1>0 DEF Look, Typed, Call
    <3>2. d = c
      BY <2>1, <1>0, <1>1 DEF Look, Typed
    <3> QED BY <1>0, <3>1, <3>2, PastOn
  <2>2. CASE ReadRecord(c)
    <3>1. cmd'[c].before = Serving /\ cmd'[c].accepted = FALSE /\ cmd'[c].step = "inspect"
      <4>1. cmd[c] \in Call /\ cmd[c].accepted = FALSE
        BY <2>2, <1>0 DEF ReadRecord, Past, NotCalled, Typed
      <4> QED BY <2>2, <1>0, <4>1 DEF ReadRecord, Typed, Call
    <3>2. \A r \in Serving : proc'[r].phase \in Since
      BY <2>2 DEF ReadRecord, Serving, Is, Phase, Since
    <3>3. d = c
      BY <2>2, <1>0, <1>1 DEF ReadRecord, Typed
    <3> QED BY <3>1, <3>2, <3>3 DEF Past, At, Phase
  <2>3. CASE Launch(c)
    BY <2>3, <1>0, <1>1, PastGoing, PastLaunched DEF Launch, StepNames
  <2>4. CASE \/ Record(c) \/ RecordFails(c) \/ WaitReady(c)
             \/ WaitFails(c) \/ StopUnit(c) \/ Judge(c)
    BY <2>4, <1>0, <1>1, PastGoing
       DEF Record, RecordFails, WaitReady, WaitFails, StopUnit, Judge, StepNames
  <2>5. CASE SetUp(c)
    <3>1. /\ cmd'[c].before = cmd[c].before /\ cmd'[c].accepted = cmd[c].accepted
          /\ cmd'[c].step \in {"wait", "install"}
      BY <2>5, <1>0 DEF SetUp, Typed, Call
    <3>2. d = c
      BY <2>5, <1>0, <1>1 DEF SetUp, Typed
    <3> QED BY <1>0, <3>1, <3>2, PastOn
  <2>6. CASE Install(c)
    BY <2>6, <1>0, <1>1, PastGoing, PastLaunched DEF Install, StartUnit, StepNames
  <2>7. CASE Inspect(c)
    <3>1. CASE Steps(c, "failed")
      BY <3>1, <1>0, <1>1, PastGoing DEF StepNames
    <3>2. CASE ~Steps(c, "failed")
      <4>1. PICK f \in {"absent", "matched", "other", "unknown"} :
               cmd' = [cmd EXCEPT ![c].step = "ask",
                                  ![c].found = IF f = "unknown" THEN "other" ELSE f,
                                  ![c].boot = (f = "unknown")]
        BY <2>7, <3>2 DEF Inspect
      <4>2. /\ cmd'[c].before = cmd[c].before /\ cmd'[c].accepted = cmd[c].accepted
            /\ cmd'[c].step = "ask"
        BY <1>0, <4>1 DEF Typed, Call
      <4>3. d = c
        BY <1>0, <1>1, <4>1 DEF Typed
      <4> QED BY <1>0, <4>2, <4>3, PastOn
    <3> QED BY <3>1, <3>2
  <2>8. CASE Ask(c)
    <3>1. /\ cmd'[c].before = cmd[c].before /\ cmd'[c].accepted = (Asked # {})
          /\ cmd'[c].step \in {"judge", "unit"}
      BY <2>8, <1>0 DEF Ask, AfterAsking, Typed, Call
    <3>2. d = c
      BY <2>8, <1>0, <1>1 DEF Ask, Typed
    <3>3. cmd[c].before \subseteq Routers
      BY <1>0 DEF Typed, Call
    <3>4. \A r \in cmd[c].before : proc'[r].phase \in Since
      BY <1>0, <3>3, StepSince DEF Past
    <3>5. \A r \in cmd[c].before : Asked # {} => proc'[r].phase # "serving"
      BY <2>8, <3>3, AskCloses
    <3> QED BY <3>1, <3>2, <3>4, <3>5 DEF Past, At, Phase
  <2>9. CASE AskFails(c)
    BY <2>9, <1>0, <1>1, PastGoing DEF AskFails, AfterAsking, StepNames
  <2>10. CASE UnitStopped(c)
    <3>1. /\ cmd'[c].before = cmd[c].before /\ cmd'[c].accepted = cmd[c].accepted
          /\ cmd'[c].step \in {"judge"}
      BY <2>10, <1>0 DEF UnitStopped, Typed, Call
    <3>2. d = c
      BY <2>10, <1>0, <1>1 DEF UnitStopped, Typed
    <3> QED BY <1>0, <3>1, <3>2, PastOn
  <2>11. CASE \/ GraceEnds(c) \/ Signal(c) \/ Signalled(c)
              \/ Refresh(c) \/ Remove(c) \/ RemoveState(c)
    BY <2>11, <1>0, <1>1, PastGoing
       DEF GraceEnds, Signal, Signalled, Refresh, Remove, RemoveState, StepNames
  <2>12. CASE Forget(c)
    BY <2>12, <1>0, <1>1, PastGoing DEF Forget, Verdict, StepNames
  <2>13. CASE Interrupt(c)
    BY <2>13, <1>0, <1>1, PastGoing DEF Interrupt, StepNames
  <2> QED BY <1>3, <2>1, <2>2, <2>3, <2>4, <2>5, <2>6, <2>7, <2>8, <2>9, <2>10, <2>11, <2>12,
             <2>13 DEF Starts, Stops
<1>4. CASE Reboot
  <2>1. cmd'[d] = [cmd[d] EXCEPT !.step = "failed"]
    BY <1>4, <1>1 DEF Reboot
  <2>2. /\ cmd'[d].before = cmd[d].before /\ cmd'[d].accepted = cmd[d].accepted
        /\ cmd'[d].step = "failed"
    BY <1>0, <2>1 DEF Typed, Call
  <2> QED BY <1>0, <2>2, PastOn
<1>5. CASE AllDone \/ UNCHANGED vars
  BY <1>5, <1>1 DEF AllDone, vars
<1> QED BY <1>2, <1>3, <1>4, <1>5 DEF Next

LEMMA InitPast == Init => PastInv
<1> SUFFICES ASSUME Init, NEW c \in Commands
             PROVE  Past(c)
  BY DEF PastInv
<1>1. cmd[c] = NotCalled
  BY DEF Init
<1> QED BY <1>1 DEF Past, NotCalled

LEMMA PastHolds == Spec => []PastInv
<1>1. IInv /\ PastInv /\ [Next]_vars => PastInv'
  BY StepPast DEF IInv
<1> QED BY <1>1, InitPast, InvHolds, PTL DEF Spec

\* What a stop reports, it reports when it forgets the record.
LEMMA ReportIsForget ==
    ASSUME Typed, [Next]_vars, NEW c \in Commands,
           cmd[c].step = "forget", cmd'[c].step \in {"stopped", "nothing"}
    PROVE  Forget(c)
<1>1. ASSUME NEW r \in Routers,
             Runs(r) \/ PublishFails(r) \/ Crash(r) \/ Restart(r) \/ NoRestart(r)
      PROVE  FALSE
  BY <1>1, RouterKeepsCommands
<1>2. ASSUME NEW d \in Commands,
             \/ Look(d) \/ ReadRecord(d) \/ Starts(d) \/ Stops(d)
             \/ RecordFails(d) \/ AskFails(d) \/ Interrupt(d)
      PROVE  Forget(c)
  <2>1. CASE d = c /\ Interrupt(d)
    BY <2>1, GoesThrough DEF Interrupt, StepNames, Typed
  <2>2. CASE d = c /\ ~Interrupt(d)
    BY <1>2, <2>2
       DEF Starts, Stops, At, Look, ReadRecord, Launch, Record, RecordFails, WaitReady,
           WaitFails, SetUp, Install, Inspect, Ask, AskFails, StopUnit, UnitStopped, Judge,
           GraceEnds, Signal, Signalled, Refresh, Remove, RemoveState
  <2>3. CASE d # c
    BY <1>2, <2>3, KindKept
  <2> QED BY <2>1, <2>2, <2>3
<1>3. CASE Reboot
  BY <1>3 DEF Reboot, Typed, Call
<1>4. CASE AllDone \/ UNCHANGED vars
  BY <1>4 DEF AllDone, vars
<1> QED BY <1>1, <1>2, <1>3, <1>4 DEF Next

LEMMA StepTakesEffect ==
    ASSUME IInv, PastInv, [Next]_vars, NEW c \in Commands,
           cmd[c].step = "forget", cmd'[c].step \in {"stopped", "nothing"},
           NEW r \in cmd[c].before, proc'[r].phase = "serving"
    PROVE  Escapes(c, r)
<1>1. Typed /\ ToldGone(c) /\ Past(c) /\ r \in Routers
  BY DEF IInv, TypeOK, PastInv, Typed, Call
<1>2. Forget(c)
  BY <1>1, ReportIsForget
<1>3. Phase(r) = "serving" /\ r \in Living /\ Healthy
  BY <1>1, <1>2 DEF Forget, Phase, Living, Is, Ended, Healthy, Answering
<1>4. cmd[c].saw # r
  BY <1>1, <1>3 DEF ToldGone, At, Afterwards
<1>5. ~cmd[c].accepted
  BY <1>1, <1>3 DEF Past
<1>6. cmd'[c].step # "nothing"
  <2>1. cmd'[c].step \in {"failed", Verdict(c)}
    BY <1>1, <1>2, GoesThrough DEF Forget, Typed, Verdict, StepNames
  <2> QED BY <1>3, <2>1 DEF Verdict
<1> QED BY <1>4, <1>5, <1>6 DEF Escapes

\* A stop that reports success has ended every router that served when it
\* began, except one that router.pid did not name and that got no request.
THEOREM StopsWhatServed == Spec => StopTakesEffect
<1>1. IInv /\ PastInv /\ [Next]_vars =>
        [\A c \in Commands :
            cmd[c].step = "forget" /\ cmd'[c].step \in {"stopped", "nothing"} =>
                \A r \in cmd[c].before : proc'[r].phase = "serving" => Escapes(c, r)]_vars
  BY StepTakesEffect
<1> QED BY <1>1, InvHolds, PastHolds, PTL DEF Spec, StopTakesEffect

-----------------------------------------------------------------------------
(* As long as nothing fails and nothing is stopped *)

\* No router is told to end, every one has failed to take a port or is on its
\* way to serve, and as soon as one was started one is on its way: a router
\* that fails has found another that has the port.
AfterLook == {"launch", "record", "wait", "setup", "install", "done", "cut"}
Started == \E r \in Routers : Phase(r) # "none"
Easy ==
    /\ \A r \in Routers : Phase(r) \in Ended \cup OnItsWay /\ ~proc[r].told
    /\ Started => Is(OnItsWay) # {}
    /\ \A c \in Commands :
          /\ ~At(c, "idle") => cmd[c].step \in AfterLook
          /\ At(c, "wait") => Started

EasyInv == OnlyRuns => Easy

\* What an easy step does to the routers: the one it is about begins, goes on,
\* or fails while another has the port it wants.
EasyMoves(s) ==
    \/ proc'[s].phase = Phase(s)
    \/ proc'[s].phase \in OnItsWay
    \/ Phase(s) = "failed" /\ proc'[s].phase = "gone"
    \/ /\ proc'[s].phase = "failed"
       /\ \E q \in Routers \ {s} : Phase(q) \in OnItsWay /\ proc'[q].phase = Phase(q)

LEMMA EasyRouters ==
    ASSUME Typed, Easy,
           \A s \in Routers : EasyMoves(s) /\ ~proc'[s].told
    PROVE  /\ \A r \in Routers : proc'[r].phase \in Ended \cup OnItsWay /\ ~proc'[r].told
           /\ Started' => Is(OnItsWay)' # {}
           /\ (\E r \in Routers : Phase(r) # "none") => Started'
<1>1. \A r \in Routers : proc'[r].phase \in Ended \cup OnItsWay
  BY DEF EasyMoves, Easy, Ended
<1>2. ASSUME NEW r \in Routers, Phase(r) \in OnItsWay
      PROVE  Is(OnItsWay)' # {}
  <2>1. proc'[r].phase \in OnItsWay \/ \E q \in Routers : proc'[q].phase \in OnItsWay
    BY <1>2 DEF EasyMoves, OnItsWay
  <2> QED BY <1>2, <2>1 DEF Is, Phase
<1>3. ASSUME NEW r \in Routers, proc'[r].phase # "none"
      PROVE  Is(OnItsWay)' # {}
  <2>1. CASE Phase(r) = "none"
    <3>1. \E q \in Routers : proc'[q].phase \in OnItsWay \/ Phase(q) \in OnItsWay
      BY <1>3, <2>1 DEF EasyMoves
    <3> QED BY <1>2, <3>1 DEF Is, Phase
  <2>2. CASE Phase(r) # "none"
    BY <1>2, <2>2 DEF Easy, Started, Is
  <2> QED BY <2>1, <2>2
<1>4. ASSUME NEW r \in Routers, Phase(r) # "none"
      PROVE  proc'[r].phase # "none"
  BY <1>4 DEF EasyMoves, OnItsWay
<1> QED BY <1>1, <1>3, <1>4 DEF Started, Phase

\* Steps of routers.
LEMMA EasyRouter ==
    ASSUME Typed, Easy, PortsOwned, faults' = 0, NEW r \in Routers,
           Runs(r) \/ PublishFails(r) \/ Crash(r) \/ Restart(r) \/ NoRestart(r), faults = 0
    PROVE  /\ \A s \in Routers : EasyMoves(s) /\ ~proc'[s].told
           /\ UNCHANGED cmd
<1>0. proc \in [Routers -> Process] /\ \A s \in Routers : ~proc[s].told
      /\ Phase(r) \in Ended \cup OnItsWay /\ r \in Routers
  BY DEF Typed, Easy
<1>1. CASE ListenHTTP(r)
  <2>1. CASE Is(HTTPOpen) = {}
    <3>1. proc'[r] = [proc[r] EXCEPT !.phase = "http", !.token = TRUE]
          /\ \A s \in Routers \ {r} : proc'[s] = proc[s]
      BY <1>0, <1>1, <2>1 DEF ListenHTTP
    <3>2. proc'[r].phase = "http" /\ ~proc'[r].told
      BY <1>0, <3>1 DEF Process
    <3> QED BY <1>0, <1>1, <3>1, <3>2 DEF ListenHTTP, EasyMoves, OnItsWay, Phase
  <2>2. CASE Is(HTTPOpen) # {}
    <3>1. proc'[r] = [proc[r] EXCEPT !.phase = "failed", !.token = TRUE]
          /\ \A s \in Routers \ {r} : proc'[s] = proc[s]
      BY <1>0, <1>1, <2>2 DEF ListenHTTP
    <3>2. PICK q \in Routers \ {r} : Phase(q) \in HTTPOpen
      BY <1>1, <2>2 DEF Is, ListenHTTP, HTTPOpen
    <3>3. Phase(q) \in OnItsWay
      BY <3>2 DEF Easy, HTTPOpen, Ended, OnItsWay
    <3>4. proc'[r].phase = "failed" /\ ~proc'[r].told
      BY <1>0, <3>1 DEF Process
    <3> QED BY <1>0, <1>1, <3>1, <3>2, <3>3, <3>4 DEF ListenHTTP, EasyMoves, Phase
  <2> QED BY <2>1, <2>2
<1>2. CASE ListenAdmin(r)
  <2>1. CASE Is(AdminOpen) = {}
    <3>1. proc'[r] = [proc[r] EXCEPT !.phase = "bound"] /\ \A s \in Routers \ {r} : proc'[s] = proc[s]
      BY <1>0, <1>2, <2>1 DEF ListenAdmin, Goes
    <3> QED BY <1>0, <1>2, <3>1 DEF ListenAdmin, EasyMoves, OnItsWay, Process, Phase
  <2>2. CASE Is(AdminOpen) # {}
    <3>1. proc'[r] = [proc[r] EXCEPT !.phase = "failed"] /\ \A s \in Routers \ {r} : proc'[s] = proc[s]
      BY <1>0, <1>2, <2>2 DEF ListenAdmin, Goes
    <3>2. PICK q \in Routers \ {r} : Phase(q) \in AdminOpen
      BY <1>2, <2>2 DEF Is, ListenAdmin, AdminOpen
    <3>3. Phase(q) \in OnItsWay
      BY <3>2 DEF Easy, AdminOpen, Ended, OnItsWay
    <3> QED BY <1>0, <1>2, <3>1, <3>2, <3>3 DEF ListenAdmin, EasyMoves, Process, Phase
  <2> QED BY <2>1, <2>2
<1>3. CASE PublishPID(r) \/ PublishInstance(r) \/ NoRestart(r)
  <2>1. PICK phase \in {"publishing", "serving", "gone"} :
           /\ proc' = [proc EXCEPT ![r].phase = phase]
           /\ phase = "gone" => Phase(r) = "failed"
           /\ UNCHANGED cmd
    BY <1>3 DEF PublishPID, PublishInstance, NoRestart, Goes
  <2>2. proc'[r] = [proc[r] EXCEPT !.phase = phase] /\ \A s \in Routers \ {r} : proc'[s] = proc[s]
    BY <1>0, <2>1
  <2> QED BY <1>0, <2>1, <2>2 DEF EasyMoves, OnItsWay, Process, Phase
<1>4. CASE Restart(r)
  <2>1. PICK q \in Is({"failed"}) : proc' = [proc EXCEPT ![q].phase = "gone", ![r] = Begun(TRUE)]
    BY <1>4 DEF Restart
  <2>2. q \in Routers /\ q # r /\ Phase(q) = "failed"
    BY <1>4, <2>1 DEF Is, Restart, Fresh, Phase
  <2>3. /\ proc'[r] = Begun(TRUE) /\ proc'[q] = [proc[q] EXCEPT !.phase = "gone"]
        /\ \A s \in Routers \ {q, r} : proc'[s] = proc[s]
    BY <1>0, <2>1, <2>2
  <2> QED BY <1>0, <1>4, <2>2, <2>3 DEF Restart, EasyMoves, OnItsWay, Process, Phase, Begun
<1>5. ~PublishFails(r) /\ ~Crash(r)
  BY DEF PublishFails, Crash, Another
<1>6. ~CloseTold(r) /\ ~CloseHTTP(r) /\ ~CloseAdmin(r) /\ ~Release(r) /\ ~Obey(r)
  BY <1>0 DEF CloseTold, CloseHTTP, CloseAdmin, Release, Obey, Ended, OnItsWay
<1> QED BY <1>1, <1>2, <1>3, <1>4, <1>5, <1>6 DEF Runs

LEMMA EasyBegun ==
    ASSUME Typed, Easy, NEW r \in Routers, NEW m \in BOOLEAN,
           proc' = [proc EXCEPT ![r] = Begun(m)]
    PROVE  \A s \in Routers : EasyMoves(s) /\ ~proc'[s].told
<1>1. proc'[r] = Begun(m) /\ \A s \in Routers \ {r} : proc'[s] = proc[s]
  BY DEF Typed
<1> QED BY <1>1 DEF Begun, EasyMoves, OnItsWay, Phase, Easy

LEMMA EasySame ==
    ASSUME Easy, UNCHANGED proc
    PROVE  \A s \in Routers : EasyMoves(s) /\ ~proc'[s].told
BY DEF EasyMoves, Easy, Phase

\* Steps of commands: they look, start routers and wait.
LEMMA EasyCommand ==
    ASSUME Typed, Easy, faults = 0, faults' = 0, NEW c \in Commands, Held(c),
           \/ Look(c) \/ ReadRecord(c) \/ Starts(c) \/ Stops(c)
           \/ RecordFails(c) \/ AskFails(c) \/ Interrupt(c),
           cmd'[c].kind \in {"none", "run"}
    PROVE  /\ \A s \in Routers : EasyMoves(s) /\ ~proc'[s].told
           /\ cmd'[c].step \in AfterLook
           /\ cmd'[c].step = "wait" => Started \/ Started'
           /\ \A d \in Commands \ {c} : cmd'[d] = cmd[d]
<1>0. /\ proc \in [Routers -> Process] /\ cmd \in [Commands -> Call] /\ cmd[c] \in Call
      /\ \A s \in Routers : ~proc[s].told
      /\ ~At(c, "idle") => cmd[c].step \in AfterLook
      /\ At(c, "wait") => Started
      /\ AfterLook \subseteq StepNames
  BY DEF Typed, Easy, AfterLook, StepNames
<1>1. ASSUME NEW step \in AfterLook, Steps(c, step), step # "wait", UNCHANGED proc
      PROVE  /\ \A s \in Routers : EasyMoves(s) /\ ~proc'[s].told
             /\ cmd'[c].step \in AfterLook
             /\ cmd'[c].step # "wait"
             /\ \A d \in Commands \ {c} : cmd'[d] = cmd[d]
  BY <1>0, <1>1, EasySame, GoesThrough
<1>2. CASE Look(c)
  <2>1. /\ cmd'[c] = [cmd[c] EXCEPT !.kind = "run", !.step = IF Healthy THEN "done" ELSE "launch"]
        /\ \A d \in Commands \ {c} : cmd'[d] = cmd[d]
    BY <1>0, <1>2 DEF Look
  <2>2. cmd'[c].step \in {"done", "launch"}
    BY <1>0, <2>1 DEF Call
  <2> QED BY <1>2, <2>1, <2>2, EasySame DEF Look, AfterLook
<1>3. ~ReadRecord(c)
  <2> SUFFICES ASSUME ReadRecord(c) PROVE FALSE
    OBVIOUS
  <2>1. PICK k \in Kinds \ {"run"} :
           cmd' = [cmd EXCEPT ![c].kind = k, ![c].step = "inspect",
                              ![c].saw = pid, ![c].boot = old, ![c].before = Serving]
    BY DEF ReadRecord
  <2>2. cmd'[c].kind = k
    BY <1>0, <2>1 DEF Call
  <2> QED BY <2>2 DEF Kinds
<1>4. ASSUME Launches(c)
      PROVE  /\ \A s \in Routers : EasyMoves(s) /\ ~proc'[s].told
             /\ cmd'[c].step \in AfterLook
             /\ cmd'[c].step # "wait"
             /\ \A d \in Commands \ {c} : cmd'[d] = cmd[d]
  <2>1. CASE Steps(c, "cut") /\ UNCHANGED proc
    BY <1>1, <2>1 DEF AfterLook
  <2>2. CASE \E r \in Routers :
                /\ proc' = [proc EXCEPT ![r] = Begun(FALSE)]
                /\ cmd' = [cmd EXCEPT ![c].step = "record", ![c].target = r]
    <3>1. PICK r \in Routers :
             /\ proc' = [proc EXCEPT ![r] = Begun(FALSE)]
             /\ cmd' = [cmd EXCEPT ![c].step = "record", ![c].target = r]
      BY <2>2
    <3>2. cmd'[c].step = "record" /\ \A d \in Commands \ {c} : cmd'[d] = cmd[d]
      BY <1>0, <3>1 DEF Call
    <3> QED BY <3>1, <3>2, EasyBegun DEF AfterLook
  <2> QED BY <1>4, <2>1, <2>2 DEF Launches
<1>5. CASE Launch(c)
  <2>1. CASE Launches(c)
    BY <1>4, <2>1
  <2>2. CASE Steps(c, "setup") /\ UNCHANGED proc
    BY <1>1, <2>2 DEF AfterLook
  <2> QED BY <1>5, <2>1, <2>2 DEF Launch
<1>6. CASE Record(c)
  <2>1. Steps(c, "wait") /\ UNCHANGED proc
    BY <1>6 DEF Record
  <2>2. Started
    <3>1. cmd[c].target \in Routers /\ Phase(cmd[c].target) # "none"
      BY <1>0, <1>6 DEF Record, Held, Call
    <3> QED BY <3>1 DEF Started
  <2> QED BY <1>0, <2>1, <2>2, EasySame, GoesThrough DEF AfterLook
<1>7. CASE WaitReady(c)
  BY <1>1, <1>7 DEF WaitReady, AfterLook
<1>8. ~WaitFails(c)
  BY <1>0 DEF WaitFails, Easy
<1>9. CASE SetUp(c)
  <2>1. /\ cmd'[c] = [cmd[c] EXCEPT !.again = TRUE, !.step = IF Healthy THEN "wait" ELSE "install"]
        /\ \A d \in Commands \ {c} : cmd'[d] = cmd[d]
    BY <1>0, <1>9 DEF SetUp
  <2>2. cmd'[c].step \in {"wait", "install"} /\ (cmd'[c].step = "wait" => Healthy)
    BY <1>0, <2>1 DEF Call
  <2>3. Healthy => Started
    BY DEF Healthy, Answering, Is, Started
  <2> QED BY <1>9, <2>1, <2>2, <2>3, EasySame DEF SetUp, AfterLook
<1>10. CASE Install(c)
  <2>1. CASE StartUnit(c)
    <3>1. /\ cmd'[c].step = "wait" /\ \A d \in Commands \ {c} : cmd'[d] = cmd[d]
      BY <1>0, <2>1, GoesThrough DEF StartUnit, AfterLook
    <3>2. CASE Managed = {} /\ Is({"none"}) # {}
      <4>1. PICK r \in Routers : proc' = [proc EXCEPT ![r] = Begun(TRUE)]
        BY <2>1, <3>2 DEF StartUnit
      <4>2. proc'[r].phase = "begun"
        BY <1>0, <4>1 DEF Begun
      <4>3. Started'
        BY <4>2 DEF Started, Phase
      <4> QED BY <3>1, <4>1, <4>3, EasyBegun DEF AfterLook
    <3>3. CASE ~(Managed = {} /\ Is({"none"}) # {})
      <4>1. UNCHANGED proc
        BY <2>1, <3>3 DEF StartUnit
      <4>2. Started
        BY <3>3, RouterAssumption DEF Started, Managed, Living, Is, Ended
      <4> QED BY <3>1, <4>1, <4>2, EasySame DEF AfterLook
    <3> QED BY <3>2, <3>3
  <2>2. CASE Launches(c)
    BY <1>4, <2>2
  <2> QED BY <1>10, <2>1, <2>2 DEF Install
<1>11. ~Stops(c)
  BY <1>0 DEF Stops, At, Inspect, Ask, StopUnit, UnitStopped, Judge, GraceEnds, Signal,
     Signalled, Forget, Refresh, Remove, RemoveState, AfterLook
<1>12. ~RecordFails(c) /\ ~AskFails(c) /\ ~Interrupt(c)
  BY DEF RecordFails, AskFails, Interrupt, Another
<1> QED BY <1>2, <1>3, <1>5, <1>6, <1>7, <1>8, <1>9, <1>10, <1>11, <1>12 DEF Starts

LEMMA StepEasy ==
    ASSUME IInv, PastInv, EasyInv, [Next]_vars, OnlyRuns'
    PROVE  Easy'
<1>0. /\ Typed /\ PortsOwned /\ \A c \in Commands : Held(c) /\ Past(c)
      /\ faults' = 0 /\ \A c \in Commands : cmd'[c].kind \in {"none", "run"}
  BY DEF IInv, TypeOK, PastInv, OnlyRuns
<1>1. ASSUME NEW r \in Routers,
             Runs(r) \/ PublishFails(r) \/ Crash(r) \/ Restart(r) \/ NoRestart(r)
      PROVE  Easy'
  <2>1. UNCHANGED cmd /\ faults = 0
    BY <1>0, <1>1, RouterKeepsCommands, FaultsStay
  <2>2. Easy
    BY <1>0, <2>1 DEF EasyInv, OnlyRuns
  <2>3. \A s \in Routers : EasyMoves(s) /\ ~proc'[s].told
    BY <1>0, <1>1, <2>1, <2>2, EasyRouter
  <2>4. /\ \A s \in Routers : proc'[s].phase \in Ended \cup OnItsWay /\ ~proc'[s].told
        /\ Started' => Is(OnItsWay)' # {}
        /\ Started => Started'
    BY <1>0, <2>2, <2>3, EasyRouters DEF Started
  <2> QED BY <2>1, <2>2, <2>4 DEF Easy, At, Phase
<1>2. ASSUME NEW c \in Commands,
             \/ Look(c) \/ ReadRecord(c) \/ Starts(c) \/ Stops(c)
             \/ RecordFails(c) \/ AskFails(c) \/ Interrupt(c)
      PROVE  Easy'
  <2>1. faults = 0
    BY <1>0, FaultsStay
  <2>2. Easy
    <3>1. cmd[c].kind \in {"none", "run"}
      BY <1>0, <1>2, KindKept DEF Past, NotCalled
    <3>2. \A d \in Commands \ {c} : cmd[d].kind \in {"none", "run"}
      BY <1>0, <1>2, KindKept
    <3> QED BY <2>1, <3>1, <3>2 DEF EasyInv, OnlyRuns
  <2>3. /\ \A s \in Routers : EasyMoves(s) /\ ~proc'[s].told
        /\ cmd'[c].step \in AfterLook
        /\ cmd'[c].step = "wait" => Started \/ Started'
        /\ \A d \in Commands \ {c} : cmd'[d] = cmd[d]
    BY <1>0, <1>2, <2>1, <2>2, EasyCommand
  <2>4. /\ \A s \in Routers : proc'[s].phase \in Ended \cup OnItsWay /\ ~proc'[s].told
        /\ Started' => Is(OnItsWay)' # {}
        /\ Started => Started'
    BY <1>0, <2>2, <2>3, EasyRouters DEF Started
  <2> QED BY <2>2, <2>3, <2>4 DEF Easy, At, Phase
<1>3. ~Reboot
  <2>1. Reboot => faults = 0 /\ faults' = faults + 1
    BY <1>0, FaultsStay DEF Reboot, Another
  <2> QED BY <1>0, <2>1
<1>4. CASE AllDone \/ UNCHANGED vars
  BY <1>0, <1>4 DEF AllDone, vars, EasyInv, OnlyRuns, Easy, Is, Phase, At, Started
<1> QED BY <1>1, <1>2, <1>3, <1>4 DEF Next

LEMMA InitEasy == Init => EasyInv
<1> SUFFICES ASSUME Init
             PROVE  Easy
  BY DEF EasyInv
<1> DEFINE first == [Begun(systemd) EXCEPT !.phase = "serving", !.token = TRUE]
<1>0. first.phase = "serving" /\ first.told = FALSE
  BY DEF Begun
<1>1. \A r \in Routers : proc[r] \in {NotStarted, first}
  BY DEF Init
<1> HIDE DEF first
<1>2. \A r \in Routers : Phase(r) \in {"none", "serving"} /\ ~proc[r].told
  <2> SUFFICES ASSUME NEW r \in Routers
               PROVE  Phase(r) \in {"none", "serving"} /\ ~proc[r].told
    OBVIOUS
  <2>1. CASE proc[r] = NotStarted
    BY <2>1 DEF NotStarted, Phase
  <2>2. CASE proc[r] = first
    BY <1>0, <2>2 DEF Phase
  <2> QED BY <1>1, <2>1, <2>2
<1>3. \A c \in Commands : At(c, "idle")
  BY DEF Init, NotCalled, At
<1> QED BY <1>2, <1>3 DEF Easy, Started, Is, Ended, OnItsWay, At

\* Every command that needs a router gets one, for any number of commands and
\* of routers that they start at once: a router fails only while another has
\* the port, and that one is on its way to serve.
THEOREM EveryStartSucceeds == Spec => []StartsSucceed
<1>1. IInv /\ PastInv /\ EasyInv /\ [Next]_vars => EasyInv'
  BY StepEasy DEF EasyInv
<1>2. EasyInv => StartsSucceed
  BY DEF EasyInv, StartsSucceed, Easy, At, AfterLook
<1> QED BY <1>1, <1>2, InitEasy, InvHolds, PastHolds, PTL DEF Spec
=============================================================================
