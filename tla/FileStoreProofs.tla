-------------------------- MODULE FileStoreProofs ---------------------------
(***************************************************************************)
(* The file store implements the atomic store, whatever the tables, the    *)
(* updates and the number of processes.                                    *)
(*                                                                         *)
(* TypeOK and WriterOwnsTable are inductive together: the lock makes the   *)
(* process between its read of the file and its last rename the only one   *)
(* there.  With them each step of the file store is one step of the atomic *)
(* store or changes nothing that its variables are mapped to.              *)
(***************************************************************************)
EXTENDS FileStore, TLAPS

Inv == TypeOK /\ WriterOwnsTable

\* Between updates the table is the file.
LEMMA OutsideGap ==
  ASSUME NEW f, NEW b, NEW at, \A p \in Procs : at[p] # "gap"
  PROVE  TableOf(f, b, at) = Contents(f)
  BY DEF TableOf, InGap

\* In the middle of an update on Windows it is the backup.
LEMMA InsideGap ==
  ASSUME NEW f, NEW b, NEW at, NEW p \in Procs, at[p] = "gap",
         \A q \in Procs : at[q] = "gap" => q = p
  PROVE  TableOf(f, b, at) = Contents(b[p])
<1>1. InGap(at) = {p}
  BY DEF InGap
<1>2. (CHOOSE q \in InGap(at) : TRUE) = p
  BY <1>1
<1>. QED  BY <1>1, <1>2 DEF TableOf

\* The table depends on the file and on the backups of those in the gap only.
LEMMA SameTable ==
  ASSUME NEW f, NEW b, NEW at, NEW c, NEW then,
         \A q \in Procs : then[q] = "gap" <=> at[q] = "gap",
         \A q \in Procs : at[q] = "gap" => c[q] = b[q]
  PROVE  TableOf(f, c, then) = TableOf(f, b, at)
<1>1. InGap(then) = InGap(at)
  BY DEF InGap
<1>2. CASE InGap(at) = {}
  BY <1>1, <1>2 DEF TableOf
<1>3. CASE InGap(at) # {}
  <2> DEFINE p == CHOOSE q \in InGap(at) : TRUE
  <2>1. p \in InGap(at)
    BY <1>3
  <2>2. c[p] = b[p]
    BY <2>1 DEF InGap
  <2>. QED  BY <1>1, <1>3, <2>2 DEF TableOf
<1>. QED  BY <1>2, <1>3

\* Only the holder of the lock
\* is at a critical step: nobody else is when it reads or changes the file.
LEMMA AloneInside ==
  ASSUME Inv, NEW p \in Procs, pc[p] \in Critical
  PROVE  \A q \in Procs : pc[q] \in Critical => q = p
  BY DEF Inv, WriterOwnsTable

\* The process that holds the lock finds the table in the file,
LEMMA TableIsFile ==
  ASSUME Inv, NEW p \in Procs, pc[p] \in {"locked", "save", "saved", "loadAgain"}
  PROVE  Table = Contents(file)
  BY AloneInside, OutsideGap DEF Table, Critical

\* or, once it has moved the file aside, in its backup.
LEMMA TableIsBackup ==
  ASSUME Inv, NEW p \in Procs, pc[p] = "gap"
  PROVE  Table = Contents(backup[p])
  BY AloneInside, InsideGap DEF Table, Critical

\* In every state the callers see some table.
LEMMA TableTyped == ASSUME Inv PROVE Table \in Tables
  BY FileAssumption DEF Inv, TypeOK, Table, TableOf, InGap, Contents

-----------------------------------------------------------------------------
(* The invariant *)

\* The store starts without a file, without a lock and with nobody in a call.
LEMMA InitInv == Init => Inv
<1> SUFFICES ASSUME Init PROVE Inv
  OBVIOUS
<1>1. (CHOOSE u \in Updates : TRUE) \in Updates
  BY FileAssumption
<1>. QED
  BY <1>1, FileAssumption DEF Init, Inv, TypeOK, WriterOwnsTable, Steps, Critical

\* The operating system stays the same.
LEMMA SystemStays == ASSUME [Next]_vars PROVE windows' = windows
  BY DEF Next, Run, vars

\* Every step keeps the variables in their types.
LEMMA StepTyped ==
  ASSUME Inv, [Next]_vars
  PROVE  TypeOK'
<1>0. windows' = windows
  BY SystemStays
<1> USE <1>0, FileAssumption DEF TypeOK, Inv, Goto, Steps
<1>1. ASSUME NEW p \in Procs, Run(p) PROVE TypeOK'
  <2>1. CASE Acquire(p)
    BY <2>1 DEF Acquire
  <2>2. CASE TimeOut(p)
    BY <2>2 DEF TimeOut
  <2>3. CASE Modify(p)
    <3>1. Contents(file) \in Tables
      BY DEF Contents
    <3>2. update[p][Contents(file)] \in Tables \cup {Refused}
      BY <3>1
    <3>. QED  BY <2>3, <3>2 DEF Modify
  <2>4. CASE GiveUp(p)
    BY <2>4 DEF GiveUp
  <2>5. CASE Replace(p)
    BY <2>5 DEF Replace
  <2>6. CASE MoveAside(p)
    BY <2>6 DEF MoveAside
  <2>7. CASE MoveIn(p)
    BY <2>7 DEF MoveIn
  <2>8. CASE MoveBack(p)
    BY <2>8 DEF MoveBack
  <2>9. CASE LoadUnlocked(p)
    BY <2>9 DEF LoadUnlocked
  <2>10. CASE LoadLocked(p)
    BY <2>10 DEF LoadLocked, Contents
  <2>11. CASE LoadFails(p)
    BY <2>11 DEF LoadFails
  <2>12. CASE Return(p)
    BY <2>12 DEF Return, Released
  <2>. QED
    BY <1>1, <2>1, <2>2, <2>3, <2>4, <2>5, <2>6, <2>7, <2>8, <2>9, <2>10, <2>11, <2>12
    DEF Run
<1>2. ASSUME NEW p \in Procs, Call(p) PROVE TypeOK'
  <2>1. CASE CallLoad(p)
    BY <2>1 DEF CallLoad
  <2>2. ASSUME NEW u \in Updates, CallUpdate(p, u) PROVE TypeOK'
    BY <2>2 DEF CallUpdate
  <2>. QED  BY <1>2, <2>1, <2>2 DEF Call
<1>3. ASSUME NEW p \in Procs, Crash(p) PROVE TypeOK'
  BY <1>3 DEF Crash, Released
<1>4. CASE UNCHANGED vars
  BY <1>4 DEF vars
<1>. QED  BY <1>1, <1>2, <1>3, <1>4 DEF Next

\* A step of p that keeps the table and lets p enter neither the steps before a
\* rename nor a critical step without the lock keeps the lock's promise.
LEMMA QuietStep ==
  ASSUME Inv, NEW p \in Procs, NEW step \in Steps \ {"save", "gap"},
         Goto(p, step), Table' = Table, UNCHANGED <<file, update, next, windows>>,
         step \in Critical => holder' = p,
         \A q \in Procs : q # p /\ holder = q => holder' = q
  PROVE  WriterOwnsTable'
<1>1. /\ pc'[p] = step
      /\ \A q \in Procs : q # p => pc'[q] = pc[q]
  BY DEF Inv, TypeOK, Goto
<1>. QED  BY <1>1 DEF Inv, WriterOwnsTable

-----------------------------------------------------------------------------
(* What each step does to the table *)

\* The steps that change neither the file nor a backup and do not enter or leave
\* the gap do not change the table.
LEMMA QuietTable ==
  ASSUME Inv, NEW p \in Procs, NEW step \in Steps \ {"gap"},
         pc[p] # "gap", Goto(p, step), UNCHANGED file,
         \A q \in Procs : q # p => backup'[q] = backup[q]
  PROVE  Table' = Table
<1>1. \A q \in Procs : pc'[q] = IF q = p THEN step ELSE pc[q]
  BY DEF Inv, TypeOK, Goto
<1>. QED  BY <1>1, SameTable DEF Table

\* Both ways of replacing the file put the new table in the place of the one
\* that the update function was given.
LEMMA ReplaceTable ==
  ASSUME Inv, NEW p \in Procs, Replace(p) \/ MoveIn(p)
  PROVE  /\ Table' = next[p]
         /\ next[p] = update[p][Table]
         /\ next[p] # Refused
<1>1. pc[p] \in {"save", "gap"} /\ pc[p] \in Critical
  BY DEF Replace, MoveIn, Critical
<1>2. /\ file' = next[p]
      /\ \A q \in Procs : pc'[q] = IF q = p THEN "saved" ELSE pc[q]
  BY DEF Replace, MoveIn, Goto, Inv, TypeOK
<1>3. \A q \in Procs : pc'[q] # "gap"
  BY <1>1, <1>2, AloneInside DEF Critical
<1>4. next[p] \in Tables
  BY DEF Inv, TypeOK
<1>5. Table' = Contents(next[p])
  BY <1>2, <1>3, OutsideGap DEF Table
<1>. QED  BY <1>1, <1>4, <1>5, FileAssumption DEF Contents, Inv, WriterOwnsTable

\* Moving the file aside changes nothing for the callers.
LEMMA AsideTable ==
  ASSUME Inv, NEW p \in Procs, MoveAside(p)
  PROVE  Table' = Table
<1>1. Table = Contents(file)
  BY TableIsFile DEF MoveAside
<1>2. /\ \A q \in Procs : pc'[q] = IF q = p THEN "gap" ELSE pc[q]
      /\ backup'[p] = file
  BY DEF MoveAside, Goto, Inv, TypeOK
<1>3. \A q \in Procs : pc'[q] = "gap" => q = p
  BY <1>2, AloneInside DEF MoveAside, Critical
<1>4. Table' = Contents(backup'[p])
  BY <1>2, <1>3, InsideGap DEF Table
<1>. QED  BY <1>1, <1>2, <1>4 DEF Contents

\* Leaving the gap without a new file gives back the old table or none.
LEMMA LeaveGapTable ==
  ASSUME Inv, NEW p \in Procs, NEW step \in Steps \ {"gap"},
         pc[p] = "gap", Goto(p, step), file' \in {backup[p], file}
  PROVE  Table' \in {Table, Empty} /\ windows
<1>1. \A q \in Procs : pc'[q] = IF q = p THEN step ELSE pc[q]
  BY DEF Goto, Inv, TypeOK
<1>2. \A q \in Procs : pc'[q] # "gap"
  BY <1>1, AloneInside DEF Critical
<1>3. Table' = Contents(file')
  BY <1>2, OutsideGap DEF Table
<1>4. Table = Contents(backup[p]) /\ file = Missing /\ windows
  BY TableIsBackup DEF Inv, WriterOwnsTable
<1>. QED  BY <1>3, <1>4 DEF Contents

-----------------------------------------------------------------------------
(* Every step keeps the lock's promise *)

\* Every step, of whatever process, keeps what the lock is there for.
LEMMA StepOwned ==
  ASSUME Inv, [Next]_vars
  PROVE  WriterOwnsTable'
<1>0. windows' = windows
  BY SystemStays
<1> USE <1>0
<1>1. ASSUME NEW p \in Procs, Run(p) PROVE WriterOwnsTable'
  <2> USE DEF Inv, TypeOK, Goto
  <2>1. CASE Acquire(p)
    <3>1. PICK step \in {"locked", "loadAgain"} : Goto(p, step)
      BY <2>1 DEF Acquire
    <3>2. pc[p] # "gap" /\ UNCHANGED <<file, backup, update, next>> /\ holder' = p
      BY <2>1 DEF Acquire
    <3>3. Table' = Table
      BY <3>1, <3>2, QuietTable DEF Steps
    <3>4. \A q \in Procs : holder # q
      BY <2>1, FileAssumption DEF Acquire
    <3>. QED  BY <3>1, <3>2, <3>3, <3>4, QuietStep DEF Steps
  <2>2. CASE TimeOut(p)
    <3>1. Table' = Table
      BY <2>2, QuietTable DEF TimeOut, Steps
    <3>. QED  BY <2>2, <3>1, QuietStep DEF TimeOut, Steps, Critical
  <2>3. CASE Modify(p)
    <3>1. Table' = Table /\ Table = Contents(file)
      BY <2>3, QuietTable, TableIsFile DEF Modify, Steps
    <3>2. CASE update[p][Contents(file)] = Refused
      BY <2>3, <3>1, <3>2, QuietStep DEF Modify, Steps, Critical
    <3>3. CASE update[p][Contents(file)] # Refused
      <4>1. /\ \A q \in Procs : pc'[q] = IF q = p THEN "save" ELSE pc[q]
            /\ \A q \in Procs : next'[q] = IF q = p THEN update[p][Contents(file)] ELSE next[q]
            /\ UNCHANGED <<file, holder, update>>
        BY <2>3, <3>3 DEF Modify
      <4>2. holder = p
        BY <2>3 DEF Modify, WriterOwnsTable, Critical
      <4>. QED  BY <3>1, <4>1, <4>2 DEF WriterOwnsTable
    <3>. QED  BY <3>2, <3>3
  <2>4. CASE GiveUp(p)
    <3>1. Table' = Table
      BY <2>4, QuietTable DEF GiveUp, Steps
    <3>. QED  BY <2>4, <3>1, QuietStep DEF GiveUp, Steps, Critical
  <2>5. CASE Replace(p) \/ MoveAside(p) \/ MoveIn(p) \/ MoveBack(p)
    <3>1. pc[p] \in Critical
      BY <2>5 DEF Replace, MoveAside, MoveIn, MoveBack, Critical
    <3>2. \A q \in Procs : q # p => pc[q] \notin Critical
      BY <3>1, AloneInside
    <3>3. PICK step \in {"saved", "gap", "failed"} :
            /\ \A q \in Procs : pc'[q] = IF q = p THEN step ELSE pc[q]
            /\ UNCHANGED <<holder, update, next>>
            /\ step = "gap" => MoveAside(p)
      BY <2>5 DEF Replace, MoveAside, MoveIn, MoveBack
    <3>4. step = "gap" => /\ Table' = Table /\ file' = Missing /\ windows
                          /\ next[p] = update[p][Table]
      BY <3>3, AsideTable DEF MoveAside, WriterOwnsTable
    <3>5. holder = p
      BY <3>1 DEF WriterOwnsTable
    <3>. QED  BY <3>2, <3>3, <3>4, <3>5 DEF WriterOwnsTable, Critical
  <2>6. CASE LoadUnlocked(p)
    <3>1. PICK step \in {"waitAgain", "loaded"} : Goto(p, step)
      BY <2>6 DEF LoadUnlocked
    <3>2. Table' = Table
      BY <2>6, <3>1, QuietTable DEF LoadUnlocked, Steps
    <3>. QED  BY <2>6, <3>1, <3>2, QuietStep DEF LoadUnlocked, Steps, Critical
  <2>7. CASE LoadLocked(p)
    <3>1. Table' = Table
      BY <2>7, QuietTable DEF LoadLocked, Steps
    <3>. QED  BY <2>7, <3>1, QuietStep DEF LoadLocked, Steps, Critical
  <2>8. CASE LoadFails(p)
    <3>1. Table' = Table
      BY <2>8, QuietTable DEF LoadFails, Steps
    <3>. QED  BY <2>8, <3>1, QuietStep DEF LoadFails, Steps, Critical
  <2>9. CASE Return(p)
    <3>1. Table' = Table
      BY <2>9, QuietTable DEF Return, Steps
    <3>2. \A q \in Procs : q # p /\ holder = q => holder' = q
      BY <2>9 DEF Return, Released
    <3>. QED  BY <2>9, <3>1, <3>2, QuietStep DEF Return, Steps, Critical
  <2>. QED
    BY <1>1, <2>1, <2>2, <2>3, <2>4, <2>5, <2>6, <2>7, <2>8, <2>9 DEF Run
<1>2. ASSUME NEW p \in Procs, CallLoad(p) PROVE WriterOwnsTable'
  <2>1. Table' = Table
    BY <1>2, QuietTable DEF CallLoad, Steps
  <2>. QED  BY <1>2, <2>1, QuietStep DEF CallLoad, Steps, Critical
<1>3. ASSUME NEW p \in Procs, NEW u \in Updates, CallUpdate(p, u)
      PROVE  WriterOwnsTable'
  <2>1. Table' = Table
    BY <1>3, QuietTable DEF CallUpdate, Steps
  <2>2. /\ \A q \in Procs : pc'[q] = IF q = p THEN "wait" ELSE pc[q]
        /\ \A q \in Procs : q # p => update'[q] = update[q]
        /\ UNCHANGED <<file, holder, next>>
    BY <1>3 DEF CallUpdate, Goto, Inv, TypeOK
  <2>. QED  BY <2>1, <2>2 DEF Inv, WriterOwnsTable, Critical
<1>4. ASSUME NEW p \in Procs, Crash(p) PROVE WriterOwnsTable'
  <2>1. /\ \A q \in Procs : pc'[q] = IF q = p THEN "idle" ELSE pc[q]
        /\ \A q \in Procs : q # p /\ holder = q => holder' = q
        /\ UNCHANGED <<file, update, next>>
    BY <1>4 DEF Crash, Released, Goto, Inv, TypeOK
  <2>2. CASE pc[p] = "gap"
    <3>1. \A q \in Procs : pc'[q] \notin Critical
      BY <2>1, <2>2, AloneInside DEF Critical
    <3>. QED  BY <3>1 DEF WriterOwnsTable, Critical
  <2>3. CASE pc[p] # "gap"
    <3>1. Table' = Table
      BY <1>4, <2>3, QuietTable DEF Crash, Steps
    <3>. QED  BY <2>1, <3>1 DEF Inv, WriterOwnsTable, Critical
  <2>. QED  BY <2>2, <2>3
<1>5. CASE UNCHANGED vars
  BY <1>5, SameTable DEF vars, Inv, WriterOwnsTable, Table
<1>. QED  BY <1>1, <1>2, <1>3, <1>4, <1>5 DEF Next, Call

\* The inductive invariant of the file store.
THEOREM InvHolds == Spec => []Inv
<1>1. Inv /\ [Next]_vars => Inv'
  BY StepTyped, StepOwned DEF Inv
<1>. QED  BY InitInv, <1>1, PTL DEF Spec

\* The variables keep their types.
THEOREM TypeCorrect == Spec => []TypeOK
<1>1. Inv => TypeOK
  BY DEF Inv
<1>. QED  BY InvHolds, <1>1, PTL

\* Between its read of the file and its last rename a process is alone, and saves
\* what its update function makes of the table as it still is.
THEOREM WritersAlone == Spec => []WriterOwnsTable
<1>1. Inv => WriterOwnsTable
  BY DEF Inv
<1>. QED  BY InvHolds, <1>1, PTL

-----------------------------------------------------------------------------
(* The file store implements the atomic store *)

\* A file store that starts is an atomic store that starts.
LEMMA InitAbstract == Init => Abstract!Init
<1> SUFFICES ASSUME Init PROVE Abstract!Init
  OBVIOUS
<1>1. Table = Empty
  BY OutsideGap DEF Init, Table, Contents
<1>2. Phase = [p \in Procs |-> "idle"]
  BY DEF Init, Phase, PhaseOf
<1>. QED  BY <1>1, <1>2 DEF Init, Abstract!Init

\* How the phase follows the program counter.
LEMMA PhaseFollows ==
  ASSUME Inv, NEW p \in Procs, NEW step \in Steps, Goto(p, step)
  PROVE  /\ Phase' = [Phase EXCEPT ![p] = PhaseOf(step)]
         /\ Phase[p] = PhaseOf(pc[p])
         /\ PhaseOf(step) = PhaseOf(pc[p]) => Phase' = Phase
<1>1. \A q \in Procs : pc'[q] = IF q = p THEN step ELSE pc[q]
  BY DEF Inv, TypeOK, Goto
<1>2. /\ Phase' = [Phase EXCEPT ![p] = PhaseOf(step)]
      /\ Phase[p] = PhaseOf(pc[p])
  BY DEF Inv, TypeOK, Goto, Phase
<1>3. ASSUME PhaseOf(step) = PhaseOf(pc[p]) PROVE Phase' = Phase
  <2>1. \A q \in Procs : PhaseOf(pc[q]') = PhaseOf(pc[q])
    BY <1>1, <1>3
  <2>. QED  BY <2>1 DEF Phase
<1>. QED  BY <1>2, <1>3

\* Every step is a step of the atomic store or changes nothing of it.
LEMMA StepAbstract ==
  ASSUME Inv, [Next]_vars
  PROVE  [Abstract!Next]_(Abstract!vars)
<1> DEFINE Quiet == UNCHANGED <<Table, Phase, update, got, outcome>>
<1>1. ASSUME NEW p \in Procs, Run(p)
      PROVE  Quiet \/ Abstract!Step(p)
  <2>1. CASE Acquire(p)
    <3>1. PICK step \in {"locked", "loadAgain"} :
            Goto(p, step) /\ PhaseOf(step) = PhaseOf(pc[p])
      BY <2>1 DEF Acquire, PhaseOf
    <3>2. Table' = Table
      BY <2>1, <3>1, QuietTable DEF Acquire, Steps
    <3>3. Phase' = Phase
      BY <3>1, PhaseFollows DEF Steps
    <3>. QED  BY <2>1, <3>2, <3>3 DEF Acquire
  <2>2. CASE TimeOut(p) \/ GiveUp(p) \/ LoadFails(p)
    <3>1. Goto(p, "failed") /\ PhaseOf(pc[p]) \in {"update", "load"}
      BY <2>2 DEF TimeOut, GiveUp, LoadFails, PhaseOf
    <3>2. Table' = Table
      BY <2>2, <3>1, QuietTable DEF TimeOut, GiveUp, LoadFails, Steps
    <3>3. Phase' = [Phase EXCEPT ![p] = "failed"] /\ Phase[p] \in {"update", "load"}
      BY <3>1, PhaseFollows DEF Steps, PhaseOf
    <3>4. Abstract!Fail(p)
      BY <2>2, <3>2, <3>3 DEF TimeOut, GiveUp, LoadFails, Abstract!Fail
    <3>. QED  BY <3>4 DEF Abstract!Step
  <2>3. CASE Modify(p)
    <3>1. Table' = Table
      BY <2>3, QuietTable DEF Modify, Steps
    <3>2. CASE Goto(p, "failed")
      <4>1. Phase' = [Phase EXCEPT ![p] = "failed"] /\ Phase[p] = "update"
        BY <2>3, <3>2, PhaseFollows DEF Modify, Steps, PhaseOf
      <4>2. Abstract!Fail(p)
        BY <2>3, <3>1, <4>1 DEF Modify, Abstract!Fail
      <4>. QED  BY <4>2 DEF Abstract!Step
    <3>3. CASE Goto(p, "save")
      <4>1. Phase' = Phase
        BY <2>3, <3>3, PhaseFollows DEF Modify, Steps, PhaseOf
      <4>. QED  BY <2>3, <3>1, <4>1 DEF Modify
    <3>. QED  BY <2>3, <3>2, <3>3 DEF Modify
  <2>4. CASE Replace(p) \/ MoveIn(p)
    <3>1. Phase' = [Phase EXCEPT ![p] = "applied"] /\ Phase[p] = "update"
      BY <2>4, PhaseFollows DEF Replace, MoveIn, Steps, PhaseOf
    <3>2. Abstract!Apply(p)
      BY <2>4, <3>1, ReplaceTable DEF Replace, MoveIn, Abstract!Apply
    <3>. QED  BY <3>2 DEF Abstract!Step
  <2>5. CASE MoveAside(p)
    <3>1. Phase' = Phase
      BY <2>5, PhaseFollows DEF MoveAside, Steps, PhaseOf
    <3>. QED  BY <2>5, <3>1, AsideTable DEF MoveAside
  <2>6. CASE MoveBack(p)
    <3>1. Phase' = [Phase EXCEPT ![p] = "failed"] /\ Phase[p] = "update"
      BY <2>6, PhaseFollows DEF MoveBack, Steps, PhaseOf
    <3>2. file = Missing
      BY <2>6 DEF MoveBack, Inv, WriterOwnsTable
    <3>3. Table' \in {Table, Empty} /\ windows
      BY <2>6, <3>2, LeaveGapTable DEF MoveBack, Steps
    <3>4. Abstract!Fail(p) \/ Abstract!Lose(p)
      BY <2>6, <3>1, <3>3 DEF MoveBack, Abstract!Fail, Abstract!Lose
    <3>. QED  BY <3>4 DEF Abstract!Step
  <2>7. CASE LoadUnlocked(p)
    <3>1. Table' = Table
      BY <2>7, QuietTable DEF LoadUnlocked, Steps
    <3>2. CASE file = Missing
      <4>1. Phase' = Phase
        BY <2>7, <3>2, PhaseFollows DEF LoadUnlocked, Steps, PhaseOf
      <4>. QED  BY <2>7, <3>1, <3>2, <4>1 DEF LoadUnlocked
    <3>3. CASE file # Missing
      <4>1. Phase' = [Phase EXCEPT ![p] = "read"] /\ Phase[p] = "load"
        BY <2>7, <3>3, PhaseFollows DEF LoadUnlocked, Steps, PhaseOf
      <4>2. \A q \in Procs : pc[q] # "gap"
        BY <3>3 DEF Inv, WriterOwnsTable
      <4>3. Table = file
        BY <3>3, <4>2, OutsideGap DEF Table, Contents
      <4>4. Abstract!Read(p)
        BY <2>7, <3>1, <3>3, <4>1, <4>3 DEF LoadUnlocked, Abstract!Read
      <4>. QED  BY <4>4 DEF Abstract!Step
    <3>. QED  BY <3>2, <3>3
  <2>8. CASE LoadLocked(p)
    <3>1. Table' = Table /\ Table = Contents(file)
      BY <2>8, QuietTable, TableIsFile DEF LoadLocked, Steps
    <3>2. Phase' = [Phase EXCEPT ![p] = "read"] /\ Phase[p] = "load"
      BY <2>8, PhaseFollows DEF LoadLocked, Steps, PhaseOf
    <3>3. Abstract!Read(p)
      BY <2>8, <3>1, <3>2 DEF LoadLocked, Abstract!Read
    <3>. QED  BY <3>3 DEF Abstract!Step
  <2>9. CASE Return(p)
    <3>1. Table' = Table
      BY <2>9, QuietTable DEF Return, Steps
    <3>2. /\ Phase' = [Phase EXCEPT ![p] = "idle"]
          /\ Phase[p] \in {"applied", "read", "failed"}
          /\ Phase[p] = "failed" => pc[p] = "failed"
      BY <2>9, PhaseFollows DEF Return, Steps, PhaseOf
    <3>3. Abstract!Return(p)
      BY <2>9, <3>1, <3>2 DEF Return, Abstract!Return
    <3>. QED  BY <3>3 DEF Abstract!Step
  <2>. QED
    BY <1>1, <2>1, <2>2, <2>3, <2>4, <2>5, <2>6, <2>7, <2>8, <2>9 DEF Run
<1>2. ASSUME NEW p \in Procs, CallLoad(p)
      PROVE  Abstract!Step(p)
  <2>1. Table' = Table
    BY <1>2, QuietTable DEF CallLoad, Steps
  <2>2. Phase' = [Phase EXCEPT ![p] = "load"] /\ Phase[p] = "idle"
    BY <1>2, PhaseFollows DEF CallLoad, Steps, PhaseOf
  <2>3. Abstract!CallLoad(p)
    BY <1>2, <2>1, <2>2 DEF CallLoad, Abstract!CallLoad
  <2>. QED  BY <2>3 DEF Abstract!Step
<1>3. ASSUME NEW p \in Procs, NEW u \in Updates, CallUpdate(p, u)
      PROVE  Abstract!Step(p)
  <2>1. Table' = Table
    BY <1>3, QuietTable DEF CallUpdate, Steps
  <2>2. Phase' = [Phase EXCEPT ![p] = "update"] /\ Phase[p] = "idle"
    BY <1>3, PhaseFollows DEF CallUpdate, Steps, PhaseOf
  <2>3. Abstract!CallUpdate(p, u)
    BY <1>3, <2>1, <2>2 DEF CallUpdate, Abstract!CallUpdate
  <2>. QED  BY <2>3 DEF Abstract!Step
<1>4. ASSUME NEW p \in Procs, Crash(p)
      PROVE  Abstract!Step(p)
  <2>1. Phase' = [Phase EXCEPT ![p] = "idle"]
    BY <1>4, PhaseFollows DEF Crash, Steps, PhaseOf
  <2>2. Table' = Table \/ (windows /\ Table' = Empty)
    <3>1. CASE pc[p] = "gap"
      BY <1>4, <3>1, LeaveGapTable DEF Crash, Steps
    <3>2. CASE pc[p] # "gap"
      BY <1>4, <3>2, QuietTable DEF Crash, Steps
    <3>. QED  BY <3>1, <3>2
  <2>3. Abstract!Crash(p)
    BY <1>4, <2>1, <2>2 DEF Crash, Abstract!Crash
  <2>. QED  BY <2>3 DEF Abstract!Step
<1>5. CASE UNCHANGED vars
  BY <1>5, SameTable DEF vars, Table, Phase, Abstract!vars
<1>6. windows' = windows
  BY SystemStays
<1>. QED
  BY <1>1, <1>2, <1>3, <1>4, <1>5, <1>6 DEF Next, Call, Abstract!Next, Abstract!vars

\* Loads and updates of any number of processes take effect one at a time,
\* although a load takes no lock and a file may be missing for an instant.
THEOREM Implements == Spec => Linearizable
<1>. QED
  BY InitAbstract, InvHolds, StepAbstract, PTL
  DEF Spec, Linearizable, Abstract!Spec

=============================================================================
