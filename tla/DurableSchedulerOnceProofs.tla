---------------------- MODULE DurableSchedulerOnceProofs ----------------------
(***************************************************************************)
(* Proofs about DurableScheduler where a single process polls.  A slot     *)
(* runs once, mishaps aside.  The runtime file, and after load_records the *)
(* copy of the pass, is ahead of the starts except while the poller is     *)
(* between try_acquire_claim and update_runtime; a step that leaves that   *)
(* window without update_runtime is a mishap, and so is one that puts an   *)
(* older runtime state in place of the file.                               *)
(*                                                                         *)
(* And what such a process can die of: nothing but a fault or a delete     *)
(* (Undisturbed: a pass finds what it has seen).                           *)
(***************************************************************************)
EXTENDS DurableSchedulerProofs

SinglePoller == \A p, q \in Pollers : p = q

\* Between the start of a run and the end of its record.
AtRun(p, t) == pc[p] \in InRun /\ t = Current(p)

\* A slot that may be started once more.
Spare(t, s) == started[t][s] <= mishaps[t]

\* A runtime state from which no slot has been started yet, mishaps aside.
Ahead(t, r) == r.next # 0 => \A s \in Times : s >= r.next => Spare(t, s)

\* The runtime state that load_records would take for the task.
OnDisk(t) == IF runtime[t] = Absent THEN initialize_runtime_state(t) ELSE runtime[t]

\* Nothing can be known yet of a task whose definition is still to be written.
Creating(c) == cmd[c].step \in {"count", "write_definition"}
Untouched(t) == first[t] = 0 \/ \E c \in Commands : Creating(c) /\ cmd[c].task = t

UntouchedTasks ==
    \A t \in Tasks : Untouched(t) =>
        /\ t \notin defined /\ runtime[t] = Absent
        /\ \A p \in Pollers : records[p][t] = Absent /\ t \notin left[p]
        /\ \A s \in Times : Spare(t, s)

\* A definition is written by one command, and removed for good.
OneCreator ==
    \A c, d \in Commands :
        Creating(c) /\ c # d /\ cmd[d].step # "idle" => cmd[d].task # cmd[c].task

Undefined == \A c \in Commands : cmd[c].step = "remove_runtime" => cmd[c].task \notin defined

\* The copies of the pass and the files are ahead of the starts.
CopiesAhead ==
    \A p \in Pollers : \A t \in Tasks : records[p][t] # Absent /\ records[p][t].next # 0 =>
        \A s \in Times :
            \/ s > records[p][t].next
            \/ s = records[p][t].next /\ ~ AtRun(p, t)
            => Spare(t, s)

FilesAhead ==
    \A t \in Tasks :
        /\ t \in defined \/ runtime[t] # Absent
        /\ \A p \in Pollers : ~ AtRun(p, t)
        => Ahead(t, OnDisk(t))

OnceInv ==
    /\ UnusedIds
    /\ UntouchedTasks
    /\ OneCreator
    /\ Undefined
    /\ CopiesAhead
    /\ FilesAhead
    /\ RunsOnce
-------------------------------------------------------------------------------
(* Starts and mishaps *)

\* Mishaps are counted, never forgotten.
LEMMA MishapsGrow ==
    ASSUME TypeOK, [Next]_vars, NEW t \in Tasks
    PROVE  mishaps[t] \in Nat /\ mishaps'[t] \in Nat /\ mishaps[t] <= mishaps'[t]
<1>0. /\ PollerTypes /\ FileTypes /\ CommandTypes
      /\ mishaps \in [Tasks -> 0 .. MaxRuns] /\ mishaps' \in [Tasks -> 0 .. MaxRuns]
  BY HistoryTypesKept DEF TypeOK, HistoryTypes
<1>1. ASSUME NEW u \in Tasks, Mishap(u) PROVE mishaps[t] <= mishaps'[t]
  BY <1>0, <1>1 DEF Mishap
<1>2. ASSUME mishaps' = mishaps PROVE mishaps[t] <= mishaps'[t]
  BY <1>0, <1>2
<1>3. ASSUME NEW p \in Pollers, PollerStep(p) PROVE mishaps[t] <= mishaps'[t]
  <2>1. CASE read_runtime(p) \/ remove_claim(p)
    BY <1>1, <1>2, <2>1, AtWork DEF read_runtime, remove_claim
  <2>2. CASE \/ BeginPass(p) \/ read_definition(p) \/ EndLoad(p) \/ EndPass(p)
             \/ try_acquire_claim(p) \/ claim_is_taken(p) \/ claim_is_stale(p)
             \/ remove_stale(p) \/ execute_record(p) \/ release_claim(p) \/ update_runtime(p)
    BY <1>2, <2>2
    DEF BeginPass, read_definition, EndLoad, EndPass, try_acquire_claim, claim_is_taken,
        claim_is_stale, remove_stale, execute_record, release_claim, update_runtime, historyVars
  <2> QED
    BY <1>3, <2>1, <2>2 DEF PollerStep
<1>4. ASSUME NEW p \in Pollers, PollerFault(p) PROVE mishaps[t] <= mishaps'[t]
  <2>1. CASE update_runtime_fails(p)
    BY <1>1, <2>1, AtWork DEF update_runtime_fails
  <2>2. CASE Crash(p)
    BY <1>1, <1>2, <2>2, AtWork DEF Crash, InRun, Holding
  <2>3. CASE try_acquire_claim_fails(p) \/ Restart(p)
    BY <1>2, <2>3 DEF try_acquire_claim_fails, Restart, historyVars
  <2> QED
    BY <1>4, <2>1, <2>2, <2>3 DEF PollerFault
<1>5. ASSUME NEW c \in Commands, CommandStep(c) PROVE mishaps[t] <= mishaps'[t]
  <2>1. CASE write_runtime(c)
    BY <1>0, <1>1, <1>2, <2>1, CommandTask DEF write_runtime
  <2>2. CASE \/ build_definition(c) \/ count(c) \/ write_definition(c) \/ load_record(c)
             \/ delete(c) \/ CommandEnds(c)
    BY <1>2, <2>2
    DEF build_definition, count, write_definition, load_record, delete, CommandEnds, historyVars
  <2> QED
    BY <1>5, <2>1, <2>2 DEF CommandStep
<1>6. mishaps[t] <= mishaps'[t]
  BY <1>2, <1>3, <1>4, <1>5 DEF Next, Tick, ClaimAges, vars, historyVars
<1> QED
  BY <1>0, <1>6

\* Only try_acquire_claim counts a start, and counts one.
LEMMA StartsCounted ==
    ASSUME TypeOK, [Next]_vars, NEW t \in Tasks, NEW s \in Times
    PROVE  /\ started[t][s] \in 0 .. MaxRuns
           /\ \/ started'[t][s] = started[t][s]
              \/ \E p \in Pollers :
                    /\ try_acquire_claim(p) /\ t = Current(p) /\ s = records[p][t].next
                    /\ started'[t][s] <= started[t][s] + 1
<1>0. started \in [Tasks -> [Times -> 0 .. MaxRuns]]
  BY DEF TypeOK, HistoryTypes
<1>1. started[t] \in [Times -> 0 .. MaxRuns] /\ started[t][s] \in 0 .. MaxRuns
  BY <1>0
<1>2. ASSUME NEW p \in Pollers, try_acquire_claim(p)
      PROVE  \/ started'[t][s] = started[t][s]
             \/ /\ t = Current(p) /\ s = records[p][t].next
                /\ started'[t][s] <= started[t][s] + 1
  <2>1. started' = [started EXCEPT ![Current(p)][records[p][Current(p)].next] =
                       IF @ < MaxRuns THEN @ + 1 ELSE @]
    BY <1>2 DEF try_acquire_claim
  <2>2. CASE t # Current(p)
    BY <1>0, <2>1, <2>2
  <2>3. CASE t = Current(p) /\ s # records[p][t].next
    BY <1>0, <1>1, <2>1, <2>3
  <2>4. CASE t = Current(p) /\ s = records[p][t].next
    <3>1. started'[t][s] = IF started[t][s] < MaxRuns THEN started[t][s] + 1
                                                      ELSE started[t][s]
      BY <1>0, <1>1, <2>1, <2>4
    <3> QED
      BY <1>1, <2>4, <3>1
  <2> QED
    BY <2>2, <2>3, <2>4
<1>3. ASSUME NEW p \in Pollers, PollerStep(p), ~ try_acquire_claim(p)
      PROVE  started' = started
  BY <1>3
  DEF PollerStep, BeginPass, read_definition, read_runtime, EndLoad, EndPass, claim_is_taken,
      claim_is_stale, remove_stale, execute_record, release_claim, remove_claim,
      update_runtime, historyVars
<1>4. ASSUME NEW p \in Pollers, PollerFault(p) PROVE started' = started
  BY <1>4
  DEF PollerFault, try_acquire_claim_fails, update_runtime_fails, Crash, Restart, historyVars
<1>5. ASSUME NEW c \in Commands, CommandStep(c) PROVE started' = started
  BY <1>5
  DEF CommandStep, build_definition, count, write_definition, write_runtime, load_record,
      delete, CommandEnds, historyVars
<1> QED
  BY <1>1, <1>2, <1>3, <1>4, <1>5 DEF Next, Tick, ClaimAges, vars, historyVars

\* A slot stays spare until its run starts.
LEMMA SpareKept ==
    ASSUME TypeOK, [Next]_vars, NEW t \in Tasks, NEW s \in Times, Spare(t, s),
           \A p \in Pollers :
               ~ (try_acquire_claim(p) /\ t = Current(p) /\ s = records[p][t].next)
    PROVE  Spare(t, s)'
BY MishapsGrow, StartsCounted DEF Spare

\* After a mishap every slot of the task may be started once more.
LEMMA MishapSpares ==
    ASSUME TypeOK, RunsOnce, NEW t \in Tasks, Mishap(t), started' = started, NEW s \in Times
    PROVE  Spare(t, s)'
<1>1. started[t] \in [Times -> 0 .. MaxRuns] /\ started[t][s] <= 1 + mishaps[t]
  BY DEF TypeOK, HistoryTypes, RunsOnce
<1>2. mishaps[t] \in 0 .. MaxRuns /\ mishaps'[t] = IF mishaps[t] < MaxRuns THEN mishaps[t] + 1
                                                                        ELSE mishaps[t]
  BY DEF TypeOK, HistoryTypes, Mishap
<1> QED
  BY <1>1, <1>2, SchedulerAssumption DEF Spare

\* A run ends with update_runtime or with a mishap; either way its record is done with.
LEMMA RunEnds ==
    ASSUME TypeOK, [Next]_vars, NEW q \in Pollers, NEW t \in Tasks,
           AtRun(q, t), ~ AtRun(q, t)'
    PROVE  /\ records'[q][t] = Absent
           /\ update_runtime(q) \/ (Mishap(t) /\ started' = started)
<1>0. PollerTypes
  BY DEF TypeOK
<1>1. ASSUME pc'[q] = pc[q], records'[q] = records[q], now'[q] = now[q] PROVE FALSE
  BY <1>1, SameRecord DEF AtRun
<1>2. CASE UNCHANGED pollerVars
  BY <1>1, <1>2 DEF pollerVars
<1>3. CASE \E c \in Commands : CommandStep(c)
  BY <1>2, <1>3
  DEF CommandStep, build_definition, count, write_definition, write_runtime, load_record,
      delete, CommandEnds
<1>4. ASSUME NEW p \in Pollers, PollerStep(p) \/ PollerFault(p), p # q PROVE FALSE
  BY <1>0, <1>1, <1>4, OthersStay
<1>5. CASE PollerStep(q) \/ PollerFault(q)
  <2>1. CASE execute_record(q)
    BY <2>1, <1>0, SameRecord DEF PollerTypes, AtRun, execute_record, Goto, InRun, Holding
  <2>2. CASE release_claim(q)
    BY <2>2, <1>0, SameRecord DEF PollerTypes, AtRun, release_claim, Goto, InRun, Holding
  <2>3. CASE remove_claim(q)
    <3>1. CASE claim[Current(q)] = Absent
      BY <2>3, <3>1, <1>0 DEF PollerTypes, AtRun, remove_claim, PassFails, NoRecords
    <3>2. CASE claim[Current(q)] # Absent
      BY <2>3, <3>2, <1>0, SameRecord
      DEF PollerTypes, AtRun, remove_claim, Goto, InRun, Holding
    <3> QED
      BY <3>1, <3>2
  <2>4. CASE update_runtime(q)
    BY <2>4, <1>0 DEF PollerTypes, AtRun, update_runtime, NextRecord
  <2>5. CASE update_runtime_fails(q)
    BY <2>5, <1>0 DEF PollerTypes, AtRun, update_runtime_fails, PassFails, NoRecords
  <2>6. CASE Crash(q)
    BY <2>6, <1>0 DEF PollerTypes, AtRun, Crash, NoRecords
  <2>7. CASE \/ BeginPass(q) \/ read_definition(q) \/ read_runtime(q) \/ EndLoad(q)
             \/ EndPass(q) \/ try_acquire_claim(q) \/ claim_is_taken(q) \/ claim_is_stale(q)
             \/ remove_stale(q) \/ try_acquire_claim_fails(q) \/ Restart(q)
    BY <2>7
    DEF AtRun, InRun, Holding, BeginPass, read_definition, read_runtime, EndLoad, EndPass,
        try_acquire_claim, claim_is_taken, claim_is_stale, remove_stale,
        try_acquire_claim_fails, Restart
  <2> QED
    BY <1>5, <2>1, <2>2, <2>3, <2>4, <2>5, <2>6, <2>7 DEF PollerStep, PollerFault
<1> QED
  BY <1>2, <1>3, <1>4, <1>5 DEF Next, Tick, ClaimAges, vars

\* The poller that starts a run is at it.
LEMMA RunBegins ==
    ASSUME TypeOK, NEW p \in Pollers, try_acquire_claim(p), NEW t, t = Current(p)
    PROVE  /\ AtRun(p, t)' /\ ~ AtRun(p, t)
           /\ records[p][t] # Absent /\ records[p][t].next # 0
<1>1. Current(p)' = Current(p)
  BY SameRecord DEF try_acquire_claim
<1>2. Current(p) \in Due(p)
  BY AtWork DEF try_acquire_claim
<1>3. pc'[p] = "exec"
  BY DEF try_acquire_claim, Goto, TypeOK, PollerTypes
<1> QED
  BY <1>1, <1>2, <1>3 DEF try_acquire_claim, AtRun, InRun, Holding, Due

\* A run starts from a copied record, whose slot is spare.
LEMMA OnceKept ==
    ASSUME TypeOK, CopiesAhead, RunsOnce, [Next]_vars
    PROVE  RunsOnce'
<1> SUFFICES ASSUME NEW t \in Tasks, NEW s \in Times PROVE started'[t][s] <= 1 + mishaps'[t]
  BY DEF RunsOnce
<1>1. started[t][s] <= 1 + mishaps[t] /\ started[t][s] \in Nat
  BY StartsCounted DEF RunsOnce
<1>2. CASE started'[t][s] = started[t][s]
  BY <1>1, <1>2, MishapsGrow
<1>3. ASSUME NEW p \in Pollers, try_acquire_claim(p), t = Current(p), s = records[p][t].next,
             started'[t][s] <= started[t][s] + 1
      PROVE  started'[t][s] <= 1 + mishaps'[t]
  <2>1. Spare(t, s)
    BY <1>3, RunBegins DEF CopiesAhead
  <2>2. started'[t][s] \in Nat
    BY HistoryTypesKept DEF HistoryTypes
  <2> QED
    BY <1>1, <1>3, <2>1, <2>2, MishapsGrow DEF Spare
<1> QED
  BY <1>2, <1>3, StartsCounted
-------------------------------------------------------------------------------
(* Tasks that are being created *)

\* What a step makes of the command of a process.
LEMMA CommandSteps ==
    ASSUME TypeOK, [Next]_vars, NEW c \in Commands, cmd'[c] # cmd[c]
    PROVE  /\ CommandStep(c)
           /\ cmd'[c].step # "idle" =>
                 \/ build_definition(c) /\ first[cmd'[c].task] = 0
                 \/ load_record(c) /\ cmd'[c].task \in defined
                 \/ /\ count(c) \/ write_definition(c) \/ delete(c)
                    /\ cmd[c].step # "idle" /\ cmd'[c].task = cmd[c].task
           /\ ~ build_definition(c) => first' = first
<1>0. CommandTypes /\ FileTypes
  BY DEF TypeOK
<1>1. ASSUME NEW d \in Commands, CommandStep(d), d # c PROVE FALSE
  BY <1>0, <1>1
  DEF CommandTypes, CmdGoto, CommandStep, build_definition, count, write_definition,
      write_runtime, load_record, delete, CommandEnds
<1>2. ASSUME NEW p \in Pollers, PollerStep(p) \/ PollerFault(p) PROVE FALSE
  BY <1>2
  DEF PollerStep, BeginPass, read_definition, read_runtime, EndLoad, EndPass,
      try_acquire_claim, claim_is_taken, claim_is_stale, remove_stale, execute_record,
      release_claim, remove_claim, update_runtime, PollerFault, try_acquire_claim_fails,
      update_runtime_fails, Crash, Restart
<1>3. CommandStep(c)
  BY <1>1, <1>2 DEF Next, Tick, ClaimAges, vars
<1>4. CASE build_definition(c)
  <2>1. PICK u \in Tasks : first[u] = 0 /\ CmdGoto(c, "count", u)
    BY <1>4 DEF build_definition
  <2>2. cmd'[c].task = u
    BY <1>0, <2>1 DEF CmdGoto, CommandTypes
  <2> QED
    BY <1>3, <1>4, <2>1, <2>2
<1>5. CASE load_record(c)
  <2>1. PICK u \in defined : CmdGoto(c, "remove_definition", u)
    BY <1>5 DEF load_record
  <2>2. cmd'[c].task = u
    BY <1>0, <2>1 DEF CmdGoto, CommandTypes
  <2> QED
    BY <1>3, <1>5, <2>1, <2>2 DEF load_record, fileVars
<1>6. CASE count(c) \/ write_definition(c) \/ write_runtime(c) \/ delete(c) \/ CommandEnds(c)
  BY <1>0, <1>3, <1>6
  DEF CommandTypes, CmdGoto, NoCommand, count, write_definition, write_runtime, delete,
      CommandEnds, fileVars
<1> QED
  BY <1>3, <1>4, <1>5, <1>6 DEF CommandStep

\* An id that is untouched has been so all along, and no command writes its files.
LEMMA UntouchedBefore ==
    ASSUME TypeOK, UnusedIds, OneCreator, [Next]_vars, NEW t \in Tasks, Untouched(t)'
    PROVE  /\ Untouched(t)
           /\ \A d \in Commands :
                 write_definition(d) \/ write_runtime(d) => cmd[d].task # t
<1>0. CommandTypes
  BY DEF TypeOK
<1>1. ASSUME NEW c \in Commands, Creating(c)', cmd'[c].task = t
      PROVE  \/ first[t] = 0
             \/ Creating(c) /\ cmd[c].task = t
  <2>1. CASE cmd'[c] = cmd[c]
    BY <1>1, <2>1 DEF Creating
  <2>2. CASE cmd'[c] # cmd[c]
    <3>1. CASE count(c)
      BY <1>0, <1>1, <3>1 DEF CommandTypes, Creating, count, CmdGoto, NoCommand
    <3>2. CASE write_definition(c) \/ delete(c)
      BY <1>0, <1>1, <3>2
      DEF CommandTypes, Creating, write_definition, delete, CmdGoto, NoCommand
    <3>3. CASE load_record(c)
      BY <1>0, <1>1, <3>3 DEF CommandTypes, Creating, load_record, CmdGoto
    <3> QED
      BY <1>1, <2>2, <3>1, <3>2, <3>3, CommandSteps DEF Creating
  <2> QED
    BY <2>1, <2>2
<1>2. first'[t] = 0 => first[t] = 0
  BY FirstIsFixed
<1>3. Untouched(t)
  BY <1>1, <1>2 DEF Untouched
<1>4. ASSUME NEW d \in Commands, write_definition(d) \/ write_runtime(d), cmd[d].task = t
      PROVE  FALSE
  <2>1. first[t] # 0
    BY <1>4 DEF UnusedIds, write_definition, write_runtime
  <2>2. PICK c \in Commands : Creating(c)' /\ cmd'[c].task = t
    BY <1>2, <2>1 DEF Untouched
  <2>3. Creating(c) /\ cmd[c].task = t
    BY <1>1, <2>1, <2>2
  <2>4. c # d
    BY <1>0, <1>4, <2>2
    DEF CommandTypes, Creating, write_definition, write_runtime, CmdGoto, NoCommand
  <2> QED
    BY <1>4, <2>3, <2>4 DEF OneCreator, write_definition, write_runtime
<1> QED
  BY <1>3, <1>4

\* Nothing becomes known of a task before its definition is written.
LEMMA UntouchedKept ==
    ASSUME TypeOK, UnusedIds, UntouchedTasks, OneCreator, [Next]_vars
    PROVE  UntouchedTasks'
<1>0. FileTypes /\ PollerTypes /\ CommandTypes
  BY DEF TypeOK
<1> SUFFICES ASSUME NEW t \in Tasks, Untouched(t)'
             PROVE  /\ t \notin defined' /\ runtime'[t] = Absent
                    /\ \A p \in Pollers : records'[p][t] = Absent /\ t \notin left'[p]
                    /\ \A s \in Times : Spare(t, s)'
  BY DEF UntouchedTasks
<1>1. /\ t \notin defined /\ runtime[t] = Absent
      /\ \A p \in Pollers : records[p][t] = Absent /\ t \notin left[p]
      /\ \A s \in Times : Spare(t, s)
  BY UntouchedBefore DEF UntouchedTasks
<1>2. \A d \in Commands : write_definition(d) \/ write_runtime(d) => cmd[d].task # t
  BY UntouchedBefore
<1>3. ASSUME NEW p \in Pollers, Due(p) # {} PROVE t # Current(p)
  BY <1>1, <1>3, AtWork DEF Due
<1>4. ASSUME NEW c \in Commands, CommandStep(c)
      PROVE  t \notin defined' /\ runtime'[t] = Absent /\ UNCHANGED pollerVars
  <2>1. CASE write_definition(c) \/ write_runtime(c)
    BY <1>0, <1>1, <1>2, <2>1 DEF FileTypes, write_definition, write_runtime
  <2>2. CASE delete(c)
    BY <1>0, <1>1, <2>2 DEF FileTypes, delete
  <2>3. CASE build_definition(c) \/ count(c) \/ load_record(c) \/ CommandEnds(c)
    BY <1>1, <2>3 DEF build_definition, count, load_record, CommandEnds, fileVars
  <2> QED
    BY <1>4, <2>1, <2>2, <2>3 DEF CommandStep
<1>5. ASSUME NEW p \in Pollers, PollerStep(p) \/ PollerFault(p)
      PROVE  /\ t \notin defined' /\ runtime'[t] = Absent
             /\ records'[p][t] = Absent /\ t \notin left'[p]
  <2>1. CASE update_runtime(p)
    BY <1>0, <1>1, <1>3, <2>1, AtWork DEF FileTypes, PollerTypes, update_runtime, NextRecord
  <2>2. CASE read_runtime(p)
    BY <1>0, <1>1, <2>2, AtWork DEF PollerTypes, read_runtime, fileVars
  <2>3. CASE read_definition(p) \/ claim_is_stale(p) \/ remove_claim(p)
    BY <1>0, <1>1, <2>3
    DEF PollerTypes, PassFails, NextRecord, NoRecords, read_definition, claim_is_stale,
        remove_claim, fileVars
  <2>4. CASE \/ BeginPass(p) \/ EndLoad(p) \/ EndPass(p) \/ try_acquire_claim(p)
             \/ claim_is_taken(p) \/ remove_stale(p) \/ execute_record(p) \/ release_claim(p)
    BY <1>0, <1>1, <2>4
    DEF PollerTypes, NoRecords, BeginPass, EndLoad, EndPass, try_acquire_claim,
        claim_is_taken, remove_stale, execute_record, release_claim, fileVars
  <2>5. CASE PollerFault(p)
    BY <1>0, <1>1, <2>5
    DEF PollerTypes, PassFails, NoRecords, PollerFault, try_acquire_claim_fails,
        update_runtime_fails, Crash, Restart, fileVars
  <2> QED
    BY <1>5, <2>1, <2>2, <2>3, <2>4, <2>5 DEF PollerStep
<1>6. t \notin defined' /\ runtime'[t] = Absent
  BY <1>1, <1>4, <1>5 DEF Next, Tick, ClaimAges, vars, fileVars
<1>7. ASSUME NEW q \in Pollers PROVE records'[q][t] = Absent /\ t \notin left'[q]
  <2>1. ASSUME NEW p \in Pollers, PollerStep(p) \/ PollerFault(p), p # q
        PROVE  records'[q] = records[q] /\ left'[q] = left[q]
    BY <1>0, <2>1, OthersStay
  <2> QED
    BY <1>1, <1>4, <1>5, <2>1 DEF Next, Tick, ClaimAges, vars, pollerVars
<1>8. ASSUME NEW s \in Times PROVE Spare(t, s)'
  BY <1>1, <1>3, SpareKept DEF try_acquire_claim
<1> QED
  BY <1>6, <1>7, <1>8

\* A task that is being created has no other command at work on it.
LEMMA OneCreatorKept ==
    ASSUME TypeOK, UnusedIds, UntouchedTasks, OneCreator, [Next]_vars
    PROVE  OneCreator'
<1>0. CommandTypes
  BY DEF TypeOK
<1> SUFFICES ASSUME NEW c \in Commands, NEW d \in Commands, Creating(c)', c # d,
                    cmd'[d].step # "idle", cmd'[d].task = cmd'[c].task
             PROVE  FALSE
  BY DEF OneCreator
<1>1. PICK t \in Tasks : t = cmd'[c].task /\ Untouched(t)'
  <2>1. cmd'[c].task \in Tasks
    BY CommandTypesKept DEF CommandTypes, Creating, Tasks
  <2>2. PICK t \in Tasks : t = cmd'[c].task
    BY <2>1
  <2> QED
    BY <2>2 DEF Untouched
<1>2. t \notin defined
  BY <1>1, UntouchedBefore DEF UntouchedTasks
<1>3. cmd'[c] = cmd[c] \/ cmd'[d] = cmd[d]
  <2>1. ASSUME NEW e \in Commands, NEW f \in Commands, CommandStep(e), f # e
        PROVE  cmd'[f] = cmd[f]
    BY <1>0, <2>1
    DEF CommandTypes, CmdGoto, CommandStep, build_definition, count, write_definition,
        write_runtime, load_record, delete, CommandEnds
  <2> QED
    BY <2>1, CommandSteps
<1>4. CASE first[t] = 0
  <2>1. \A e \in Commands : cmd[e].step # "idle" => cmd[e].task # t
    BY <1>4 DEF UnusedIds
  <2> QED
    BY <1>1, <1>3, <2>1 DEF Creating
<1>5. CASE first[t] # 0
  <2>1. Creating(c) /\ cmd[c].task = t
    <3>1. CASE cmd'[c] = cmd[c]
      BY <1>1, <3>1 DEF Creating
    <3>2. CASE cmd'[c] # cmd[c]
      <4>1. CASE count(c)
        BY <1>0, <1>1, <4>1 DEF CommandTypes, Creating, count, CmdGoto, NoCommand
      <4>2. CASE write_definition(c) \/ delete(c)
        BY <1>0, <4>2
        DEF CommandTypes, Creating, write_definition, delete, CmdGoto, NoCommand
      <4> QED
        BY <1>1, <1>2, <1>5, <3>2, <4>1, <4>2, CommandSteps DEF Creating
    <3> QED
      BY <3>1, <3>2
  <2>2. cmd[d].step # "idle" /\ cmd[d].task = t
    BY <1>1, <1>2, <1>5, CommandSteps
  <2> QED
    BY <2>1, <2>2 DEF OneCreator
<1> QED
  BY <1>4, <1>5

\* A definition that a delete has removed is not written again.
LEMMA UndefinedKept ==
    ASSUME TypeOK, OneCreator, Undefined, [Next]_vars
    PROVE  Undefined'
<1>0. CommandTypes
  BY DEF TypeOK
<1> SUFFICES ASSUME NEW c \in Commands, cmd'[c].step = "remove_runtime"
             PROVE  cmd'[c].task \notin defined'
  BY DEF Undefined
<1>1. CASE cmd'[c] # cmd[c]
  <2>1. delete(c) /\ cmd[c].step = "remove_definition"
    BY <1>0, <1>1, CommandSteps
    DEF CommandTypes, CmdGoto, NoCommand, CommandStep, build_definition, count,
        write_definition, write_runtime, load_record, delete, CommandEnds
  <2> QED
    BY <1>0, <2>1 DEF CommandTypes, delete, CmdGoto
<1>2. CASE cmd'[c] = cmd[c]
  <2>1. cmd[c].step = "remove_runtime" /\ cmd[c].task \notin defined
    BY <1>2 DEF Undefined
  <2>2. ASSUME NEW d \in Commands, write_definition(d) PROVE cmd[c].task # cmd[d].task
    BY <2>1, <2>2 DEF OneCreator, Creating, write_definition
  <2>3. ASSUME NEW d \in Commands, CommandStep(d) PROVE cmd[c].task \notin defined'
    BY <2>1, <2>2, <2>3
    DEF CommandStep, build_definition, count, write_definition, write_runtime, load_record,
        delete, CommandEnds, fileVars
  <2>4. ASSUME NEW p \in Pollers, PollerStep(p) \/ PollerFault(p) PROVE defined' = defined
    BY <2>4
    DEF PollerStep, BeginPass, read_definition, read_runtime, EndLoad, EndPass,
        try_acquire_claim, claim_is_taken, claim_is_stale, remove_stale, execute_record,
        release_claim, remove_claim, update_runtime, PollerFault, try_acquire_claim_fails,
        update_runtime_fails, Crash, Restart, fileVars
  <2> QED
    BY <1>2, <2>1, <2>3, <2>4 DEF Next, Tick, ClaimAges, vars, fileVars
<1> QED
  BY <1>1, <1>2
-------------------------------------------------------------------------------
(* Copies and files *)

\* A record comes into the copy of a pass from the disk; one whose definition has gone
\* in the meantime is a mishap.
LEMMA CopyIsRead ==
    ASSUME TypeOK, [Next]_vars, NEW q \in Pollers, NEW t \in Tasks,
           records'[q][t] # records[q][t], records'[q][t] # Absent
    PROVE  /\ pc[q] = "read_runtime" /\ records'[q][t] = OnDisk(t)
           /\ started' = started
           /\ t \notin defined => Mishap(t)
<1>0. PollerTypes
  BY DEF TypeOK
<1>1. ASSUME NEW p \in Pollers, PollerStep(p) \/ PollerFault(p), p # q PROVE FALSE
  BY <1>0, <1>1, OthersStay
<1>2. ASSUME NEW c \in Commands, CommandStep(c) PROVE FALSE
  BY <1>2
  DEF CommandStep, build_definition, count, write_definition, write_runtime, load_record,
      delete, CommandEnds, pollerVars
<1>3. PollerStep(q) \/ PollerFault(q)
  BY <1>1, <1>2 DEF Next, Tick, ClaimAges, vars, pollerVars
<1>4. CASE read_runtime(q)
  BY <1>0, <1>4, AtWork DEF PollerTypes, read_runtime, OnDisk
<1>5. CASE read_definition(q) \/ EndPass(q) \/ claim_is_stale(q) \/ remove_claim(q)
  BY <1>0, <1>5
  DEF PollerTypes, PassFails, NextRecord, NoRecords, read_definition, EndPass,
      claim_is_stale, remove_claim
<1>6. CASE \/ BeginPass(q) \/ EndLoad(q) \/ try_acquire_claim(q) \/ claim_is_taken(q)
           \/ remove_stale(q) \/ execute_record(q) \/ release_claim(q) \/ update_runtime(q)
  BY <1>0, <1>6
  DEF PollerTypes, NextRecord, BeginPass, EndLoad, try_acquire_claim, claim_is_taken,
      remove_stale, execute_record, release_claim, update_runtime
<1>7. CASE PollerFault(q)
  BY <1>0, <1>7
  DEF PollerTypes, PassFails, NoRecords, PollerFault, try_acquire_claim_fails,
      update_runtime_fails, Crash, Restart
<1> QED
  BY <1>3, <1>4, <1>5, <1>6, <1>7 DEF PollerStep

\* The copy of a pass stays ahead of the starts.
LEMMA CopiesAheadKept ==
    ASSUME SinglePoller, TypeOK, CopiesAhead, FilesAhead, RunsOnce, [Next]_vars
    PROVE  CopiesAhead'
<1> SUFFICES ASSUME NEW q \in Pollers, NEW t \in Tasks, NEW s \in Times,
                    records'[q][t] # Absent, records'[q][t].next # 0,
                    \/ s > records'[q][t].next
                    \/ s = records'[q][t].next /\ ~ AtRun(q, t)'
             PROVE  Spare(t, s)'
  BY DEF CopiesAhead
<1>0. records'[q][t] \in RuntimeStates
  BY PollerTypesKept DEF PollerTypes
<1>1. CASE records'[q][t] = records[q][t]
  <2>1. ~ (s = records[q][t].next /\ AtRun(q, t))
    BY <1>0, <1>1, RunEnds DEF RuntimeStates, Times
  <2>2. Spare(t, s)
    BY <1>1, <2>1 DEF CopiesAhead
  <2>3. ASSUME NEW p \in Pollers, try_acquire_claim(p), t = Current(p), s = records[p][t].next
        PROVE  FALSE
    <3>1. p = q /\ AtRun(q, t)'
      BY <2>3, RunBegins DEF SinglePoller
    <3> QED
      BY <1>0, <1>1, <2>3, <3>1 DEF RuntimeStates, Times
  <2> QED
    BY <2>2, <2>3, SpareKept
<1>2. CASE records'[q][t] # records[q][t]
  <2>1. /\ pc[q] = "read_runtime" /\ records'[q][t] = OnDisk(t)
        /\ started' = started
        /\ t \notin defined => Mishap(t)
    BY <1>2, CopyIsRead
  <2>2. CASE t \in defined
    <3>1. \A p \in Pollers : ~ AtRun(p, t)
      BY <2>1 DEF SinglePoller, AtRun, InRun, Holding
    <3>2. Spare(t, s)
      BY <1>0, <2>1, <2>2, <3>1 DEF FilesAhead, Ahead, RuntimeStates, Times
    <3> QED
      BY <2>1, <3>2, SpareKept DEF SinglePoller, try_acquire_claim
  <2>3. CASE t \notin defined
    BY <2>1, <2>3, MishapSpares
  <2> QED
    BY <2>2, <2>3
<1> QED
  BY <1>1, <1>2

\* So does the file, except in the window between the start of a run and its record.
LEMMA FilesAheadKept ==
    ASSUME SinglePoller, TypeOK, OnceInv, [Next]_vars
    PROVE  FilesAhead'
<1>0. FileTypes /\ CommandTypes
  BY DEF TypeOK
<1> SUFFICES ASSUME NEW t \in Tasks, t \in defined' \/ runtime'[t] # Absent,
                    \A p \in Pollers : ~ AtRun(p, t)',
                    NEW s \in Times, OnDisk(t)'.next # 0, s >= OnDisk(t)'.next
             PROVE  Spare(t, s)'
  BY DEF FilesAhead, Ahead
<1>1. ASSUME NEW q \in Pollers, AtRun(q, t) PROVE Spare(t, s)'
  <2>1. CASE Mishap(t) /\ started' = started
    BY <2>1, MishapSpares DEF OnceInv
  <2>2. CASE update_runtime(q)
    <3>1. /\ t = Current(q)
          /\ records[q][t] \in RuntimeStates /\ records[q][t] # Absent
          /\ records[q][t].next \in Times
      BY <1>1, <2>2, AtWork DEF AtRun, update_runtime, Due
    <3>2. runtime'[t] = advance_record_runtime(t, records[q][t])
      BY <1>0, <2>2, <3>1 DEF FileTypes, update_runtime
    <3>3. runtime'[t] # Absent
      <4>1. advance_record_runtime(t, records[q][t]) \in RuntimeStates
        BY <3>1, SchedulerAssumption DEF advance_record_runtime, RuntimeStates, Times
      <4> QED
        BY <3>2, <4>1, AbsentAssumption
    <3>4. OnDisk(t)' = advance_record_runtime(t, records[q][t])
      BY <3>2, <3>3 DEF OnDisk
    <3>5. s > records[q][t].next
      BY <3>1, <3>4 DEF advance_record_runtime, Times
    <3>6. Spare(t, s)
      BY <3>1, <3>5 DEF OnceInv, CopiesAhead, Times
    <3> QED
      BY <2>2, <3>6, SpareKept DEF SinglePoller, update_runtime, try_acquire_claim
  <2> QED
    BY <1>1, <2>1, <2>2, RunEnds
<1>2. CASE \A q \in Pollers : ~ AtRun(q, t)
  <2>1. Spare(t, s) => Spare(t, s)'
    BY SpareKept, RunBegins
  <2>2. ASSUME t \in defined \/ runtime[t] # Absent, OnDisk(t)' = OnDisk(t)
        PROVE  Spare(t, s)'
    BY <1>2, <2>1, <2>2 DEF OnceInv, FilesAhead, Ahead
  <2>3. ASSUME defined' = defined, runtime'[t] = runtime[t], first'[t] = first[t]
        PROVE  Spare(t, s)'
    BY <2>2, <2>3 DEF OnDisk, initialize_runtime_state
  <2>4. ASSUME NEW p \in Pollers, PollerStep(p) \/ PollerFault(p) PROVE Spare(t, s)'
    <3>1. CASE update_runtime(p)
      <4>1. t # Current(p)
        BY <1>2, <3>1 DEF AtRun, update_runtime, InRun
      <4> QED
        BY <1>0, <2>3, <3>1, <4>1 DEF FileTypes, update_runtime
    <3>2. CASE PollerStep(p) /\ ~ update_runtime(p)
      BY <2>3, <3>2
      DEF PollerStep, BeginPass, read_definition, read_runtime, EndLoad, EndPass,
          try_acquire_claim, claim_is_taken, claim_is_stale, remove_stale, execute_record,
          release_claim, remove_claim, fileVars
    <3>3. CASE PollerFault(p)
      BY <2>3, <3>3
      DEF PollerFault, try_acquire_claim_fails, update_runtime_fails, Crash, Restart, fileVars
    <3> QED
      BY <2>4, <3>1, <3>2, <3>3
  <2>5. ASSUME NEW c \in Commands, CommandStep(c) PROVE Spare(t, s)'
    <3>1. CASE build_definition(c)
      <4>1. defined' = defined /\ runtime' = runtime
        BY <3>1 DEF build_definition
      <4>2. first[t] # 0
        BY <4>1 DEF OnceInv, UnusedIds
      <4> QED
        BY <2>3, <4>1, <4>2, FirstIsFixed
    <3>2. CASE write_definition(c)
      <4>1. CASE cmd[c].task = t
        <5>1. Untouched(t)
          BY <3>2, <4>1 DEF Untouched, Creating, write_definition
        <5> QED
          BY <2>1, <5>1 DEF OnceInv, UntouchedTasks
      <4>2. CASE cmd[c].task # t
        BY <2>2, <3>2, <4>2 DEF write_definition, OnDisk, initialize_runtime_state
      <4> QED
        BY <4>1, <4>2
    <3>3. CASE write_runtime(c)
      <4>1. CASE cmd[c].task = t /\ started[t] # [z \in Times |-> 0]
        BY <3>3, <4>1, MishapSpares DEF OnceInv, write_runtime
      <4>2. CASE cmd[c].task = t /\ started[t] = [z \in Times |-> 0]
        <5>1. started[t][s] = 0
          BY <4>2
        <5> QED
          BY <2>1, <5>1, MishapsGrow DEF Spare
      <4>3. CASE cmd[c].task # t
        BY <1>0, <2>3, <3>3, <4>3 DEF FileTypes, write_runtime
      <4> QED
        BY <4>1, <4>2, <4>3
    <3>4. CASE delete(c)
      <4>1. CASE cmd[c].step = "remove_runtime" /\ cmd[c].task = t
        BY <1>0, <3>4, <4>1 DEF FileTypes, OnceInv, Undefined, delete
      <4>2. CASE ~ (cmd[c].step = "remove_runtime" /\ cmd[c].task = t)
        <5>1. first' = first /\ runtime'[t] = runtime[t] /\ defined' \subseteq defined
          BY <1>0, <3>4, <4>2 DEF FileTypes, delete
        <5> QED
          BY <2>2, <5>1 DEF OnDisk, initialize_runtime_state
      <4> QED
        BY <4>1, <4>2
    <3>5. CASE count(c) \/ load_record(c) \/ CommandEnds(c)
      BY <2>3, <3>5 DEF count, load_record, CommandEnds, fileVars
    <3> QED
      BY <2>5, <3>1, <3>2, <3>3, <3>4, <3>5 DEF CommandStep
  <2>6. CASE Tick \/ (\E u \in Tasks : ClaimAges(u)) \/ UNCHANGED vars
    BY <2>3, <2>6 DEF Tick, ClaimAges, vars, fileVars
  <2> QED
    BY <2>4, <2>5, <2>6 DEF Next
<1> QED
  BY <1>1, <1>2

\* With a single poller no slot runs twice, except for a run whose outcome was not
\* written and for a runtime file that create or delete replaced or removed under the
\* poller, for any number of commands, tasks and faults (the order claim, run, release,
\* update_runtime).
THEOREM SinglePollerRunsOnce ==
    ASSUME SinglePoller
    PROVE  Spec => []RunsOnce
<1>1. Init => OnceInv
  <2> SUFFICES ASSUME Init PROVE OnceInv
    OBVIOUS
  <2>1. \A t \in Tasks : \A s \in Times : started[t][s] = 0 /\ mishaps[t] = 0
    BY DEF Init
  <2>2. UnusedIds /\ RunsOnce
    BY <2>1 DEF Init, UnusedIds, RunsOnce, NoRecords, NoCommand
  <2>3. \A c \in Commands : cmd[c].step = "idle"
    BY DEF Init, NoCommand
  <2>4. \A t \in Tasks : \A s \in Times : Spare(t, s)
    BY <2>1 DEF Spare
  <2>5. OneCreator /\ Undefined /\ CopiesAhead /\ FilesAhead
    BY <2>3, <2>4 DEF OneCreator, Undefined, Creating, CopiesAhead, FilesAhead, Ahead
  <2>6. UntouchedTasks
    BY <2>2, <2>3, <2>4 DEF UntouchedTasks, Untouched, Creating, UnusedIds
  <2> QED
    BY <2>2, <2>5, <2>6 DEF OnceInv
<1>2. TypeOK /\ OnceInv /\ [Next]_vars => OnceInv'
  <2> SUFFICES ASSUME TypeOK, OnceInv, [Next]_vars PROVE OnceInv'
    OBVIOUS
  <2> QED
    BY UnusedIdsKept, UntouchedKept, OneCreatorKept, UndefinedKept, CopiesAheadKept,
       FilesAheadKept, OnceKept
    DEF OnceInv
<1>3. OnceInv => RunsOnce
  BY DEF OnceInv
<1> QED
  BY <1>1, <1>2, <1>3, TypeCorrect, PTL DEF Spec
-------------------------------------------------------------------------------
(* What a pass can fail of *)

\* No task is deleted.
NoDelete == [][\A c \in Commands : ~ load_record(c)]_vars

\* The definition files that a pass has listed are there until it reads them, and a claim
\* that is there when the poller looks is there when it looks again: what load_records,
\* claim_is_stale and release_claim rely on.
Undisturbed ==
    /\ faults \in Nat
    /\ \A c \in Commands :
          cmd[c].step \notin {"remove_definition", "remove_runtime", "remove_claim"}
    /\ \A p \in Pollers : left[p] \subseteq defined
    /\ faults = 0 =>
          \A p \in Pollers :
              /\ pc[p] # "off"
              /\ pc[p] \in {"claim_is_stale", "remove_claim"} => claim[Current(p)] # Absent

\* A step of a pass finds what the pass has seen, so that the pass does not fail.
LEMMA PassGoesOn ==
    ASSUME TypeOK, Undisturbed, faults = 0, NEW p \in Pollers, PollerStep(p)
    PROVE  /\ defined' = defined /\ cmd' = cmd /\ faults' = faults
           /\ left'[p] \subseteq defined
           /\ pc'[p] # "off"
           /\ pc'[p] \in {"claim_is_stale", "remove_claim"} => claim'[Current(p)'] # Absent
<1>0. PollerTypes /\ FileTypes /\ AtRecord(p)
  BY DEF TypeOK
<1>1. left[p] \subseteq defined /\ pc[p] # "off"
      /\ (pc[p] \in {"claim_is_stale", "remove_claim"} => claim[Current(p)] # Absent)
  BY DEF Undisturbed
<1>2. CASE BeginPass(p) \/ EndLoad(p) \/ EndPass(p)
  BY <1>0, <1>1, <1>2 DEF PollerTypes, BeginPass, EndLoad, EndPass, Goto, fileVars
<1>3. CASE read_definition(p)
  <2>1. Min(left[p]) \in left[p]
    BY <1>0, <1>3, MinIsMember DEF PollerTypes, read_definition
  <2>2. Min(left[p]) \in defined
    BY <1>1, <2>1
  <2> QED
    BY <1>0, <1>1, <1>3, <2>2 DEF PollerTypes, read_definition, Goto, fileVars
<1>4. CASE read_runtime(p)
  BY <1>0, <1>1, <1>4 DEF PollerTypes, read_runtime, Goto, fileVars
<1>5. CASE try_acquire_claim(p) \/ remove_stale(p) \/ execute_record(p) \/ update_runtime(p)
  BY <1>0, <1>1, <1>5
  DEF PollerTypes, try_acquire_claim, remove_stale, execute_record, update_runtime, Goto, fileVars
<1>6. CASE claim_is_taken(p) \/ release_claim(p)
  <2>1. Current(p)' = Current(p) /\ claim' = claim
    BY <1>6, SameRecord DEF claim_is_taken, release_claim, fileVars
  <2> QED
    BY <1>0, <1>1, <1>6, <2>1 DEF PollerTypes, claim_is_taken, release_claim, Goto, fileVars
<1>7. CASE claim_is_stale(p)
  BY <1>0, <1>1, <1>7 DEF PollerTypes, claim_is_stale, Goto, fileVars
<1>8. CASE remove_claim(p)
  BY <1>0, <1>1, <1>8 DEF PollerTypes, remove_claim, Goto
<1> QED
  BY <1>2, <1>3, <1>4, <1>5, <1>6, <1>7, <1>8 DEF PollerStep

\* The only poller and commands that create leave a pass what it has seen.
LEMMA UndisturbedKept ==
    ASSUME SinglePoller, TypeOK, Undisturbed, [Next]_vars, \A c \in Commands : ~ load_record(c)
    PROVE  Undisturbed'
<1>0. PollerTypes /\ FileTypes /\ CommandTypes
  BY DEF TypeOK
<1>1. ASSUME UNCHANGED pollerVars, defined \subseteq defined',
             \A t : claim'[t] = Absent => claim[t] = Absent,
             faults' \in Nat, faults' = 0 => faults = 0,
             \A c \in Commands :
                 cmd'[c].step \notin {"remove_definition", "remove_runtime", "remove_claim"}
      PROVE  Undisturbed'
  <2>1. \A p \in Pollers : Current(p)' = Current(p)
    BY <1>1, SameRecord DEF pollerVars
  <2> QED
    BY <1>1, <2>1 DEF Undisturbed, pollerVars
<1>2. ASSUME NEW p \in Pollers, PollerStep(p) \/ PollerFault(p) PROVE Undisturbed'
  <2>1. \A q \in Pollers : q = p
    BY DEF SinglePoller
  <2>2. defined' = defined /\ cmd' = cmd
    BY <1>2 DEF PollerStep, PollerFault, BeginPass, read_definition, read_runtime, EndLoad, EndPass,
       try_acquire_claim, claim_is_taken, claim_is_stale, remove_stale, execute_record,
       release_claim, remove_claim, update_runtime, try_acquire_claim_fails,
       update_runtime_fails, Crash, Restart, fileVars
  <2>3. left'[p] \subseteq defined
    BY <1>0, <1>2 DEF PollerTypes, Undisturbed, PassFails, PollerStep, PollerFault, BeginPass,
       read_definition, read_runtime, EndLoad, EndPass,
       try_acquire_claim, claim_is_taken, claim_is_stale, remove_stale, execute_record,
       release_claim, remove_claim, update_runtime, try_acquire_claim_fails,
       update_runtime_fails, Crash, Restart, fileVars
  <2>4. faults' \in Nat
    BY <1>2 DEF Undisturbed, PollerStep, PollerFault, BeginPass, read_definition, read_runtime,
       EndLoad, EndPass,
       try_acquire_claim, claim_is_taken, claim_is_stale, remove_stale, execute_record,
       release_claim, remove_claim, update_runtime, try_acquire_claim_fails,
       update_runtime_fails, Crash, Restart, Fault
  <2>5. ASSUME faults' = 0
        PROVE  /\ pc'[p] # "off"
               /\ pc'[p] \in {"claim_is_stale", "remove_claim"} => claim'[Current(p)'] # Absent
    <3>1. faults = 0 /\ ~ Crash(p) /\ ~ try_acquire_claim_fails(p) /\ ~ update_runtime_fails(p)
      BY <2>5, NoFaultYet DEF Undisturbed
    <3>2. ~ Restart(p)
      BY <3>1 DEF Restart, Undisturbed
    <3>3. PollerStep(p)
      BY <1>2, <3>1, <3>2 DEF PollerFault
    <3> QED
      BY <3>1, <3>3, PassGoesOn
  <2> QED
    BY <2>1, <2>2, <2>3, <2>4, <2>5 DEF Undisturbed
<1>3. ASSUME NEW c \in Commands, CommandStep(c) PROVE Undisturbed'
  <2>1. UNCHANGED pollerVars /\ UNCHANGED claim /\ defined \subseteq defined'
        /\ faults' \in Nat /\ (faults' = 0 => faults = 0)
    BY <1>3
    DEF CommandStep, build_definition, count, write_definition, write_runtime, delete, CommandEnds,
        Fault, Undisturbed, fileVars
  <2>2. \A d \in Commands :
            cmd'[d].step \notin {"remove_definition", "remove_runtime", "remove_claim"}
    BY <1>0, <1>3
    DEF CommandTypes, CommandStep, build_definition, count, write_definition, write_runtime, delete,
        CommandEnds, CmdGoto, NoCommand, Undisturbed
  <2> QED
    BY <1>1, <2>1, <2>2
<1>4. CASE Tick \/ UNCHANGED vars
  BY <1>1, <1>4 DEF Tick, vars, fileVars, pollerVars, Undisturbed
<1>5. ASSUME NEW t \in Tasks, ClaimAges(t) PROVE Undisturbed'
  BY <1>0, <1>1, <1>5, AbsentAssumption DEF FileTypes, ClaimAges, pollerVars, Undisturbed
<1> QED
  BY <1>2, <1>3, <1>4, <1>5 DEF Next

\* Where a single process polls and no task is deleted, `vtcode schedule serve` keeps
\* running whatever is created meanwhile: a delete under a pass and a second poller, whose
\* claims come and go, are all that ends it without a fault (load_records, claim_is_stale,
\* the `?` of serve_forever).
THEOREM ServeKeepsRunningAlone ==
    ASSUME SinglePoller
    PROVE  Spec /\ NoDelete => []ServeKeepsRunning
<1>1. Init => Undisturbed
  BY DEF Init, Undisturbed, NoCommand
<1>2. TypeOK /\ Undisturbed /\ [Next]_vars /\ [\A c \in Commands : ~ load_record(c)]_vars => Undisturbed'
  <2> SUFFICES ASSUME TypeOK, Undisturbed, [Next]_vars, [\A c \in Commands : ~ load_record(c)]_vars
               PROVE  Undisturbed'
    OBVIOUS
  <2>1. CASE UNCHANGED vars
    <3>1. ASSUME NEW c \in Commands, load_record(c) PROVE FALSE
      <4>1. PICK t \in defined : cmd' = [cmd EXCEPT ![c] = [step |-> "remove_definition", task |-> t]]
        BY <3>1 DEF load_record, CmdGoto
      <4>2. cmd'[c].step = "remove_definition"
        BY <4>1 DEF TypeOK, CommandTypes
      <4> QED
        BY <2>1, <3>1, <4>2 DEF load_record, NoCommand, vars
    <3> QED
      BY <3>1, UndisturbedKept
  <2>2. CASE \A c \in Commands : ~ load_record(c)
    BY <2>2, UndisturbedKept
  <2> QED
    BY <2>1, <2>2
<1>3. Undisturbed => ServeKeepsRunning
  BY SchedulerAssumption DEF Undisturbed, ServeKeepsRunning
<1> QED
  BY <1>1, <1>2, <1>3, TypeCorrect, PTL DEF Spec, NoDelete
===============================================================================
