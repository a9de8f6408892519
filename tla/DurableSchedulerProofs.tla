------------------------ MODULE DurableSchedulerProofs ------------------------
(***************************************************************************)
(* Proofs about DurableScheduler, for any number of tasks, pollers and     *)
(* commands and any bounds.  A pass works on one record at a time; the     *)
(* lemmas of the first part say which one and when it stays the same.      *)
(***************************************************************************)
EXTENDS DurableScheduler, WellFoundedInduction, TLAPS

-------------------------------------------------------------------------------
(* The record a pass is at *)

\* A set of times, or of ids, has a least element.
LEMMA LeastNat ==
    ASSUME NEW S \in SUBSET Nat, S # {}
    PROVE  \E x \in S : \A y \in S : x <= y
<1>1. \E R : IsWellFoundedOn(R, Nat) /\ \A x, y \in Nat : y < x => <<y, x>> \in R
  <2>1. \A x, y \in Nat : y < x => <<y, x>> \in OpToRel(<, Nat)
    BY DEF OpToRel
  <2> QED
    BY <2>1, NatLessThanWellFounded
<1>2. PICK R : IsWellFoundedOn(R, Nat) /\ \A x, y \in Nat : y < x => <<y, x>> \in R
  BY <1>1
<1>3. PICK x \in S : \A y \in S : ~ (<<y, x>> \in R)
  BY <1>2, WFMin
<1>4. ASSUME NEW y \in S PROVE x <= y
  <2>1. x \in Nat /\ y \in Nat
    OBVIOUS
  <2>2. ~ (y < x)
    BY <1>2, <1>3
  <2> QED
    BY <2>1, <2>2
<1> QED
  BY <1>4

\* The file that load_records reads next is one of those that are left.
LEMMA MinIsMember ==
    ASSUME NEW S \in SUBSET Tasks, S # {}
    PROVE  Min(S) \in S
<1>1. S \in SUBSET Nat
  BY SchedulerAssumption DEF Tasks
<1>2. \E x \in S : \A y \in S : x <= y
  BY <1>1, LeastNat
<1> QED
  BY <1>2 DEF Min

\* A pass with a due record is at one of its due records.
LEMMA CurrentIsDue ==
    ASSUME TypeOK, NEW p \in Pollers, Due(p) # {}
    PROVE  Current(p) \in Due(p)
<1> DEFINE next(t) == records[p][t].next
           Times0 == {next(t) : t \in Due(p)}
<1>1. \A t \in Due(p) : t \in Tasks /\ t \in Nat /\ next(t) \in Nat
  BY SchedulerAssumption DEF Due, TypeOK, PollerTypes, Tasks, RuntimeStates
<1>2. PICK s \in Times0 : \A r \in Times0 : s <= r
  <2>1. Times0 \in SUBSET Nat /\ Times0 # {}
    BY <1>1
  <2> HIDE DEF Times0
  <2> QED
    BY <2>1, LeastNat
<1> DEFINE Firsts == {t \in Due(p) : next(t) = s}
<1>3. PICK t \in Firsts : \A u \in Firsts : t <= u
  <2>1. Firsts \in SUBSET Nat /\ Firsts # {}
    BY <1>1, <1>2
  <2> HIDE DEF Firsts
  <2> QED
    BY <2>1, LeastNat
<1>4. ASSUME NEW u \in Due(p)
      PROVE  \/ records[p][t].next < records[p][u].next
             \/ records[p][t].next = records[p][u].next /\ t <= u
  <2>1. next(t) = s /\ next(u) \in Nat /\ s \in Nat /\ s <= next(u)
    BY <1>1, <1>2
  <2>2. next(u) = s => t <= u
    BY <1>3
  <2> QED
    BY <2>1, <2>2
<1>5. t \in Due(p)
  BY <1>3
<1> QED
  BY <1>4 DEF Current

\* As long as neither the copied records nor the time of the pass change, the pass
\* stays at its record.
LEMMA SameRecord ==
    ASSUME NEW p \in Pollers, records'[p] = records[p], now'[p] = now[p]
    PROVE  Due(p)' = Due(p) /\ Current(p)' = Current(p)
<1>1. Due(p)' = Due(p)
  BY DEF Due
<1>2. Current(p)' = Current(p)
  BY <1>1 DEF Current
<1> QED
  BY <1>1, <1>2

\* A due slot is one of the slots that are counted.
LEMMA DueSlot ==
    ASSUME TypeOK, NEW p \in Pollers, NEW t \in Due(p)
    PROVE  /\ t \in Tasks
           /\ records[p][t] \in RuntimeStates
           /\ records[p][t].next \in Times
BY SchedulerAssumption DEF Due, TypeOK, PollerTypes, RuntimeStates, Times
-------------------------------------------------------------------------------
(* Types *)

\* Counting what makes a run not count stays within MaxRuns.
LEMMA MishapTypes ==
    ASSUME HistoryTypes, NEW t \in Tasks, Mishap(t)
    PROVE  mishaps' \in [Tasks -> 0 .. MaxRuns]
<1>1. (IF mishaps[t] < MaxRuns THEN mishaps[t] + 1 ELSE mishaps[t]) \in 0 .. MaxRuns
  BY SchedulerAssumption DEF HistoryTypes
<1> QED
  BY <1>1 DEF HistoryTypes, Mishap

\* Counting a start (try_acquire_claim) stays within MaxRuns.
LEMMA StartTypes ==
    ASSUME HistoryTypes, NEW t \in Tasks, NEW s \in Times,
           started' = [started EXCEPT ![t][s] = IF @ < MaxRuns THEN @ + 1 ELSE @]
    PROVE  started' \in [Tasks -> [Times -> 0 .. MaxRuns]]
<1>1. started[t] \in [Times -> 0 .. MaxRuns]
  BY DEF HistoryTypes
<1>2. (IF started[t][s] < MaxRuns THEN started[t][s] + 1 ELSE started[t][s]) \in 0 .. MaxRuns
  BY <1>1, SchedulerAssumption
<1>3. [started[t] EXCEPT ![s] = IF @ < MaxRuns THEN @ + 1 ELSE @] \in [Times -> 0 .. MaxRuns]
  BY <1>1, <1>2
<1> QED
  BY <1>3 DEF HistoryTypes

\* A poller that goes on to its next step keeps the types of the pass.
LEMMA GotoTypes ==
    ASSUME PollerTypes, NEW p \in Pollers,
           NEW l \in InRun \cup {"off", "idle", "read_definition", "read_runtime",
                                 "try_acquire_claim", "claim_is_stale", "remove_stale"},
           Goto(p, l), UNCHANGED <<now, left, records>>
    PROVE  PollerTypes'
BY DEF PollerTypes, Goto

\* So does one that is done with a record and goes on to the next.
LEMMA DropTypes ==
    ASSUME PollerTypes, NEW p \in Pollers,
           NEW l \in InRun \cup {"off", "idle", "read_definition", "read_runtime",
                                 "try_acquire_claim", "claim_is_stale", "remove_stale"},
           Goto(p, l), NextRecord(p), UNCHANGED <<now, left>>
    PROVE  PollerTypes'
BY DEF PollerTypes, Goto, NextRecord

\* So does one whose pass ends with an error.
LEMMA PassFailsTypes ==
    ASSUME PollerTypes, NEW p \in Pollers, PassFails(p)
    PROVE  PollerTypes'
<1>1. pc' \in [Pollers -> InRun \cup
                 {"off", "idle", "read_definition", "read_runtime", "try_acquire_claim",
                  "claim_is_stale", "remove_stale"}]
  BY DEF PollerTypes, PassFails, Goto
<1>2. left' \in [Pollers -> SUBSET Tasks] /\ now' \in [Pollers -> 0 .. MaxTime]
  BY DEF PollerTypes, PassFails
<1>3. records' \in [Pollers -> [Tasks -> RuntimeStates \cup {Absent}]]
  BY DEF PollerTypes, PassFails, NoRecords
<1> QED
  BY <1>1, <1>2, <1>3 DEF PollerTypes

\* A command at work has a task.
LEMMA CommandTask ==
    ASSUME CommandTypes, NEW c \in Commands, cmd[c].step # "idle"
    PROVE  cmd[c].task \in Tasks
BY DEF CommandTypes, Tasks

\* A command that goes on to its next step keeps its type.
LEMMA CommandTypesStep ==
    ASSUME CommandTypes, NEW c \in Commands, NEW t \in Tasks,
           NEW l \in {"idle", "count", "write_definition", "write_runtime",
                      "remove_definition", "remove_runtime", "remove_claim"},
           CmdGoto(c, l, t)
    PROVE  CommandTypes'
BY DEF CommandTypes, CmdGoto, Tasks

\* So does one that ends.
LEMMA CommandTypesEnd ==
    ASSUME CommandTypes, NEW c \in Commands, cmd' = [cmd EXCEPT ![c] = NoCommand]
    PROVE  CommandTypes'
BY SchedulerAssumption DEF CommandTypes, NoCommand

\* The record, or the file, that an action of a poller works on.
LEMMA AtWork ==
    ASSUME TypeOK, NEW p \in Pollers
    PROVE  /\ Due(p) # {} => /\ Current(p) \in Due(p) /\ Current(p) \in Tasks
                             /\ records[p][Current(p)] \in RuntimeStates
                             /\ records[p][Current(p)].next \in Times
           /\ pc[p] \in {"exec", "release_claim", "remove_claim", "update_runtime",
                         "claim_is_stale", "remove_stale"} => Due(p) # {}
           /\ left[p] # {} => Min(left[p]) \in left[p] /\ Min(left[p]) \in Tasks
           /\ pc[p] = "read_runtime" => left[p] # {}
<1>1. left[p] \in SUBSET Tasks
  BY DEF TypeOK, PollerTypes
<1> QED
  BY <1>1, CurrentIsDue, DueSlot, MinIsMember DEF TypeOK, AtRecord, InRun, Holding

\* Every step keeps the types of the files.
LEMMA FileTypesKept ==
    ASSUME TypeOK, [Next]_vars
    PROVE  FileTypes'
<1>0. FileTypes /\ PollerTypes /\ CommandTypes /\ HistoryTypes /\ clock \in Times
  BY DEF TypeOK
<1>1. ASSUME NEW p \in Pollers, PollerStep(p) \/ PollerFault(p) PROVE FileTypes'
  <2>1. CASE update_runtime(p)
    <3>1. advance_record_runtime(Current(p), records[p][Current(p)]) \in RuntimeStates
      BY <2>1, AtWork, SchedulerAssumption
      DEF advance_record_runtime, RuntimeStates, Times, update_runtime
    <3> QED
      BY <3>1, <2>1, <1>0 DEF FileTypes, update_runtime
  <2>2. CASE \/ BeginPass(p) \/ read_definition(p) \/ read_runtime(p) \/ EndLoad(p)
             \/ EndPass(p) \/ try_acquire_claim(p) \/ claim_is_taken(p) \/ claim_is_stale(p)
             \/ remove_stale(p) \/ execute_record(p) \/ release_claim(p) \/ remove_claim(p)
             \/ try_acquire_claim_fails(p) \/ update_runtime_fails(p) \/ Crash(p) \/ Restart(p)
    BY <2>2, <1>0
    DEF FileTypes, fileVars, BeginPass, read_definition, read_runtime, EndLoad, EndPass,
        try_acquire_claim, claim_is_taken, claim_is_stale, remove_stale, execute_record,
        release_claim, remove_claim, try_acquire_claim_fails, update_runtime_fails, Crash,
        Restart
  <2> QED
    BY <1>1, <2>1, <2>2 DEF PollerStep, PollerFault
<1>2. ASSUME NEW c \in Commands, CommandStep(c) PROVE FileTypes'
  <2>1. CASE build_definition(c)
    BY <2>1, <1>0, SchedulerAssumption DEF FileTypes, build_definition, Times
  <2>2. CASE write_definition(c)
    BY <2>2, <1>0, CommandTask DEF FileTypes, write_definition
  <2>3. CASE write_runtime(c)
    BY <2>3, <1>0 DEF FileTypes, write_runtime, initialize_runtime_state, RuntimeStates
  <2>4. CASE delete(c)
    BY <2>4, <1>0 DEF FileTypes, delete
  <2>5. CASE count(c) \/ load_record(c) \/ CommandEnds(c)
    BY <2>5, <1>0 DEF FileTypes, fileVars, count, load_record, CommandEnds
  <2> QED
    BY <1>2, <2>1, <2>2, <2>3, <2>4, <2>5 DEF CommandStep
<1>3. CASE Tick \/ \E t \in Tasks : ClaimAges(t)
  BY <1>3, <1>0 DEF FileTypes, fileVars, Tick, ClaimAges
<1>4. CASE UNCHANGED vars
  BY <1>4, <1>0 DEF FileTypes, fileVars, vars
<1> QED
  BY <1>1, <1>2, <1>3, <1>4 DEF Next

\* Every step keeps the types of the pollers.
LEMMA PollerTypesKept ==
    ASSUME TypeOK, [Next]_vars
    PROVE  PollerTypes'
<1>0. FileTypes /\ PollerTypes /\ CommandTypes /\ HistoryTypes /\ clock \in Times
  BY DEF TypeOK
<1>1. ASSUME NEW p \in Pollers, PollerStep(p) \/ PollerFault(p) PROVE PollerTypes'
  <2>1. CASE read_definition(p)
    <3>1. CASE Min(left[p]) \in defined
      BY <2>1, <1>0, GotoTypes, PassFailsTypes DEF read_definition
    <3>2. CASE ~ (Min(left[p]) \in defined)
      BY <2>1, <1>0, GotoTypes, PassFailsTypes DEF read_definition
    <3> QED
      BY <3>1, <3>2
  <2>2. CASE remove_claim(p)
    <3>1. CASE claim[Current(p)] = Absent
      BY <3>1, <2>2, <1>0, PassFailsTypes DEF remove_claim
    <3>2. CASE ~ (claim[Current(p)] = Absent)
      BY <2>2, <1>0, GotoTypes, PassFailsTypes DEF remove_claim, InRun
    <3> QED
      BY <3>1, <3>2
  <2>3. CASE read_runtime(p)
    BY <2>3, <1>0, AtWork
    DEF PollerTypes, FileTypes, read_runtime, Goto, initialize_runtime_state, RuntimeStates
  <2>4. CASE claim_is_stale(p)
    <3>1. CASE claim[Current(p)] = Absent
      BY <3>1, <2>4, <1>0, PassFailsTypes, AbsentAssumption DEF claim_is_stale
    <3>2. CASE claim[Current(p)] = "fresh"
      BY <3>2, <2>4, <1>0, DropTypes, AbsentAssumption DEF claim_is_stale
    <3>3. CASE claim[Current(p)] = "stale"
      BY <3>3, <2>4, <1>0, GotoTypes, AbsentAssumption DEF claim_is_stale
    <3> QED
      BY <2>4, <3>1, <3>2, <3>3 DEF claim_is_stale
  <2>5. CASE \/ EndLoad(p) \/ try_acquire_claim(p) \/ claim_is_taken(p) \/ remove_stale(p)
            \/ execute_record(p) \/ release_claim(p)
    BY <2>5, <1>0, GotoTypes
    DEF EndLoad, try_acquire_claim, claim_is_taken, remove_stale, execute_record, release_claim,
        InRun, Holding
  <2>6. CASE BeginPass(p)
    BY <2>6, <1>0 DEF PollerTypes, FileTypes, BeginPass, Goto, Times
  <2>7. CASE EndPass(p)
    BY <2>7, <1>0 DEF PollerTypes, EndPass, Goto, NoRecords
  <2>8. CASE Crash(p)
    BY <2>8, <1>0 DEF PollerTypes, Crash, Goto, NoRecords
  <2>9. CASE update_runtime(p)
    BY <2>9, <1>0, DropTypes DEF update_runtime
  <2>10. CASE try_acquire_claim_fails(p) \/ update_runtime_fails(p)
    BY <2>10, <1>0, PassFailsTypes DEF try_acquire_claim_fails, update_runtime_fails
  <2>11. CASE Restart(p)
    BY <2>11, <1>0 DEF PollerTypes, Goto, Restart
  <2> QED
    BY <1>1, <2>1, <2>2, <2>3, <2>4, <2>5, <2>6, <2>7, <2>8, <2>9, <2>10, <2>11
    DEF PollerStep, PollerFault
<1>2. ASSUME NEW c \in Commands, CommandStep(c) PROVE PollerTypes'
  <2>1. CASE \/ build_definition(c) \/ count(c) \/ write_definition(c) \/ write_runtime(c)
             \/ load_record(c) \/ delete(c) \/ CommandEnds(c)
    BY <2>1, <1>0
    DEF PollerTypes, pollerVars, build_definition, count, write_definition, write_runtime,
        load_record, delete, CommandEnds
  <2> QED
    BY <1>2, <2>1 DEF CommandStep
<1>3. CASE Tick \/ \E t \in Tasks : ClaimAges(t)
  BY <1>3, <1>0 DEF PollerTypes, pollerVars, Tick, ClaimAges
<1>4. CASE UNCHANGED vars
  BY <1>4, <1>0 DEF PollerTypes, pollerVars, vars
<1> QED
  BY <1>1, <1>2, <1>3, <1>4 DEF Next

\* Every step keeps the types of the commands.
LEMMA CommandTypesKept ==
    ASSUME TypeOK, [Next]_vars
    PROVE  CommandTypes'
<1>0. FileTypes /\ PollerTypes /\ CommandTypes /\ HistoryTypes /\ clock \in Times
  BY DEF TypeOK
<1>1. ASSUME NEW p \in Pollers, PollerStep(p) \/ PollerFault(p) PROVE CommandTypes'
  <2>1. CASE \/ BeginPass(p) \/ read_definition(p) \/ read_runtime(p) \/ EndLoad(p)
             \/ EndPass(p) \/ try_acquire_claim(p) \/ claim_is_taken(p) \/ claim_is_stale(p)
             \/ remove_stale(p) \/ execute_record(p) \/ release_claim(p) \/ remove_claim(p)
             \/ update_runtime(p) \/ try_acquire_claim_fails(p) \/ update_runtime_fails(p)
             \/ Crash(p) \/ Restart(p)
    BY <2>1, <1>0
    DEF CommandTypes, BeginPass, read_definition, read_runtime, EndLoad, EndPass,
        try_acquire_claim, claim_is_taken, claim_is_stale, remove_stale, execute_record,
        release_claim, remove_claim, update_runtime, try_acquire_claim_fails,
        update_runtime_fails, Crash, Restart
  <2> QED
    BY <1>1, <2>1 DEF PollerStep, PollerFault
<1>2. ASSUME NEW c \in Commands, CommandStep(c) PROVE CommandTypes'
  <2>1. CASE delete(c)
    BY <2>1, <1>0, CommandTask, CommandTypesStep, CommandTypesEnd DEF delete
  <2>2. CASE count(c)
    BY <2>2, <1>0, CommandTask, CommandTypesStep, CommandTypesEnd DEF count
  <2>3. CASE build_definition(c)
    BY <2>3, <1>0, CommandTypesStep DEF build_definition
  <2>4. CASE load_record(c)
    BY <2>4, <1>0, CommandTypesStep DEF load_record, FileTypes
  <2>5. CASE write_definition(c)
    BY <2>5, <1>0, CommandTask, CommandTypesStep DEF write_definition
  <2>6. CASE write_runtime(c) \/ CommandEnds(c)
    BY <2>6, <1>0, CommandTypesEnd DEF write_runtime, CommandEnds
  <2> QED
    BY <1>2, <2>1, <2>2, <2>3, <2>4, <2>5, <2>6 DEF CommandStep
<1>3. CASE Tick \/ \E t \in Tasks : ClaimAges(t)
  BY <1>3, <1>0 DEF CommandTypes, Tick, ClaimAges
<1>4. CASE UNCHANGED vars
  BY <1>4, <1>0 DEF CommandTypes, vars
<1> QED
  BY <1>1, <1>2, <1>3, <1>4 DEF Next

\* Every step keeps the types of the history variables.
LEMMA HistoryTypesKept ==
    ASSUME TypeOK, [Next]_vars
    PROVE  HistoryTypes'
<1>0. FileTypes /\ PollerTypes /\ CommandTypes /\ HistoryTypes /\ clock \in Times
  BY DEF TypeOK
<1>1. ASSUME NEW p \in Pollers, PollerStep(p) \/ PollerFault(p) PROVE HistoryTypes'
  <2>1. CASE read_runtime(p)
    <3>1. mishaps' \in [Tasks -> 0 .. MaxRuns]
      BY <2>1, <1>0, AtWork, MishapTypes DEF HistoryTypes, read_runtime
    <3> QED
      BY <3>1, <2>1, <1>0 DEF HistoryTypes, read_runtime
  <2>2. CASE try_acquire_claim(p)
    <3>1. started' \in [Tasks -> [Times -> 0 .. MaxRuns]]
      <4>1. Current(p) \in Tasks /\ records[p][Current(p)].next \in Times
        BY <2>2, AtWork DEF try_acquire_claim
      <4>2. started' = [started EXCEPT ![Current(p)][records[p][Current(p)].next] =
                           IF @ < MaxRuns THEN @ + 1 ELSE @]
        BY <2>2 DEF try_acquire_claim
      <4> QED
        BY <4>1, <4>2, <1>0, StartTypes
    <3> QED
      BY <3>1, <2>2, <1>0 DEF HistoryTypes, try_acquire_claim
  <2>3. CASE execute_record(p)
    BY <2>3, <1>0, AtWork DEF HistoryTypes, execute_record
  <2>4. CASE remove_stale(p)
    BY <2>4, <1>0, AtWork DEF HistoryTypes, remove_stale
  <2>5. CASE remove_claim(p)
    <3>1. mishaps' \in [Tasks -> 0 .. MaxRuns]
      BY <2>5, <1>0, AtWork, MishapTypes DEF HistoryTypes, remove_claim
    <3> QED
      BY <3>1, <2>5, <1>0 DEF HistoryTypes, remove_claim
  <2>6. CASE update_runtime_fails(p)
    <3>1. mishaps' \in [Tasks -> 0 .. MaxRuns]
      BY <2>6, <1>0, AtWork, MishapTypes DEF update_runtime_fails
    <3> QED
      BY <3>1, <2>6, <1>0 DEF HistoryTypes, update_runtime_fails
  <2>7. CASE Crash(p)
    <3>1. mishaps' \in [Tasks -> 0 .. MaxRuns]
      BY <2>7, <1>0, AtWork, MishapTypes DEF HistoryTypes, Crash, InRun, Holding
    <3> QED
      BY <3>1, <2>7, <1>0 DEF HistoryTypes, Crash
  <2>8. CASE \/ BeginPass(p) \/ read_definition(p) \/ EndLoad(p) \/ EndPass(p)
             \/ claim_is_taken(p) \/ claim_is_stale(p) \/ release_claim(p) \/ update_runtime(p)
             \/ try_acquire_claim_fails(p) \/ Restart(p)
    BY <2>8, <1>0
    DEF HistoryTypes, historyVars, BeginPass, read_definition, EndLoad, EndPass, claim_is_taken,
        claim_is_stale, release_claim, update_runtime, try_acquire_claim_fails, Restart
  <2> QED
    BY <1>1, <2>1, <2>2, <2>3, <2>4, <2>5, <2>6, <2>7, <2>8 DEF PollerStep, PollerFault
<1>2. ASSUME NEW c \in Commands, CommandStep(c) PROVE HistoryTypes'
  <2>1. CASE write_runtime(c)
    <3>1. mishaps' \in [Tasks -> 0 .. MaxRuns]
      BY <2>1, <1>0, CommandTask, MishapTypes DEF HistoryTypes, write_runtime
    <3> QED
      BY <3>1, <2>1, <1>0 DEF HistoryTypes, write_runtime
  <2>2. CASE delete(c)
    BY <2>2, <1>0, CommandTask DEF HistoryTypes, delete
  <2>3. CASE \/ build_definition(c) \/ count(c) \/ write_definition(c) \/ load_record(c)
             \/ CommandEnds(c)
    BY <2>3, <1>0
    DEF HistoryTypes, historyVars, build_definition, count, write_definition, load_record,
        CommandEnds
  <2> QED
    BY <1>2, <2>1, <2>2, <2>3 DEF CommandStep
<1>3. CASE Tick \/ \E t \in Tasks : ClaimAges(t)
  BY <1>3, <1>0 DEF HistoryTypes, historyVars, Tick, ClaimAges
<1>4. CASE UNCHANGED vars
  BY <1>4, <1>0 DEF HistoryTypes, historyVars, vars
<1> QED
  BY <1>1, <1>2, <1>3, <1>4 DEF Next

\* A step of a poller leaves the other pollers alone.
LEMMA OthersStay ==
    ASSUME PollerTypes, NEW p \in Pollers, PollerStep(p) \/ PollerFault(p),
           NEW q \in Pollers, q # p
    PROVE  /\ pc'[q] = pc[q] /\ left'[q] = left[q]
           /\ records'[q] = records[q] /\ now'[q] = now[q]
<1>1. CASE PollerStep(p)
  <2>1. CASE read_definition(p) \/ claim_is_stale(p) \/ remove_claim(p)
    BY <2>1
    DEF PollerTypes, Goto, PassFails, NextRecord, read_definition, claim_is_stale, remove_claim
  <2>2. CASE \/ BeginPass(p) \/ read_runtime(p) \/ EndLoad(p) \/ EndPass(p)
             \/ update_runtime(p)
    BY <2>2
    DEF PollerTypes, Goto, NextRecord, BeginPass, read_runtime, EndLoad, EndPass, update_runtime
  <2>3. CASE \/ try_acquire_claim(p) \/ claim_is_taken(p) \/ remove_stale(p)
             \/ execute_record(p) \/ release_claim(p)
    BY <2>3
    DEF PollerTypes, Goto, try_acquire_claim, claim_is_taken, remove_stale, execute_record,
        release_claim
  <2> QED
    BY <1>1, <2>1, <2>2, <2>3 DEF PollerStep
<1>2. CASE PollerFault(p)
  BY <1>2
  DEF PollerTypes, PollerFault, Goto, PassFails, try_acquire_claim_fails, update_runtime_fails,
      Crash, Restart
<1> QED
  BY <1>1, <1>2

\* A poller never loses the record or the file that it is at.
LEMMA AtRecordKept ==
    ASSUME TypeOK, [Next]_vars, NEW q \in Pollers
    PROVE  AtRecord(q)'
<1>0. AtRecord(q) /\ PollerTypes
  BY DEF TypeOK
<1>1. ASSUME pc'[q] = pc[q], left'[q] = left[q], records'[q] = records[q], now'[q] = now[q]
      PROVE  AtRecord(q)'
  BY <1>0, <1>1, SameRecord DEF AtRecord
<1>2. ASSUME UNCHANGED pollerVars PROVE AtRecord(q)'
  BY <1>1, <1>2 DEF pollerVars
<1>3. ASSUME NEW p \in Pollers, PollerStep(p) \/ PollerFault(p), p # q PROVE AtRecord(q)'
  <2>1. pc'[q] = pc[q] /\ left'[q] = left[q] /\ records'[q] = records[q] /\ now'[q] = now[q]
    BY <1>0, <1>3, OthersStay
  <2> QED
    BY <2>1, <1>1
<1>4. CASE PollerStep(q) \/ PollerFault(q)
  <2>1. CASE \/ try_acquire_claim(q) \/ claim_is_taken(q)
             \/ execute_record(q) \/ release_claim(q)
    <3>1. records'[q] = records[q] /\ now'[q] = now[q] /\ Due(q) # {} /\ pc'[q] # "read_runtime"
      BY <2>1, <1>0, AtWork
      DEF PollerTypes, Goto, try_acquire_claim, claim_is_taken, execute_record, release_claim
    <3> QED
      BY <3>1, SameRecord DEF AtRecord
  <2>2. CASE claim_is_stale(q) \/ remove_claim(q)
    <3>1. Due(q) # {}
      BY <2>2, AtWork DEF claim_is_stale, remove_claim
    <3>2. \/ Goto(q, "try_acquire_claim")
          \/ PassFails(q)
          \/ /\ UNCHANGED <<now, left, records>>
             /\ \E l \in {"remove_stale", "update_runtime"} : Goto(q, l)
      BY <2>2 DEF claim_is_stale, remove_claim
    <3>3. CASE Goto(q, "try_acquire_claim") \/ PassFails(q)
      BY <3>3, <1>0 DEF PollerTypes, Goto, PassFails, AtRecord, InRun, Holding
    <3>4. ASSUME UNCHANGED <<now, left, records>>,
                 NEW l \in {"remove_stale", "update_runtime"}, Goto(q, l)
          PROVE  AtRecord(q)'
      BY <3>1, <3>4, <1>0, SameRecord DEF Goto, AtRecord
    <3> QED
      BY <3>2, <3>3, <3>4
  <2>3. CASE read_definition(q)
    BY <2>3, <1>0 DEF PollerTypes, Goto, PassFails, read_definition, AtRecord, InRun, Holding
  <2>4. CASE \/ BeginPass(q) \/ read_runtime(q) \/ EndLoad(q) \/ EndPass(q)
             \/ remove_stale(q) \/ update_runtime(q) \/ PollerFault(q)
    <3>1. pc'[q] \in {"off", "idle", "read_definition", "try_acquire_claim"}
      BY <2>4, <1>0
      DEF PollerTypes, Goto, PassFails, BeginPass, read_runtime, EndLoad, EndPass, remove_stale,
          update_runtime, PollerFault, try_acquire_claim_fails, update_runtime_fails, Crash,
          Restart
    <3> QED
      BY <3>1 DEF AtRecord, InRun, Holding
  <2> QED
    BY <1>4, <2>1, <2>2, <2>3, <2>4 DEF PollerStep
<1>5. ASSUME NEW c \in Commands, CommandStep(c) PROVE AtRecord(q)'
  BY <1>2, <1>5
  DEF CommandStep, build_definition, count, write_definition, write_runtime, load_record,
      delete, CommandEnds
<1> QED
  BY <1>2, <1>3, <1>4, <1>5 DEF Next, Tick, ClaimAges, vars

\* Every variable keeps its type, and a poller that deals with a claim deals with a
\* record of its pass that is due (run_due_tasks_once).
THEOREM TypeCorrect == Spec => []TypeOK
<1>1. Init => TypeOK
  BY SchedulerAssumption
  DEF Init, TypeOK, FileTypes, PollerTypes, CommandTypes, HistoryTypes, AtRecord, RuntimeStates,
      NoRecords, NoCommand, InRun, Holding, Times
<1>2. TypeOK /\ [Next]_vars => TypeOK'
  <2> SUFFICES ASSUME TypeOK, [Next]_vars PROVE TypeOK'
    OBVIOUS
  <2>1. ASSUME NEW p \in Pollers, PollerStep(p) PROVE clock' = clock
    BY <2>1
    DEF PollerStep, BeginPass, read_definition, read_runtime, EndLoad, EndPass,
        try_acquire_claim, claim_is_taken, claim_is_stale, remove_stale, execute_record,
        release_claim, remove_claim, update_runtime
  <2>2. ASSUME NEW p \in Pollers, PollerFault(p) PROVE clock' = clock
    BY <2>2 DEF PollerFault, try_acquire_claim_fails, update_runtime_fails, Crash, Restart
  <2>3. ASSUME NEW c \in Commands, CommandStep(c) PROVE clock' = clock
    BY <2>3
    DEF CommandStep, build_definition, count, write_definition, write_runtime, load_record,
        delete, CommandEnds
  <2>4. clock' \in Times
    BY <2>1, <2>2, <2>3, SchedulerAssumption DEF TypeOK, Next, Tick, ClaimAges, vars, Times
  <2> QED
    BY <2>4, FileTypesKept, PollerTypesKept, CommandTypesKept, HistoryTypesKept, AtRecordKept
    DEF TypeOK
<1> QED
  BY <1>1, <1>2, PTL DEF Spec
-------------------------------------------------------------------------------
(* One run at a time *)

\* Only a poller that has just made the claim starts to run a task.
LEMMA StartsToRun ==
    ASSUME TypeOK, [Next]_vars, NEW q \in Pollers, NEW t \in Tasks, Runs(q, t)', ~ Runs(q, t)
    PROVE  try_acquire_claim(q) /\ t = Current(q)
<1>0. PollerTypes
  BY DEF TypeOK
<1>1. ASSUME pc'[q] = pc[q], records'[q] = records[q], now'[q] = now[q] PROVE FALSE
  BY <1>1, SameRecord DEF Runs
<1>2. CASE UNCHANGED pollerVars
  BY <1>1, <1>2 DEF pollerVars
<1>3. CASE \E c \in Commands : CommandStep(c)
  BY <1>2, <1>3
  DEF CommandStep, build_definition, count, write_definition, write_runtime, load_record,
      delete, CommandEnds
<1>4. ASSUME NEW p \in Pollers, PollerStep(p) \/ PollerFault(p), p # q PROVE FALSE
  BY <1>0, <1>1, <1>4, OthersStay
<1>5. CASE PollerStep(q) \/ PollerFault(q)
  <2>1. CASE try_acquire_claim(q)
    BY <2>1, SameRecord DEF Runs, try_acquire_claim
  <2>2. CASE execute_record(q) \/ release_claim(q)
    BY <2>2, SameRecord DEF Runs, execute_record, release_claim, Holding
  <2>3. CASE \/ read_definition(q) \/ claim_is_stale(q) \/ remove_claim(q)
    BY <2>3, <1>0
    DEF PollerTypes, Runs, Holding, Goto, PassFails, read_definition, claim_is_stale,
        remove_claim
  <2>4. CASE \/ BeginPass(q) \/ read_runtime(q) \/ EndLoad(q) \/ EndPass(q)
             \/ claim_is_taken(q) \/ remove_stale(q) \/ update_runtime(q)
    BY <2>4, <1>0
    DEF PollerTypes, Runs, Holding, Goto, BeginPass, read_runtime, EndLoad, EndPass,
        claim_is_taken, remove_stale, update_runtime
  <2>5. CASE PollerFault(q)
    BY <2>5, <1>0
    DEF PollerTypes, Runs, Holding, Goto, PassFails, PollerFault, try_acquire_claim_fails,
        update_runtime_fails, Crash, Restart
  <2> QED
    BY <1>5, <2>1, <2>2, <2>3, <2>4, <2>5 DEF PollerStep
<1> QED
  BY <1>2, <1>3, <1>4, <1>5 DEF Next, Tick, ClaimAges, vars

\* A claim goes away when its runner releases it, or with a trace in pried.
LEMMA ClaimGoes ==
    ASSUME TypeOK, [Next]_vars, NEW t \in Tasks, claim[t] # Absent, claim'[t] = Absent
    PROVE  \/ t \in pried'
           \/ \E p \in Pollers : remove_claim(p) /\ t = Current(p)
<1>0. FileTypes
  BY DEF TypeOK
<1>1. ASSUME NEW p \in Pollers, PollerStep(p) \/ PollerFault(p)
      PROVE  t \in pried' \/ (remove_claim(p) /\ t = Current(p))
  <2>1. CASE try_acquire_claim(p) \/ try_acquire_claim_fails(p)
    BY <2>1, <1>0 DEF FileTypes, try_acquire_claim, try_acquire_claim_fails
  <2>2. CASE remove_stale(p)
    BY <2>2 DEF remove_stale
  <2>3. CASE remove_claim(p)
    BY <2>3 DEF remove_claim
  <2>4. CASE \/ BeginPass(p) \/ read_definition(p) \/ read_runtime(p) \/ EndLoad(p)
             \/ EndPass(p) \/ claim_is_taken(p) \/ claim_is_stale(p) \/ execute_record(p)
             \/ release_claim(p) \/ update_runtime(p) \/ update_runtime_fails(p) \/ Crash(p)
             \/ Restart(p)
    BY <2>4
    DEF BeginPass, read_definition, read_runtime, EndLoad, EndPass, claim_is_taken,
        claim_is_stale, execute_record, release_claim, update_runtime, update_runtime_fails,
        Crash, Restart, fileVars
  <2> QED
    BY <1>1, <2>1, <2>2, <2>3, <2>4 DEF PollerStep, PollerFault
<1>2. ASSUME NEW c \in Commands, CommandStep(c) PROVE t \in pried'
  BY <1>0, <1>2
  DEF FileTypes, CommandStep, build_definition, count, write_definition, write_runtime,
      load_record, delete, CommandEnds, fileVars
<1>3. CASE \E u \in Tasks : ClaimAges(u)
  BY <1>3, AbsentAssumption DEF ClaimAges
<1> QED
  BY <1>1, <1>2, <1>3 DEF Next, Tick, vars, fileVars

\* What is on record as pried stays there.
LEMMA PriedGrows ==
    ASSUME [Next]_vars
    PROVE  pried \subseteq pried'
<1>1. ASSUME NEW p \in Pollers, PollerStep(p) PROVE pried \subseteq pried'
  BY <1>1
  DEF PollerStep, BeginPass, read_definition, read_runtime, EndLoad, EndPass, try_acquire_claim,
      claim_is_taken, claim_is_stale, remove_stale, execute_record, release_claim, remove_claim,
      update_runtime, historyVars
<1>2. ASSUME NEW p \in Pollers, PollerFault(p) PROVE pried \subseteq pried'
  BY <1>2
  DEF PollerFault, try_acquire_claim_fails, update_runtime_fails, Crash, Restart, historyVars
<1>3. ASSUME NEW c \in Commands, CommandStep(c) PROVE pried \subseteq pried'
  BY <1>3
  DEF CommandStep, build_definition, count, write_definition, write_runtime, load_record,
      delete, CommandEnds, historyVars
<1> QED
  BY <1>1, <1>2, <1>3 DEF Next, Tick, ClaimAges, vars, historyVars

\* Two pollers run a task at the same time only if somebody has removed its claim as
\* stale or deleted the task, for any number of pollers (try_acquire_claim,
\* release_claim).
THEOREM RunsExclude == Spec => []Exclusive
<1>1. Init => ExclusiveInv
  BY DEF Init, ExclusiveInv, Exclusive, Runs, Holding
<1>2. TypeOK /\ ExclusiveInv /\ [Next]_vars => ExclusiveInv'
  <2> SUFFICES ASSUME TypeOK, ExclusiveInv, [Next]_vars PROVE ExclusiveInv'
    OBVIOUS
  <2>1. ASSUME NEW p \in Pollers, NEW t \in Tasks, Runs(p, t)', t \notin pried'
        PROVE  claim'[t] # Absent
    <3>1. CASE Runs(p, t)
      <4>1. claim[t] # Absent
        BY <2>1, <3>1, PriedGrows DEF ExclusiveInv
      <4>2. ASSUME claim'[t] = Absent PROVE FALSE
        <5>1. PICK q \in Pollers : remove_claim(q) /\ t = Current(q)
          BY <4>1, <4>2, <2>1, ClaimGoes
        <5>2. Runs(q, t)
          BY <5>1 DEF remove_claim, Runs, Holding
        <5>3. p = q
          BY <5>2, <3>1, <2>1, PriedGrows DEF ExclusiveInv, Exclusive
        <5>4. pc'[q] \notin Holding
          BY <5>1 DEF remove_claim, Goto, PassFails, Holding, TypeOK, PollerTypes
        <5> QED
          BY <5>3, <5>4, <2>1 DEF Runs
      <4> QED
        BY <4>2
    <3>2. CASE ~ Runs(p, t)
      <4>1. try_acquire_claim(p) /\ t = Current(p)
        BY <2>1, <3>2, StartsToRun
      <4> QED
        BY <4>1, AbsentAssumption DEF try_acquire_claim, TypeOK, FileTypes
    <3> QED
      BY <3>1, <3>2
  <2>2. ASSUME NEW p \in Pollers, NEW q \in Pollers, NEW t \in Tasks, p # q,
               Runs(p, t)', Runs(q, t)', t \notin pried'
        PROVE  FALSE
    <3>1. ~ (Runs(p, t) /\ Runs(q, t))
      BY <2>2, PriedGrows DEF ExclusiveInv, Exclusive
    <3>2. ASSUME NEW r \in Pollers, NEW o \in Pollers, r # o, ~ Runs(r, t), Runs(r, t)',
                 Runs(o, t)'
          PROVE  FALSE
      <4>1. try_acquire_claim(r) /\ t = Current(r)
        BY <3>2, StartsToRun
      <4>2. claim[t] = Absent
        BY <4>1 DEF try_acquire_claim
      <4>3. pc'[o] = pc[o] /\ records'[o] = records[o] /\ now'[o] = now[o]
        BY <3>2, <4>1, OthersStay DEF TypeOK, PollerStep
      <4>4. Runs(o, t)
        BY <3>2, <4>3, SameRecord DEF Runs
      <4> QED
        BY <4>2, <4>4, <2>2, PriedGrows DEF ExclusiveInv
    <3> QED
      BY <3>1, <3>2, <2>2
  <2> QED
    BY <2>1, <2>2 DEF ExclusiveInv, Exclusive
<1>3. ExclusiveInv => Exclusive
  BY DEF ExclusiveInv
<1> QED
  BY <1>1, <1>2, <1>3, TypeCorrect, PTL DEF Spec
-------------------------------------------------------------------------------
(* Claims and their owners *)

\* A step after which no fault has happened yet is not a fault.
LEMMA NoFaultYet ==
    ASSUME faults \in Nat, [Next]_vars, faults' = 0
    PROVE  /\ faults = 0
           /\ \A p \in Pollers : ~ Crash(p) /\ ~ try_acquire_claim_fails(p)
                                            /\ ~ update_runtime_fails(p)
<1>1. faults' = faults \/ faults' = faults + 1
  BY DEF Next, PollerStep, BeginPass, read_definition, read_runtime, EndLoad, EndPass,
         try_acquire_claim, claim_is_taken, claim_is_stale, remove_stale, execute_record,
         release_claim, remove_claim, update_runtime, PollerFault, try_acquire_claim_fails,
         update_runtime_fails, Crash, Restart, CommandStep, build_definition, count,
         write_definition, write_runtime, load_record, delete, CommandEnds, Tick, ClaimAges,
         Fault, vars
<1>2. faults + 1 # 0
  OBVIOUS
<1>3. ASSUME NEW p \in Pollers,
             Crash(p) \/ try_acquire_claim_fails(p) \/ update_runtime_fails(p)
      PROVE  FALSE
  BY <1>2, <1>3 DEF Crash, try_acquire_claim_fails, update_runtime_fails, Fault
<1> QED
  BY <1>1, <1>2, <1>3

\* A run that ends without a fault leaves no claim behind.
LEMMA RunLeavesNoClaim ==
    ASSUME TypeOK, faults \in Nat, [Next]_vars, faults' = 0,
           NEW q \in Pollers, NEW t \in Tasks, Runs(q, t), ~ Runs(q, t)'
    PROVE  claim'[t] = Absent
<1>0. PollerTypes /\ FileTypes
  BY DEF TypeOK
<1>1. ASSUME pc'[q] = pc[q], records'[q] = records[q], now'[q] = now[q] PROVE FALSE
  BY <1>1, SameRecord DEF Runs
<1>2. CASE UNCHANGED pollerVars
  BY <1>1, <1>2 DEF pollerVars
<1>3. CASE \E c \in Commands : CommandStep(c)
  BY <1>2, <1>3
  DEF CommandStep, build_definition, count, write_definition, write_runtime, load_record,
      delete, CommandEnds
<1>4. ASSUME NEW p \in Pollers, PollerStep(p) \/ PollerFault(p), p # q PROVE FALSE
  BY <1>0, <1>1, <1>4, OthersStay
<1>5. CASE PollerStep(q) \/ PollerFault(q)
  <2>1. CASE execute_record(q)
    BY <2>1, <1>0, SameRecord DEF PollerTypes, Runs, execute_record, Goto, Holding
  <2>2. CASE release_claim(q)
    <3>1. Current(q)' = Current(q) /\ claim' = claim
      BY <2>2, SameRecord DEF release_claim, fileVars
    <3>2. CASE claim[Current(q)] = Absent
      BY <3>1, <3>2 DEF Runs
    <3>3. CASE claim[Current(q)] # Absent
      BY <2>2, <1>0, <3>1, <3>3 DEF PollerTypes, Runs, release_claim, Goto, Holding
    <3> QED
      BY <3>2, <3>3
  <2>3. CASE remove_claim(q)
    BY <2>3, <1>0 DEF FileTypes, Runs, remove_claim
  <2>4. CASE \/ BeginPass(q) \/ read_definition(q) \/ read_runtime(q) \/ EndLoad(q)
             \/ EndPass(q) \/ try_acquire_claim(q) \/ claim_is_taken(q) \/ claim_is_stale(q)
             \/ remove_stale(q) \/ update_runtime(q) \/ Restart(q)
    BY <2>4
    DEF Runs, Holding, BeginPass, read_definition, read_runtime, EndLoad, EndPass,
        try_acquire_claim, claim_is_taken, claim_is_stale, remove_stale, update_runtime, Restart
  <2> QED
    BY <1>5, <2>1, <2>2, <2>3, <2>4, NoFaultYet DEF PollerStep, PollerFault
<1> QED
  BY <1>2, <1>3, <1>4, <1>5 DEF Next, Tick, ClaimAges, vars

\* A claim that is made without a fault is made by a poller that runs the task.
LEMMA ClaimIsRun ==
    ASSUME TypeOK, faults \in Nat, [Next]_vars, faults' = 0,
           NEW t \in Tasks, claim[t] = Absent, claim'[t] # Absent
    PROVE  \E p \in Pollers : Runs(p, t)'
<1>0. PollerTypes /\ FileTypes
  BY DEF TypeOK
<1>1. ASSUME NEW p \in Pollers, PollerStep(p) \/ PollerFault(p) PROVE Runs(p, t)'
  <2>1. CASE try_acquire_claim(p)
    <3>1. Current(p) = t
      BY <2>1, <1>0 DEF FileTypes, try_acquire_claim
    <3>2. Current(p)' = Current(p)
      BY <2>1, SameRecord DEF try_acquire_claim
    <3> QED
      BY <2>1, <1>0, <3>1, <3>2 DEF PollerTypes, try_acquire_claim, Runs, Goto, Holding
  <2>2. CASE remove_stale(p) \/ remove_claim(p)
    BY <2>2, <1>0 DEF FileTypes, remove_stale, remove_claim
  <2>3. CASE \/ BeginPass(p) \/ read_definition(p) \/ read_runtime(p) \/ EndLoad(p)
             \/ EndPass(p) \/ claim_is_taken(p) \/ claim_is_stale(p) \/ execute_record(p)
             \/ release_claim(p) \/ update_runtime(p) \/ Restart(p)
    BY <2>3
    DEF BeginPass, read_definition, read_runtime, EndLoad, EndPass, claim_is_taken,
        claim_is_stale, execute_record, release_claim, update_runtime, Restart, fileVars
  <2> QED
    BY <1>1, <2>1, <2>2, <2>3, NoFaultYet DEF PollerStep, PollerFault
<1>2. ASSUME NEW c \in Commands, CommandStep(c) PROVE FALSE
  BY <1>0, <1>2
  DEF FileTypes, CommandStep, build_definition, count, write_definition, write_runtime,
      load_record, delete, CommandEnds, fileVars
<1>3. ASSUME NEW u \in Tasks, ClaimAges(u) PROVE FALSE
  BY <1>0, <1>3, AbsentAssumption DEF FileTypes, ClaimAges
<1> QED
  BY <1>1, <1>2, <1>3 DEF Next, Tick, vars, fileVars

\* A claim file is left behind only by a process that died and by a write that
\* failed, for any number of pollers, commands and tasks: every path of
\* run_due_tasks_once that takes a claim releases it.
THEOREM ClaimOwned == Spec => []ClaimHasOwner
<1> DEFINE FaultsCounted == faults \in Nat
<1>1. Init => FaultsCounted /\ ClaimHasOwner
  BY DEF Init, ClaimHasOwner
<1>2. FaultsCounted /\ [Next]_vars => FaultsCounted'
  BY DEF Next, PollerStep, BeginPass, read_definition, read_runtime, EndLoad, EndPass,
         try_acquire_claim, claim_is_taken, claim_is_stale, remove_stale, execute_record,
         release_claim, remove_claim, update_runtime, PollerFault, try_acquire_claim_fails,
         update_runtime_fails, Crash, Restart, CommandStep, build_definition, count,
         write_definition, write_runtime, load_record, delete, CommandEnds, Tick, ClaimAges,
         Fault, vars
<1>3. TypeOK /\ FaultsCounted /\ ClaimHasOwner /\ [Next]_vars => ClaimHasOwner'
  <2> SUFFICES ASSUME TypeOK, FaultsCounted, ClaimHasOwner, [Next]_vars, faults' = 0,
                      NEW t \in Tasks, claim'[t] # Absent
               PROVE  \E p \in Pollers : Runs(p, t)'
    BY DEF ClaimHasOwner
  <2>1. CASE claim[t] = Absent
    BY <2>1, ClaimIsRun
  <2>2. CASE claim[t] # Absent
    <3>1. PICK p \in Pollers : Runs(p, t)
      BY <2>2, NoFaultYet DEF ClaimHasOwner
    <3>2. Runs(p, t)'
      BY <3>1, RunLeavesNoClaim
    <3> QED
      BY <3>2
  <2> QED
    BY <2>1, <2>2
<1> QED
  BY <1>1, <1>2, <1>3, TypeCorrect, PTL DEF Spec
-------------------------------------------------------------------------------
(* Catching up *)

\* What is known of a runtime state r of a task that is first due at f, when the
\* slots in fin have been run to the end.
Sound(t, f, r, fin) ==
    r # Absent => /\ \A s \in Before(t, f, r) : <<t, s>> \in fin
                  /\ t \notin Recurring /\ r.next # 0 => r.next = f

\* CatchUpInv says that every file and every copy is sound.
LEMMA CatchUpIsSound ==
    CatchUpInv <=> /\ UnusedIds
                   /\ \A p \in Pollers : RanToEnd(p)
                   /\ \A t \in Tasks :
                         /\ Sound(t, first[t], runtime[t], finished)
                         /\ \A p \in Pollers : Sound(t, first[t], records[p][t], finished)
BY DEF CatchUpInv, NoSlotSkipped, CaughtUp, OneShotSlot, Sound

\* The same after a step.
LEMMA CatchUpIsSoundNext ==
    CatchUpInv' <=> /\ UnusedIds'
                    /\ \A p \in Pollers : RanToEnd(p)'
                    /\ \A t \in Tasks :
                          /\ Sound(t, first'[t], runtime'[t], finished')
                          /\ \A p \in Pollers : Sound(t, first'[t], records'[p][t], finished')
BY DEF CatchUpInv, NoSlotSkipped, CaughtUp, OneShotSlot, Sound

\* A new task has no slot before its first.
LEMMA InitialIsSound ==
    ASSUME NEW t \in Tasks, NEW f \in Nat \ {0}, NEW fin
    PROVE  Sound(t, f, [next |-> f, fired |-> FALSE], fin)
BY DEF Sound, Before, Slots, Times

\* The slot that has been run joins those before it.
LEMMA AdvancedIsSound ==
    ASSUME NEW t \in Tasks, NEW f \in Nat, NEW r \in RuntimeStates, NEW fin,
           Sound(t, f, r, fin), r.next \in Times, <<t, r.next>> \in fin
    PROVE  Sound(t, f, advance_record_runtime(t, r), fin)
<1>1. r # Absent
  BY AbsentAssumption
<1>2. CASE t \in Recurring
  <2>1. \A s \in Slots(t, f) : s < r.next + 1 => s < r.next \/ s = r.next
    BY DEF Slots, Times
  <2>2. r.next + 1 # 0
    BY SchedulerAssumption DEF Times
  <2> QED
    BY <1>1, <1>2, <2>1, <2>2 DEF Sound, Before, advance_record_runtime
<1>3. CASE t \notin Recurring
  <2>1. r.next = f
    BY <1>1, <1>3 DEF Sound, Times
  <2> QED
    BY <1>3, <2>1 DEF Sound, Before, Slots, advance_record_runtime
<1> QED
  BY <1>2, <1>3

\* What is known of a runtime state stays true when more slots have been run.
LEMMA SoundStays ==
    ASSUME NEW t, NEW f, NEW r, NEW fin, NEW fin2, fin \subseteq fin2, Sound(t, f, r, fin)
    PROVE  Sound(t, f, r, fin2)
BY DEF Sound

\* A run that came to its end stays on record.
LEMMA FinishedGrows ==
    ASSUME [Next]_vars
    PROVE  finished \subseteq finished'
<1>1. ASSUME NEW p \in Pollers, PollerStep(p) PROVE finished \subseteq finished'
  BY <1>1
  DEF PollerStep, BeginPass, read_definition, read_runtime, EndLoad, EndPass, try_acquire_claim,
      claim_is_taken, claim_is_stale, remove_stale, execute_record, release_claim, remove_claim,
      update_runtime, historyVars
<1>2. ASSUME NEW p \in Pollers, PollerFault(p) PROVE finished \subseteq finished'
  BY <1>2
  DEF PollerFault, try_acquire_claim_fails, update_runtime_fails, Crash, Restart, historyVars
<1>3. ASSUME NEW c \in Commands, CommandStep(c) PROVE finished \subseteq finished'
  BY <1>3
  DEF CommandStep, build_definition, count, write_definition, write_runtime, load_record,
      delete, CommandEnds, historyVars
<1> QED
  BY <1>1, <1>2, <1>3 DEF Next, Tick, ClaimAges, vars, historyVars

\* The first slot of a task is fixed once.
LEMMA FirstIsFixed ==
    ASSUME TypeOK, [Next]_vars, NEW t \in Tasks
    PROVE  \/ first'[t] = first[t]
           \/ first[t] = 0 /\ first'[t] # 0
<1>0. FileTypes /\ clock \in Nat \ {0}
  BY DEF TypeOK, Times
<1>1. ASSUME NEW p \in Pollers, PollerStep(p) PROVE first' = first
  BY <1>1
  DEF PollerStep, BeginPass, read_definition, read_runtime, EndLoad, EndPass, try_acquire_claim,
      claim_is_taken, claim_is_stale, remove_stale, execute_record, release_claim, remove_claim,
      update_runtime, fileVars
<1>2. ASSUME NEW p \in Pollers, PollerFault(p) PROVE first' = first
  BY <1>2
  DEF PollerFault, try_acquire_claim_fails, update_runtime_fails, Crash, Restart, fileVars
<1>3. ASSUME NEW c \in Commands, build_definition(c)
      PROVE  \/ first'[t] = first[t]
             \/ first[t] = 0 /\ first'[t] # 0
  <2>1. PICK u \in Tasks :
           /\ first[u] = 0
           /\ \E s \in (IF u \in Recurring THEN {clock + 1} ELSE {clock, clock + 1}) :
                 first' = [first EXCEPT ![u] = s]
    BY <1>3 DEF build_definition
  <2>2. PICK s \in {clock, clock + 1} : first' = [first EXCEPT ![u] = s]
    BY <2>1
  <2>3. s # 0
    BY <1>0, <2>2
  <2>4. first \in [Tasks -> 0 .. MaxTime + 1]
    BY <1>0 DEF FileTypes
  <2>5. CASE u = t
    <3>1. first'[t] = s
      BY <2>2, <2>4, <2>5
    <3> QED
      BY <2>1
  <2>6. CASE u # t
    <3>1. first'[t] = first[t]
      BY <2>2, <2>6
    <3> QED
      BY <3>1
  <2> QED
    BY <2>5, <2>6
<1>4. ASSUME NEW c \in Commands,
             \/ count(c) \/ write_definition(c) \/ write_runtime(c) \/ load_record(c)
             \/ delete(c) \/ CommandEnds(c)
      PROVE  first' = first
  BY <1>4 DEF count, write_definition, write_runtime, load_record, delete, CommandEnds, fileVars
<1>5. ASSUME Tick \/ (\E u \in Tasks : ClaimAges(u)) \/ UNCHANGED vars
      PROVE  first' = first
  BY <1>5 DEF Tick, ClaimAges, vars, fileVars
<1> QED
  BY <1>1, <1>2, <1>3, <1>4, <1>5 DEF Next, CommandStep

\* The runtime files that a step may leave behind.
LEMMA RuntimeFiles ==
    ASSUME TypeOK, UnusedIds, [Next]_vars, NEW t \in Tasks
    PROVE  \/ runtime'[t] \in {runtime[t], Absent}
           \/ first[t] # 0 /\ runtime'[t] = [next |-> first[t], fired |-> FALSE]
           \/ \E p \in Pollers :
                 /\ update_runtime(p) /\ t = Current(p)
                 /\ runtime'[t] = advance_record_runtime(t, records[p][t])
<1>0. FileTypes
  BY DEF TypeOK
<1>1. ASSUME NEW p \in Pollers, PollerStep(p) \/ PollerFault(p)
      PROVE  \/ runtime'[t] = runtime[t]
             \/ /\ update_runtime(p) /\ t = Current(p)
                /\ runtime'[t] = advance_record_runtime(t, records[p][t])
  <2>1. CASE update_runtime(p)
    BY <2>1 DEF update_runtime
  <2>2. CASE PollerStep(p) /\ ~ update_runtime(p)
    BY <2>2
    DEF PollerStep, BeginPass, read_definition, read_runtime, EndLoad, EndPass,
        try_acquire_claim, claim_is_taken, claim_is_stale, remove_stale, execute_record,
        release_claim, remove_claim, fileVars
  <2>3. CASE PollerFault(p)
    BY <2>3
    DEF PollerFault, try_acquire_claim_fails, update_runtime_fails, Crash, Restart, fileVars
  <2> QED
    BY <1>1, <2>1, <2>2, <2>3
<1>2. ASSUME NEW c \in Commands, CommandStep(c)
      PROVE  \/ runtime'[t] \in {runtime[t], Absent}
             \/ first[t] # 0 /\ runtime'[t] = [next |-> first[t], fired |-> FALSE]
  <2>1. CASE write_runtime(c)
    BY <1>0, <2>1 DEF FileTypes, UnusedIds, write_runtime, initialize_runtime_state
  <2>2. CASE delete(c)
    BY <1>0, <2>2 DEF FileTypes, delete
  <2>3. CASE \/ build_definition(c) \/ count(c) \/ write_definition(c) \/ load_record(c)
             \/ CommandEnds(c)
    BY <2>3 DEF build_definition, count, write_definition, load_record, CommandEnds, fileVars
  <2> QED
    BY <1>2, <2>1, <2>2, <2>3 DEF CommandStep
<1> QED
  BY <1>1, <1>2 DEF Next, Tick, ClaimAges, vars, fileVars

\* The records that the copy of a pass may hold after a step.
LEMMA CopiedRecords ==
    ASSUME TypeOK, UnusedIds, [Next]_vars, NEW q \in Pollers, NEW t \in Tasks
    PROVE  \/ records'[q][t] \in {records[q][t], runtime[t], Absent}
           \/ first[t] # 0 /\ records'[q][t] = [next |-> first[t], fired |-> FALSE]
<1>0. PollerTypes
  BY DEF TypeOK
<1>1. ASSUME NEW p \in Pollers, PollerStep(p) \/ PollerFault(p), p # q
      PROVE  records'[q] = records[q]
  BY <1>0, <1>1, OthersStay
<1>2. CASE PollerStep(q) \/ PollerFault(q)
  <2>1. CASE read_runtime(q)
    <3>1. Min(left[q]) \in left[q] /\ Min(left[q]) \in Tasks
      BY <2>1, AtWork DEF read_runtime
    <3>2. first[Min(left[q])] # 0
      BY <3>1 DEF UnusedIds
    <3> QED
      BY <1>0, <2>1, <3>2 DEF PollerTypes, read_runtime, initialize_runtime_state
  <2>2. CASE \/ read_definition(q) \/ EndPass(q) \/ remove_claim(q) \/ claim_is_stale(q)
    BY <1>0, <2>2
    DEF PollerTypes, PassFails, NextRecord, NoRecords, read_definition, EndPass, remove_claim,
        claim_is_stale
  <2>3. CASE \/ BeginPass(q) \/ EndLoad(q) \/ try_acquire_claim(q) \/ claim_is_taken(q)
             \/ remove_stale(q) \/ execute_record(q) \/ release_claim(q) \/ update_runtime(q)
    BY <1>0, <2>3
    DEF PollerTypes, NextRecord, BeginPass, EndLoad, try_acquire_claim, claim_is_taken,
        remove_stale, execute_record, release_claim, update_runtime
  <2>4. CASE PollerFault(q)
    BY <1>0, <2>4
    DEF PollerTypes, PassFails, NoRecords, PollerFault, try_acquire_claim_fails,
        update_runtime_fails, Crash, Restart
  <2> QED
    BY <1>2, <2>1, <2>2, <2>3, <2>4 DEF PollerStep
<1>3. ASSUME NEW c \in Commands, CommandStep(c) PROVE records' = records
  BY <1>3
  DEF CommandStep, build_definition, count, write_definition, write_runtime, load_record,
      delete, CommandEnds, pollerVars
<1> QED
  BY <1>1, <1>2, <1>3 DEF Next, Tick, ClaimAges, vars, pollerVars

\* A poller that is past the run of its record stays at that record.
LEMMA RanToEndKept ==
    ASSUME TypeOK, [Next]_vars, NEW q \in Pollers, RanToEnd(q)
    PROVE  RanToEnd(q)'
<1>0. PollerTypes
  BY DEF TypeOK
<1>1. ASSUME pc'[q] = pc[q], records'[q] = records[q], now'[q] = now[q] PROVE RanToEnd(q)'
  BY <1>1, SameRecord, FinishedGrows DEF RanToEnd
<1>2. CASE UNCHANGED pollerVars
  BY <1>1, <1>2 DEF pollerVars
<1>3. CASE \E c \in Commands : CommandStep(c)
  BY <1>2, <1>3
  DEF CommandStep, build_definition, count, write_definition, write_runtime, load_record,
      delete, CommandEnds
<1>4. ASSUME NEW p \in Pollers, PollerStep(p) \/ PollerFault(p), p # q PROVE RanToEnd(q)'
  BY <1>0, <1>1, <1>4, OthersStay
<1>5. CASE PollerStep(q) \/ PollerFault(q)
  <2>1. CASE execute_record(q)
    BY <2>1, SameRecord DEF RanToEnd, execute_record
  <2>2. CASE release_claim(q)
    BY <2>2, SameRecord DEF RanToEnd, release_claim, historyVars
  <2>3. CASE remove_claim(q)
    <3>1. CASE PassFails(q)
      BY <3>1, <1>0 DEF PollerTypes, PassFails, Goto, RanToEnd
    <3>2. CASE Goto(q, "update_runtime") /\ UNCHANGED <<now, left, records>>
      BY <2>3, <3>2, SameRecord DEF RanToEnd, remove_claim
    <3> QED
      BY <2>3, <3>1, <3>2 DEF remove_claim
  <2>4. CASE \/ read_definition(q) \/ claim_is_stale(q)
    BY <2>4, <1>0 DEF PollerTypes, RanToEnd, Goto, PassFails, read_definition, claim_is_stale
  <2>5. CASE \/ BeginPass(q) \/ read_runtime(q) \/ EndLoad(q) \/ EndPass(q)
             \/ try_acquire_claim(q) \/ claim_is_taken(q) \/ remove_stale(q)
             \/ update_runtime(q)
    BY <2>5, <1>0
    DEF PollerTypes, RanToEnd, Goto, BeginPass, read_runtime, EndLoad, EndPass,
        try_acquire_claim, claim_is_taken, remove_stale, update_runtime
  <2>6. CASE PollerFault(q)
    BY <2>6, <1>0
    DEF PollerTypes, RanToEnd, Goto, PassFails, PollerFault, try_acquire_claim_fails,
        update_runtime_fails, Crash, Restart
  <2> QED
    BY <1>5, <2>1, <2>2, <2>3, <2>4, <2>5, <2>6 DEF PollerStep
<1> QED
  BY <1>2, <1>3, <1>4, <1>5 DEF Next, Tick, ClaimAges, vars

\* Ids come into use before anything is known of them.
LEMMA UnusedIdsKept ==
    ASSUME TypeOK, UnusedIds, [Next]_vars
    PROVE  UnusedIds'
<1>0. FileTypes /\ PollerTypes /\ CommandTypes
  BY DEF TypeOK
<1>1. \A t \in Tasks : first[t] # 0 => first'[t] # 0
  BY FirstIsFixed
<1>2. ASSUME NEW t \in Tasks, first'[t] = 0
      PROVE  t \notin defined'
  <2>1. first[t] = 0
    BY <1>1, <1>2
  <2>2. t \notin defined
    BY <2>1 DEF UnusedIds
  <2>3. ASSUME NEW c \in Commands, CommandStep(c) PROVE t \notin defined'
    <3>1. CASE write_definition(c)
      BY <2>1, <3>1 DEF UnusedIds, write_definition
    <3>2. CASE delete(c)
      BY <2>2, <3>2 DEF delete
    <3>3. CASE \/ build_definition(c) \/ count(c) \/ write_runtime(c) \/ load_record(c)
               \/ CommandEnds(c)
      BY <2>2, <3>3
      DEF build_definition, count, write_runtime, load_record, CommandEnds, fileVars
    <3> QED
      BY <2>3, <3>1, <3>2, <3>3 DEF CommandStep
  <2>4. ASSUME NEW p \in Pollers, PollerStep(p) PROVE defined' = defined
    BY <2>4
    DEF PollerStep, BeginPass, read_definition, read_runtime, EndLoad, EndPass,
        try_acquire_claim, claim_is_taken, claim_is_stale, remove_stale, execute_record,
        release_claim, remove_claim, update_runtime, fileVars
  <2>5. ASSUME NEW p \in Pollers, PollerFault(p) PROVE defined' = defined
    BY <2>5
    DEF PollerFault, try_acquire_claim_fails, update_runtime_fails, Crash, Restart, fileVars
  <2>6. CASE Tick \/ (\E u \in Tasks : ClaimAges(u)) \/ UNCHANGED vars
    BY <2>2, <2>6 DEF Tick, ClaimAges, vars, fileVars
  <2> QED
    BY <2>2, <2>3, <2>4, <2>5, <2>6 DEF Next
<1>3. ASSUME NEW t \in Tasks, first'[t] = 0
      PROVE  runtime'[t] = Absent
  <2>1. first[t] = 0 /\ runtime[t] = Absent
    BY <1>1, <1>3 DEF UnusedIds
  <2>2. ASSUME NEW p \in Pollers, update_runtime(p), t = Current(p) PROVE FALSE
    <3>1. records[p][t] # Absent
      BY <2>2, AtWork DEF update_runtime, Due
    <3> QED
      BY <2>1, <3>1 DEF UnusedIds
  <2> QED
    BY <2>1, <2>2, RuntimeFiles
<1>4. ASSUME NEW t \in Tasks, first'[t] = 0, NEW q \in Pollers
      PROVE  records'[q][t] = Absent
  <2>1. first[t] = 0 /\ runtime[t] = Absent /\ records[q][t] = Absent
    BY <1>1, <1>4 DEF UnusedIds
  <2> QED
    BY <2>1, CopiedRecords
<1>5. ASSUME NEW t \in Tasks, first'[t] = 0, NEW q \in Pollers
      PROVE  t \notin left'[q]
  <2>1. first[t] = 0 /\ t \notin defined /\ t \notin left[q]
    BY <1>1, <1>5 DEF UnusedIds
  <2>2. ASSUME NEW p \in Pollers, PollerStep(p) \/ PollerFault(p), p # q
        PROVE  left'[q] = left[q]
    BY <1>0, <2>2, OthersStay
  <2>3. CASE PollerStep(q)
    <3>1. CASE BeginPass(q) \/ read_runtime(q)
      BY <1>0, <2>1, <3>1 DEF PollerTypes, BeginPass, read_runtime
    <3>2. CASE read_definition(q) \/ remove_claim(q) \/ claim_is_stale(q)
      BY <1>0, <2>1, <3>2
      DEF PollerTypes, PassFails, read_definition, remove_claim, claim_is_stale
    <3>3. CASE \/ EndLoad(q) \/ EndPass(q) \/ try_acquire_claim(q) \/ claim_is_taken(q)
               \/ remove_stale(q) \/ execute_record(q) \/ release_claim(q) \/ update_runtime(q)
      BY <2>1, <3>3
      DEF EndLoad, EndPass, try_acquire_claim, claim_is_taken, remove_stale, execute_record,
          release_claim, update_runtime
    <3> QED
      BY <2>3, <3>1, <3>2, <3>3 DEF PollerStep
  <2>4. CASE PollerFault(q)
    BY <1>0, <2>1, <2>4
    DEF PollerTypes, PassFails, PollerFault, try_acquire_claim_fails, update_runtime_fails,
        Crash, Restart
  <2>5. ASSUME NEW c \in Commands, CommandStep(c) PROVE left' = left
    BY <2>5
    DEF CommandStep, build_definition, count, write_definition, write_runtime, load_record,
        delete, CommandEnds, pollerVars
  <2>6. CASE Tick \/ (\E u \in Tasks : ClaimAges(u)) \/ UNCHANGED vars
    BY <2>1, <2>6 DEF Tick, ClaimAges, vars, pollerVars
  <2> QED
    BY <2>1, <2>2, <2>3, <2>4, <2>5, <2>6 DEF Next
<1>6. ASSUME NEW d \in Commands, cmd'[d].step # "idle"
      PROVE  first'[cmd'[d].task] # 0
  <2>1. CASE cmd'[d] = cmd[d]
    <3>1. first[cmd[d].task] # 0 /\ cmd[d].task \in Tasks
      BY <1>0, <1>6, <2>1 DEF UnusedIds, CommandTypes, Tasks
    <3> QED
      BY <1>1, <2>1, <3>1
  <2>2. ASSUME NEW c \in Commands, CommandStep(c), c # d PROVE cmd'[d] = cmd[d]
    BY <1>0, <2>2
    DEF CommandTypes, CmdGoto, CommandStep, build_definition, count, write_definition,
        write_runtime, load_record, delete, CommandEnds
  <2>3. CASE build_definition(d)
    <3>1. PICK u \in Tasks :
             /\ \E s \in (IF u \in Recurring THEN {clock + 1} ELSE {clock, clock + 1}) :
                   first' = [first EXCEPT ![u] = s]
             /\ CmdGoto(d, "count", u)
      BY <2>3 DEF build_definition
    <3>2. PICK s \in {clock, clock + 1} : first' = [first EXCEPT ![u] = s]
      BY <3>1
    <3>3. cmd'[d].task = u
      BY <1>0, <3>1 DEF CmdGoto, CommandTypes
    <3>4. first'[u] = s
      BY <1>0, <3>2 DEF FileTypes
    <3>5. s # 0
      BY DEF TypeOK, Times
    <3> QED
      BY <3>3, <3>4, <3>5
  <2>4. CASE load_record(d)
    <3>1. PICK u \in defined : CmdGoto(d, "remove_definition", u)
      BY <2>4 DEF load_record
    <3>2. cmd'[d].task = u /\ u \in Tasks
      BY <1>0, <3>1 DEF CmdGoto, CommandTypes, FileTypes
    <3>3. first[u] # 0
      BY <3>2 DEF UnusedIds
    <3> QED
      BY <1>1, <3>2, <3>3
  <2>5. CASE count(d) \/ write_definition(d) \/ write_runtime(d) \/ delete(d) \/ CommandEnds(d)
    <3>1. cmd[d].step # "idle" /\ cmd'[d].task = cmd[d].task
      BY <1>0, <1>6, <2>5
      DEF CommandTypes, CmdGoto, NoCommand, count, write_definition, write_runtime, delete,
          CommandEnds
    <3>2. first[cmd[d].task] # 0 /\ cmd[d].task \in Tasks
      BY <1>0, <3>1 DEF UnusedIds, CommandTypes, Tasks
    <3> QED
      BY <1>1, <3>1, <3>2
  <2>6. ASSUME NEW p \in Pollers, PollerStep(p) \/ PollerFault(p) PROVE cmd' = cmd
    BY <2>6
    DEF PollerStep, BeginPass, read_definition, read_runtime, EndLoad, EndPass,
        try_acquire_claim, claim_is_taken, claim_is_stale, remove_stale, execute_record,
        release_claim, remove_claim, update_runtime, PollerFault, try_acquire_claim_fails,
        update_runtime_fails, Crash, Restart
  <2>7. CASE Tick \/ (\E u \in Tasks : ClaimAges(u)) \/ UNCHANGED vars
    BY <2>1, <2>7 DEF Tick, ClaimAges, vars
  <2> QED
    BY <2>1, <2>2, <2>3, <2>4, <2>5, <2>6, <2>7 DEF Next, CommandStep
<1> QED
  BY <1>2, <1>3, <1>4, <1>5, <1>6 DEF UnusedIds

\* CatchUpInv is inductive.
LEMMA CatchUpKept ==
    ASSUME TypeOK, CatchUpInv, [Next]_vars
    PROVE  CatchUpInv'
<1>1. /\ UnusedIds
      /\ \A p \in Pollers : RanToEnd(p)
      /\ \A t \in Tasks : /\ Sound(t, first[t], runtime[t], finished)
                          /\ \A p \in Pollers : Sound(t, first[t], records[p][t], finished)
  BY CatchUpIsSound
<1>2. UnusedIds' /\ \A p \in Pollers : RanToEnd(p)'
  BY <1>1, UnusedIdsKept, RanToEndKept
<1>3. \A t, f, r : Sound(t, f, r, finished) => Sound(t, f, r, finished')
  BY FinishedGrows, SoundStays
<1>4. \A t, f, fin : Sound(t, f, Absent, fin)
  BY DEF Sound
<1>5. ASSUME NEW t \in Tasks
      PROVE  /\ Sound(t, first'[t], runtime'[t], finished')
             /\ \A p \in Pollers : Sound(t, first'[t], records'[p][t], finished')
  <2>1. CASE first[t] = 0 /\ first'[t] # 0
    <3>1. runtime[t] = Absent /\ \A p \in Pollers : records[p][t] = Absent
      BY <1>1, <2>1 DEF UnusedIds
    <3>2. ASSUME NEW p \in Pollers PROVE records'[p][t] = Absent
      BY <1>1, <2>1, <3>1, CopiedRecords
    <3>3. ASSUME NEW p \in Pollers, update_runtime(p), t = Current(p) PROVE FALSE
      BY <3>1, <3>3, AtWork DEF update_runtime, Due
    <3>4. runtime'[t] = Absent
      BY <1>1, <2>1, <3>1, <3>3, RuntimeFiles
    <3> QED
      BY <1>4, <3>2, <3>4
  <2>2. CASE first'[t] = first[t]
    <3>0. first[t] \in Nat
      BY DEF TypeOK, FileTypes
    <3>1. first[t] # 0 => Sound(t, first[t], [next |-> first[t], fired |-> FALSE], finished')
      BY <3>0, InitialIsSound
    <3>2. ASSUME NEW p \in Pollers, update_runtime(p), t = Current(p)
          PROVE  Sound(t, first[t], advance_record_runtime(t, records[p][t]), finished')
      <4>1. /\ records[p][t] \in RuntimeStates
            /\ records[p][t].next \in Times
            /\ <<t, records[p][t].next>> \in finished
        BY <1>1, <3>2, AtWork DEF update_runtime, RanToEnd
      <4>2. <<t, records[p][t].next>> \in finished'
        BY <4>1, FinishedGrows
      <4> QED
        BY <1>1, <1>3, <3>0, <4>1, AdvancedIsSound
    <3>3. Sound(t, first[t], runtime'[t], finished')
      BY <1>1, <1>3, <1>4, <3>1, <3>2, RuntimeFiles
    <3>4. ASSUME NEW p \in Pollers PROVE Sound(t, first[t], records'[p][t], finished')
      BY <1>1, <1>3, <1>4, <3>1, CopiedRecords
    <3> QED
      BY <2>2, <3>3, <3>4
  <2> QED
    BY <2>1, <2>2, FirstIsFixed
<1> QED
  BY <1>2, <1>5, CatchUpIsSoundNext

\* Catching up skips nothing: every slot before the next one that a runtime file, or the
\* copy of a pass, gives has been run to the end.
THEOREM CatchUp == Spec => []NoSlotSkipped
<1>1. Init => CatchUpInv
  BY DEF Init, CatchUpInv, UnusedIds, NoSlotSkipped, CaughtUp, Before, Slots, OneShotSlot,
         RanToEnd, NoRecords, NoCommand, Times
<1>2. TypeOK /\ CatchUpInv /\ [Next]_vars => CatchUpInv'
  BY CatchUpKept
<1>3. CatchUpInv => NoSlotSkipped
  BY DEF CatchUpInv
<1> QED
  BY <1>1, <1>2, <1>3, TypeCorrect, PTL DEF Spec
===============================================================================
