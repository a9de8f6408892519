--------------------------- MODULE DurableScheduler ---------------------------
(***************************************************************************)
(* The durable scheduled tasks of crates/codegen/vtcode-core/src/          *)
(* scheduler/mod.rs: DurableTaskStore and SchedulerDaemon.                 *)
(*                                                                         *)
(* A task is three files: its definition, its runtime state and, while it  *)
(* runs, its claim.  The files are shared, without any other lock, by the  *)
(* pollers (every open interactive session, and `vtcode schedule serve`)   *)
(* and by the commands `vtcode schedule create` and `delete`.  A poller    *)
(* copies all the records at the start of a pass and works through that    *)
(* copy; a step of this module is one access to one file.                  *)
(*                                                                         *)
(* Time is counted in intervals of the recurring tasks.  The delay that    *)
(* jittered_fire_at adds is below a tenth of an interval and is left out;  *)
(* the lead it gives a one-shot task is why such a task may be due when it *)
(* is created.  What the age of a claim decides, whether it counts as      *)
(* stale, is a state of the claim.                                         *)
(***************************************************************************)
EXTENDS Naturals, FiniteSets, FiniteSetsExt

CONSTANTS
    NumTasks,      \* bound: tasks that are ever created
    Recurring,     \* those with an interval; the others are one-shot
    Existing,      \* those created, with first slot 1, before the behaviour starts
    Pollers,       \* processes that poll
    Serves,        \* the pollers that are `vtcode schedule serve`
    Commands,      \* processes that run `vtcode schedule create` or `delete`
    MaxTasks,      \* MAX_SCHEDULED_TASKS
    LongRuns,      \* whether a run may outlast CLAIM_STALE_SECS
    MaxTime,       \* bound: the last tick
    MaxRuns,       \* bound: runs of a slot, and mishaps, are counted up to this
    MaxFaults,     \* bound: processes that are killed or closed, writes that fail
    Absent         \* a file that does not exist, a record that was not read

Tasks == 1 .. NumTasks
Times == 1 .. MaxTime

ASSUME SchedulerAssumption ==
    /\ NumTasks \in Nat /\ MaxTime \in Nat \ {0} /\ MaxRuns \in Nat
    /\ MaxTasks \in Nat /\ MaxFaults \in Nat
    /\ Recurring \subseteq Tasks /\ Existing \subseteq Tasks
    /\ Serves \subseteq Pollers
    /\ LongRuns \in BOOLEAN

VARIABLES
    clock,
    \* the files of each task
    defined,       \* the tasks whose definition file exists
    first,         \* the first slot that the definition gives; 0 for an unused id
    runtime,       \* next_run_at (0 for None) and whether last_status is set, or Absent
    claim,         \* Absent, "fresh" or "stale"
    \* each poller
    pc,            \* what run_due_tasks_once does next; "off" when the process is gone
    now,           \* the time the pass started
    left,          \* definition files of the pass that are not read yet
    records,       \* the runtime states of the pass that are not dealt with yet
    \* each command
    cmd,           \* its next step and its task
    \* bookkeeping
    faults,
    started,       \* history: how often each slot was started
    finished,      \* history: the slots whose run came to its end
    pried,         \* history: tasks whose claim was removed as stale or by a delete
    mishaps        \* history: how often something made the last run of a task not count

fileVars == <<defined, first, runtime, claim>>
pollerVars == <<pc, now, left, records>>
historyVars == <<started, finished, pried, mishaps>>
vars == <<clock, fileVars, pollerVars, cmd, faults, historyVars>>

RuntimeStates == [next : 0 .. MaxTime + 1, fired : BOOLEAN]

ASSUME AbsentAssumption == Absent \notin RuntimeStates \cup {"fresh", "stale"}

Holding == {"exec", "release_claim", "remove_claim"}
InRun == Holding \cup {"update_runtime"}
NoCommand == [step |-> "idle", task |-> 0]

\* The records of a pass that are due.
Due(p) == {t \in Tasks : /\ records[p][t] # Absent
                         /\ records[p][t].next # 0
                         /\ records[p][t].next <= now[p]}

\* A poller that is at a file or at a record has one.
AtRecord(p) ==
    /\ pc[p] = "read_runtime" => left[p] # {}
    /\ pc[p] \in InRun \cup {"claim_is_stale", "remove_stale"} => Due(p) # {}

FileTypes ==
    /\ defined \subseteq Tasks
    /\ first \in [Tasks -> 0 .. MaxTime + 1]
    /\ runtime \in [Tasks -> RuntimeStates \cup {Absent}]
    /\ claim \in [Tasks -> {"fresh", "stale", Absent}]

PollerTypes ==
    /\ pc \in [Pollers -> InRun \cup
                 {"off", "idle", "read_definition", "read_runtime", "try_acquire_claim",
                  "claim_is_stale", "remove_stale"}]
    /\ now \in [Pollers -> 0 .. MaxTime]
    /\ left \in [Pollers -> SUBSET Tasks]
    /\ records \in [Pollers -> [Tasks -> RuntimeStates \cup {Absent}]]

CommandTypes ==
    /\ cmd \in [Commands -> [step : {"idle", "count", "write_definition", "write_runtime",
                                     "remove_definition", "remove_runtime", "remove_claim"},
                             task : 0 .. NumTasks]]
    /\ \A c \in Commands : cmd[c].step # "idle" => cmd[c].task # 0

HistoryTypes ==
    /\ started \in [Tasks -> [Times -> 0 .. MaxRuns]]
    /\ finished \subseteq Tasks \X Times
    /\ pried \subseteq Tasks
    /\ mishaps \in [Tasks -> 0 .. MaxRuns]

TypeOK ==
    /\ clock \in Times
    /\ FileTypes /\ PollerTypes /\ CommandTypes /\ HistoryTypes
    /\ \A p \in Pollers : AtRecord(p)

NoRecords == [t \in Tasks |-> Absent]

Init ==
    /\ clock = 1
    /\ defined = Existing
    /\ first = [t \in Tasks |-> IF t \in Existing THEN 1 ELSE 0]
    /\ runtime = [t \in Tasks |-> IF t \in Existing THEN [next |-> 1, fired |-> FALSE]
                                                    ELSE Absent]
    /\ claim = [t \in Tasks |-> Absent]
    /\ pc = [p \in Pollers |-> "idle"] /\ now = [p \in Pollers |-> 0]
    /\ left = [p \in Pollers |-> {}] /\ records = [p \in Pollers |-> NoRecords]
    /\ cmd = [c \in Commands |-> NoCommand]
    /\ faults = 0
    /\ started = [t \in Tasks |-> [s \in Times |-> 0]]
    /\ finished = {} /\ pried = {} /\ mishaps = [t \in Tasks |-> 0]
-------------------------------------------------------------------------------
(* The runtime state of a task. *)

initialize_runtime_state(t) == [next |-> first[t], fired |-> FALSE]

\* Mutants of advance_record_runtime: the next slot is computed from the time of the run, so missed slots are dropped.
MutAdvanceFromNow(t, r) ==
    [next |-> IF t \in Recurring THEN clock + 1 ELSE 0, fired |-> TRUE]

\* ... a one-shot task stays due.
MutAdvanceOneShotKept(t, r) ==
    [next |-> IF t \in Recurring THEN r.next + 1 ELSE r.next, fired |-> TRUE]

\* The next slot follows the slot that ran, not the time at which it ran.
advance_record_runtime(t, r) ==
    [next |-> IF t \in Recurring THEN r.next + 1 ELSE 0, fired |-> TRUE]
-------------------------------------------------------------------------------
(* A pass of a poller: run_due_tasks_once. *)

\* The records are sorted by next_run_at; the sort is stable and the files were
\* read in the order of the ids.
Current(p) == CHOOSE t \in Due(p) : \A u \in Due(p) :
                 \/ records[p][t].next < records[p][u].next
                 \/ records[p][t].next = records[p][u].next /\ t <= u

Fault == faults < MaxFaults /\ faults' = faults + 1
Goto(p, label) == pc' = [pc EXCEPT ![p] = label]
NextRecord(p) == records' = [records EXCEPT ![p][Current(p)] = Absent]
Mishap(t) == mishaps' = [mishaps EXCEPT ![t] = IF @ < MaxRuns THEN @ + 1 ELSE @]

\* An error ends the pass.  serve_forever passes it on and the process exits;
\* the loop of an interactive session shows it and polls again.
PassFails(p) ==
    /\ Goto(p, IF p \in Serves THEN "off" ELSE "idle")
    /\ left' = [left EXCEPT ![p] = {}]
    /\ records' = [records EXCEPT ![p] = NoRecords]
    /\ UNCHANGED now

\* load_records lists the definition files first.
BeginPass(p) ==
    /\ pc[p] = "idle"
    /\ now' = [now EXCEPT ![p] = clock]
    /\ left' = [left EXCEPT ![p] = defined]
    /\ Goto(p, "read_definition")
    /\ UNCHANGED <<clock, fileVars, records, cmd, faults, historyVars>>

read_definition(p) ==
    /\ pc[p] = "read_definition" /\ left[p] # {}
    /\ IF Min(left[p]) \in defined
       THEN Goto(p, "read_runtime") /\ UNCHANGED <<now, left, records>>
       ELSE PassFails(p)
    /\ UNCHANGED <<clock, fileVars, cmd, faults, historyVars>>

\* A runtime file that is missing, because its task is being created or deleted,
\* stands for the state of a new task.
read_runtime(p) ==
    /\ pc[p] = "read_runtime"
    /\ LET t == Min(left[p]) IN
       /\ records' = [records EXCEPT ![p][t] =
             IF runtime[t] = Absent THEN initialize_runtime_state(t) ELSE runtime[t]]
       /\ left' = [left EXCEPT ![p] = @ \ {t}]
       /\ IF t \in defined THEN UNCHANGED mishaps ELSE Mishap(t)
    /\ Goto(p, "read_definition")
    /\ UNCHANGED <<clock, fileVars, now, cmd, faults, started, finished, pried>>

EndLoad(p) ==
    /\ pc[p] = "read_definition" /\ left[p] = {}
    /\ Goto(p, "try_acquire_claim")
    /\ UNCHANGED <<clock, fileVars, now, left, records, cmd, faults, historyVars>>

\* No record of the pass is due any more.
EndPass(p) ==
    /\ pc[p] = "try_acquire_claim" /\ Due(p) = {}
    /\ Goto(p, "idle")
    /\ records' = [records EXCEPT ![p] = NoRecords]
    /\ UNCHANGED <<clock, fileVars, now, left, cmd, faults, historyVars>>

\* Mutant of try_acquire_claim: an existing claim file is opened and overwritten.
MutClaimOverwritten(p) ==
    /\ pc[p] = "try_acquire_claim" /\ Due(p) # {}
    /\ claim' = [claim EXCEPT ![Current(p)] = "fresh"]
    /\ started' = [started EXCEPT ![Current(p)][records[p][Current(p)].next] =
                      IF @ < MaxRuns THEN @ + 1 ELSE @]
    /\ Goto(p, "exec")
    /\ UNCHANGED <<clock, defined, first, runtime, now, left, records, cmd, faults,
                   finished, pried, mishaps>>

\* The claim file is created only if there is none; the run starts at once.
try_acquire_claim(p) ==
    /\ pc[p] = "try_acquire_claim" /\ Due(p) # {}
    /\ claim[Current(p)] = Absent
    /\ claim' = [claim EXCEPT ![Current(p)] = "fresh"]
    /\ started' = [started EXCEPT ![Current(p)][records[p][Current(p)].next] =
                      IF @ < MaxRuns THEN @ + 1 ELSE @]
    /\ Goto(p, "exec")
    /\ UNCHANGED <<clock, defined, first, runtime, now, left, records, cmd, faults,
                   finished, pried, mishaps>>

claim_is_taken(p) ==
    /\ pc[p] = "try_acquire_claim" /\ Due(p) # {}
    /\ claim[Current(p)] # Absent
    /\ Goto(p, "claim_is_stale")
    /\ UNCHANGED <<clock, fileVars, now, left, records, cmd, faults, historyVars>>

\* The claim file is there, its timestamp could not be written.
try_acquire_claim_fails(p) ==
    /\ pc[p] = "try_acquire_claim" /\ Due(p) # {}
    /\ claim[Current(p)] = Absent
    /\ claim' = [claim EXCEPT ![Current(p)] = "fresh"]
    /\ Fault
    /\ PassFails(p)
    /\ UNCHANGED <<clock, defined, first, runtime, cmd, historyVars>>

\* Mutant of claim_is_stale: no claim is ever taken for stale.
MutNeverStale(p) ==
    /\ pc[p] = "claim_is_stale"
    /\ IF claim[Current(p)] = Absent
       THEN PassFails(p)
       ELSE Goto(p, "try_acquire_claim") /\ NextRecord(p) /\ UNCHANGED <<now, left>>
    /\ UNCHANGED <<clock, fileVars, cmd, faults, historyVars>>

\* ... the pass goes on with the record of somebody else's claim.
MutFreshClaimGoesOn(p) ==
    /\ pc[p] = "claim_is_stale"
    /\ IF claim[Current(p)] = Absent
       THEN PassFails(p)
       ELSE Goto(p, "exec") /\ NextRecord(p) /\ UNCHANGED <<now, left>>
    /\ UNCHANGED <<clock, fileVars, cmd, faults, historyVars>>

\* A claim that has gone since cannot be examined, which is an error; a fresh one
\* means that the task is not this poller's.
claim_is_stale(p) ==
    /\ pc[p] = "claim_is_stale"
    /\ \/ claim[Current(p)] = Absent /\ PassFails(p)
       \/ /\ claim[Current(p)] = "fresh"
          /\ Goto(p, "try_acquire_claim") /\ NextRecord(p) /\ UNCHANGED <<now, left>>
       \/ /\ claim[Current(p)] = "stale"
          /\ Goto(p, "remove_stale") /\ UNCHANGED <<now, left, records>>
    /\ UNCHANGED <<clock, fileVars, cmd, faults, historyVars>>

\* Whatever claim is there by now is removed; then the poller tries again.
remove_stale(p) ==
    /\ pc[p] = "remove_stale"
    /\ claim' = [claim EXCEPT ![Current(p)] = Absent]
    /\ pried' = pried \cup {Current(p)}
    /\ Goto(p, "try_acquire_claim")
    /\ UNCHANGED <<clock, defined, first, runtime, now, left, records, cmd, faults,
                   started, finished, mishaps>>

\* Mutant of execute_record: the claim is not released.
MutExecuteKeepsClaim(p) ==
    /\ pc[p] = "exec"
    /\ finished' = finished \cup {<<Current(p), records[p][Current(p)].next>>}
    /\ Goto(p, "update_runtime")
    /\ UNCHANGED <<clock, fileVars, now, left, records, cmd, faults,
                   started, pried, mishaps>>

\* The command or the notification has ended, well or not: both are an outcome.
execute_record(p) ==
    /\ pc[p] = "exec"
    /\ finished' = finished \cup {<<Current(p), records[p][Current(p)].next>>}
    /\ Goto(p, "release_claim")
    /\ UNCHANGED <<clock, fileVars, now, left, records, cmd, faults,
                   started, pried, mishaps>>

\* release_claim looks for the claim file and then removes it, whoever made it.
release_claim(p) ==
    /\ pc[p] = "release_claim"
    /\ Goto(p, IF claim[Current(p)] = Absent THEN "update_runtime" ELSE "remove_claim")
    /\ UNCHANGED <<clock, fileVars, now, left, records, cmd, faults, historyVars>>

remove_claim(p) ==
    /\ pc[p] = "remove_claim"
    /\ claim' = [claim EXCEPT ![Current(p)] = Absent]
    /\ IF claim[Current(p)] = Absent
       THEN PassFails(p) /\ Mishap(Current(p))
       ELSE Goto(p, "update_runtime") /\ UNCHANGED <<now, left, records, mishaps>>
    /\ UNCHANGED <<clock, defined, first, runtime, cmd, faults, started, finished, pried>>

\* The record that the pass copied is advanced and written, also over a newer one.
update_runtime(p) ==
    /\ pc[p] = "update_runtime"
    /\ LET t == Current(p) IN
       runtime' = [runtime EXCEPT ![t] = advance_record_runtime(t, records[p][t])]
    /\ Goto(p, "try_acquire_claim") /\ NextRecord(p)
    /\ UNCHANGED <<clock, defined, first, claim, now, left, cmd, faults, historyVars>>

update_runtime_fails(p) ==
    /\ pc[p] = "update_runtime"
    /\ Fault
    /\ Mishap(Current(p))
    /\ PassFails(p)
    /\ UNCHANGED <<clock, fileVars, cmd, started, finished, pried>>

\* The process is killed, or its session is closed in the middle of a pass.
Crash(p) ==
    /\ pc[p] # "off"
    /\ Fault
    /\ Goto(p, "off")
    /\ left' = [left EXCEPT ![p] = {}]
    /\ records' = [records EXCEPT ![p] = NoRecords]
    /\ IF pc[p] \in InRun THEN Mishap(Current(p)) ELSE UNCHANGED mishaps
    /\ UNCHANGED <<clock, fileVars, now, cmd, started, finished, pried>>

\* The service manager or the user starts the process again.
Restart(p) ==
    /\ pc[p] = "off"
    /\ Goto(p, "idle")
    /\ UNCHANGED <<clock, fileVars, now, left, records, cmd, faults, historyVars>>

PollerStep(p) ==
    \/ BeginPass(p)
    \/ read_definition(p)
    \/ read_runtime(p)
    \/ EndLoad(p)
    \/ EndPass(p)
    \/ try_acquire_claim(p)
    \/ claim_is_taken(p)
    \/ claim_is_stale(p)
    \/ remove_stale(p)
    \/ execute_record(p)
    \/ release_claim(p)
    \/ remove_claim(p)
    \/ update_runtime(p)

PollerFault(p) ==
    \/ try_acquire_claim_fails(p)
    \/ update_runtime_fails(p)
    \/ Crash(p)
    \/ Restart(p)
-------------------------------------------------------------------------------
(* The commands that create and delete tasks. *)

CmdGoto(c, label, t) == cmd' = [cmd EXCEPT ![c] = [step |-> label, task |-> t]]

\* build_definition takes a new id and fixes the schedule.  A recurring task is
\* first due an interval later, a one-shot task then or at once.
build_definition(c) ==
    /\ cmd[c] = NoCommand
    /\ \E t \in Tasks :
          /\ first[t] = 0
          /\ \E s \in (IF t \in Recurring THEN {clock + 1} ELSE {clock, clock + 1}) :
                first' = [first EXCEPT ![t] = s]
          /\ CmdGoto(c, "count", t)
    /\ UNCHANGED <<clock, defined, runtime, claim, pollerVars, faults, historyVars>>

\* The definition files are counted; a store that is full refuses.
count(c) ==
    /\ cmd[c].step = "count"
    /\ IF Cardinality(defined) < MaxTasks
       THEN CmdGoto(c, "write_definition", cmd[c].task)
       ELSE cmd' = [cmd EXCEPT ![c] = NoCommand]
    /\ UNCHANGED <<clock, fileVars, pollerVars, faults, historyVars>>

write_definition(c) ==
    /\ cmd[c].step = "write_definition"
    /\ defined' = defined \cup {cmd[c].task}
    /\ CmdGoto(c, "write_runtime", cmd[c].task)
    /\ UNCHANGED <<clock, first, runtime, claim, pollerVars, faults, historyVars>>

\* It replaces what a poller may have written in the meantime.
write_runtime(c) ==
    /\ cmd[c].step = "write_runtime"
    /\ LET t == cmd[c].task IN
       /\ runtime' = [runtime EXCEPT ![t] = initialize_runtime_state(t)]
       /\ IF started[t] = [s \in Times |-> 0] THEN UNCHANGED mishaps ELSE Mishap(t)
    /\ cmd' = [cmd EXCEPT ![c] = NoCommand]
    /\ UNCHANGED <<clock, defined, first, claim, pollerVars, faults,
                   started, finished, pried>>

\* delete reads the record, then removes the three files.
load_record(c) ==
    /\ cmd[c] = NoCommand
    /\ \E t \in defined : CmdGoto(c, "remove_definition", t)
    /\ UNCHANGED <<clock, fileVars, pollerVars, faults, historyVars>>

delete(c) ==
    LET t == cmd[c].task IN
    /\ \/ /\ cmd[c].step = "remove_definition"
          /\ defined' = defined \ {t}
          /\ CmdGoto(c, "remove_runtime", t)
          /\ UNCHANGED <<runtime, claim, pried>>
       \/ /\ cmd[c].step = "remove_runtime"
          /\ runtime' = [runtime EXCEPT ![t] = Absent]
          /\ CmdGoto(c, "remove_claim", t)
          /\ UNCHANGED <<defined, claim, pried>>
       \/ /\ cmd[c].step = "remove_claim"
          /\ claim' = [claim EXCEPT ![t] = Absent]
          /\ pried' = pried \cup {t}
          /\ cmd' = [cmd EXCEPT ![c] = NoCommand]
          /\ UNCHANGED <<defined, runtime>>
    /\ UNCHANGED <<clock, first, pollerVars, faults, started, finished, mishaps>>

\* A command is interrupted, or a file operation fails and ends it.
CommandEnds(c) ==
    /\ cmd[c] # NoCommand
    /\ Fault
    /\ cmd' = [cmd EXCEPT ![c] = NoCommand]
    /\ UNCHANGED <<clock, fileVars, pollerVars, historyVars>>

CommandStep(c) ==
    \/ build_definition(c)
    \/ count(c)
    \/ write_definition(c)
    \/ write_runtime(c)
    \/ load_record(c)
    \/ delete(c)
    \/ CommandEnds(c)
-------------------------------------------------------------------------------
Runs(p, t) == pc[p] \in Holding /\ Current(p) = t

Tick ==
    /\ clock < MaxTime
    /\ clock' = clock + 1
    /\ UNCHANGED <<fileVars, pollerVars, cmd, faults, historyVars>>

\* CLAIM_STALE_SECS have passed since the claim file was written.
ClaimAges(t) ==
    /\ claim[t] = "fresh"
    /\ LongRuns \/ \A p \in Pollers : ~ Runs(p, t)
    /\ claim' = [claim EXCEPT ![t] = "stale"]
    /\ UNCHANGED <<clock, defined, first, runtime, pollerVars, cmd, faults, historyVars>>

Next ==
    \/ \E p \in Pollers : PollerStep(p) \/ PollerFault(p)
    \/ \E c \in Commands : CommandStep(c)
    \/ Tick
    \/ \E t \in Tasks : ClaimAges(t)

Spec == Init /\ [][Next]_vars

\* A poller that is running keeps polling and its runs end; when the process is
\* gone somebody opens VT Code again; time passes.
FairSpec ==
    /\ Spec
    /\ \A p \in Pollers : WF_vars(PollerStep(p)) /\ WF_vars(Restart(p))
    /\ WF_vars(Tick)
    /\ \A t \in Tasks : WF_vars(ClaimAges(t))
-------------------------------------------------------------------------------
(* Properties. *)

\* The slots of a task that is first due at f, and those before the next one of r.
Slots(t, f) == IF t \in Recurring THEN {s \in Times : s >= f} ELSE {f}
Before(t, f, r) == {s \in Slots(t, f) : r.next = 0 \/ s < r.next}

CaughtUp(t, r) == r # Absent => \A s \in Before(t, first[t], r) : <<t, s>> \in finished

\* Catching up skips nothing: whatever runtime state a task has on disk, or in the
\* copy of a pass, every slot before its next one has been run to the end, however
\* often pollers overwrite each other's state, crash or fail
\* (advance_record_runtime, run_due_tasks_once).
NoSlotSkipped ==
    \A t \in Tasks :
        CaughtUp(t, runtime[t]) /\ \A p \in Pollers : CaughtUp(t, records[p][t])

\* What makes NoSlotSkipped inductive: nothing is known of an id that is not in use,
\* a one-shot task has no other slot than its first, and a poller that is past the
\* run has brought its slot to the end.
UnusedIds ==
    /\ \A t \in Tasks : first[t] = 0 =>
          /\ t \notin defined /\ runtime[t] = Absent
          /\ \A p \in Pollers : records[p][t] = Absent /\ t \notin left[p]
    /\ \A c \in Commands : cmd[c].step # "idle" => first[cmd[c].task] # 0

OneShotSlot(t, r) == r # Absent /\ t \notin Recurring /\ r.next # 0 => r.next = first[t]

RanToEnd(p) ==
    pc[p] \in {"release_claim", "remove_claim", "update_runtime"} =>
        <<Current(p), records[p][Current(p)].next>> \in finished

CatchUpInv ==
    /\ UnusedIds
    /\ NoSlotSkipped
    /\ \A t \in Tasks :
          OneShotSlot(t, runtime[t]) /\ \A p \in Pollers : OneShotSlot(t, records[p][t])
    /\ \A p \in Pollers : RanToEnd(p)

\* Two pollers run a task at the same time only if somebody has removed its claim
\* as stale or deleted the task (try_acquire_claim, release_claim).
Exclusive ==
    \A p, q \in Pollers : \A t \in Tasks :
        p # q /\ Runs(p, t) /\ Runs(q, t) => t \in pried

\* What makes Exclusive inductive: a run whose claim nobody has removed has a claim.
ExclusiveInv ==
    /\ Exclusive
    /\ \A p \in Pollers : \A t \in Tasks : Runs(p, t) /\ t \notin pried => claim[t] # Absent

\* A claim file is left behind only by a process that died and by a write that
\* failed: otherwise a poller is at work on the task (every path of
\* run_due_tasks_once that takes a claim releases it).
ClaimHasOwner ==
    faults = 0 =>
        \A t \in Tasks : claim[t] # Absent => \E p \in Pollers : Runs(p, t)

\* With a single poller no slot runs twice, except for a run whose outcome was not
\* written and for a runtime file that create or delete replaced or removed under
\* the poller (the order claim, run, release, update_runtime).
RunsOnce == \A t \in Tasks : \A s \in Times : started[t][s] <= 1 + mishaps[t]

\* A slot that is due is run in the end, even if a poller dies with the claim of
\* the task in its hands, unless the task is deleted (claim_is_stale,
\* serve_forever).
DueTaskRuns ==
    \A t \in Tasks : \A s \in Times :
        (t \in defined /\ s \in Slots(t, first[t]) /\ s <= clock)
            ~> (<<t, s>> \in finished \/ t \notin defined)

\* As long as no process is killed and no write fails, `vtcode schedule serve`
\* keeps running (serve_forever).
ServeKeepsRunning ==
    faults = 0 => \A p \in Serves : pc[p] # "off"
===============================================================================
