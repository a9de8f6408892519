-------------------------- MODULE SubagentController --------------------------
(* The tree of subagents of one session: the root controller and the          *)
(* child-scoped controllers its children delegate through (max_depth = 2),     *)
(* with every call a tool or the user interface can make on them at the same   *)
(* time, and the tokio task that runs each child.                              *)
(*                                                                             *)
(* A controller's state is one RwLock.  Every action below is what the code    *)
(* does under one acquisition of it (or between two awaits); a call, and a     *)
(* child's task, is the list of the steps it still has to take, so that steps  *)
(* of different calls and tasks interleave where the code releases the lock.   *)
(*                                                                             *)
(* Abstracted: prompts are counted, never told apart; the worktree, archives,  *)
(* transcripts, hooks and models of a child have no effect on its life cycle.  *)
(* The two flags of a controller are atomics of their own: an action sets or   *)
(* reads them together with the lock acquisition next to it.  Not modelled:    *)
(* background subprocesses, calls other than spawn that a child makes on its   *)
(* own controller, and callers that are dropped halfway.                       *)
EXTENDS Naturals, Sequences, FiniteSets, SequencesExt

CONSTANTS
    Absent,         \* no record, no handle
    Root,           \* the session's own controller
    Agents,         \* subagents that may be spawned
    Owner,          \* Owner[a]: the agent whose controller holds a, or Root
    Callers,        \* concurrent callers of the root controller
    Ops,            \* Ops[p]: the calls p makes
    MaxConcurrent,  \* subagents.max_concurrent
    MaxCalls,       \* bound: calls the callers make
    MaxTasks        \* bound: tasks ever spawned

Controllers == {Root} \cup Range(Owner)
Tasks == 1 .. MaxTasks
ChildrenOf(k) == {a \in Agents : Owner[a] = k}

ASSUME ControllerAssumption ==
    /\ Absent \notin Agents \cup Tasks /\ Root \notin Agents
    /\ Owner \in [Agents -> Agents \cup {Root}]
    /\ \A a \in Agents : Owner[a] = Root \/ Owner[Owner[a]] = Root
    /\ IsFiniteSet(Agents)
    /\ Callers \cap Tasks = {}
    /\ MaxConcurrent \in Nat /\ MaxCalls \in Nat /\ MaxTasks \in Nat

VARIABLES
    child,      \* ControllerState.children: the record of each agent
    shutdown,   \* controllers with shutdown_requested set
    closing,    \* controllers with closing set
    todo,       \* the steps each call and each task still has to take
    launched,   \* launched[t]: the agent that task t was spawned for
    stopped,    \* tasks that have been aborted and have not ended
    calls       \* calls made so far

vars == <<child, shutdown, closing, todo, launched, stopped, calls>>

\* "Done" is Completed or Failed: no code of the controller tells them apart.
Status == {"Queued", "Running", "Waiting", "Done", "Closed"}
Terminal == {"Done", "Closed"}
Records == [status : Status, queue : Nat,
            handle : Tasks \cup {Absent}, nested : BOOLEAN]

ASSUME AbsentAssumption == Absent \notin Records

Actors == Callers \cup Tasks
Present(k) == {a \in ChildrenOf(k) : child[a] # Absent}
Active(k) == {a \in Present(k) : child[a].status \in Status \ Terminal}

----------------------------------------------------------------------------
(* Steps *)

\* The next step of p is `step` for agent a.
At(p, step, a) == todo[p] # <<>> /\ Head(todo[p]) = <<step, a>>

\* p has taken its next step and goes on with `more` before what was left.
Then(p, more) == [todo EXCEPT ![p] = more \o Tail(@)]

\* p gives up on agent a, with the restart that would follow: an error, which
\* a call on the agent above it survives.
GiveUp(p, a) ==
    [todo EXCEPT ![p] = IF Len(@) > 1 /\ @[2] = <<"restart", a>>
                        THEN Tail(Tail(@)) ELSE Tail(@)]

Each(step, agents) == [i \in 1 .. Cardinality(agents) |-> <<step, SetToSeq(agents)[i]>>]

\* Notify::notify_waiters wakes the calls that are asleep on one of `agents`,
\* and nobody else: it leaves no permit behind.
Woken(list, agents) ==
    [p \in Actors |->
        IF list[p] # <<>> /\ \E a \in agents : Head(list[p]) = <<"asleep", a>>
        THEN <<<<"check", Head(list[p])[2]>>>> ELSE list[p]]

\* JoinHandle::abort.  The task ends at its next yield (Cancelled), not here.
Abort(handles) ==
    stopped' = stopped \cup {t \in handles \ {Absent} : todo[t] # <<>>}

Idle(p) == p \in Callers /\ todo[p] = <<>> /\ calls < MaxCalls

Call(p, op, plan) ==
    /\ Idle(p) /\ op \in Ops[p]
    /\ todo' = [todo EXCEPT ![p] = plan]
    /\ calls' = calls + 1
    /\ UNCHANGED <<child, shutdown, closing, launched, stopped>>

----------------------------------------------------------------------------
(* spawn_with_spec, launch_child *)

\* The gates and the concurrency limit, read under a lock released before the
\* record is inserted.  Two spawns at a time pick different ids.
MaySpawn(a) ==
    /\ Owner[a] \notin shutdown \cup closing
    /\ Cardinality(Active(Owner[a])) < MaxConcurrent
    /\ child[a] = Absent
    /\ \A p \in Actors : ~At(p, "insert", a)

Spawn(p, a) ==
    /\ Owner[a] = Root /\ MaySpawn(a)
    /\ Call(p, "spawn", <<<<"insert", a>>>>)

\* A child that runs spawns a grandchild through its own controller.
SpawnNested(t, a) ==
    /\ At(t, "work", Owner[a]) /\ t \notin stopped
    /\ child[Owner[a]].nested /\ MaySpawn(a)
    /\ todo' = [todo EXCEPT ![t] = <<<<"insert", a>>>> \o @]
    /\ UNCHANGED <<child, shutdown, closing, launched, stopped, calls>>

\* Mutant of Insert: the gates are not checked again.
MutInsertUngated(p, a) ==
    /\ At(p, "insert", a)
    /\ child' = [child EXCEPT ![a] = [status |-> "Queued", queue |-> 1,
                                     handle |-> Absent, nested |-> FALSE]]
    /\ todo' = Then(p, <<<<"launch", a>>>>)
    /\ UNCHANGED <<shutdown, closing, launched, stopped, calls>>

\* The gates are checked again under the write lock that inserts the record.
Insert(p, a) ==
    /\ At(p, "insert", a)
    /\ IF Owner[a] \in shutdown \cup closing
       THEN todo' = Then(p, <<>>) /\ UNCHANGED child
       ELSE /\ child' = [child EXCEPT ![a] = [status |-> "Queued", queue |-> 1,
                                              handle |-> Absent, nested |-> FALSE]]
            /\ todo' = Then(p, <<<<"launch", a>>>>)
    /\ UNCHANGED <<shutdown, closing, launched, stopped, calls>>

\* The status is set under the lock; the task is spawned after its release and
\* its handle is stored under a lock of its own.
Launch(p, a) ==
    /\ At(p, "launch", a) /\ Len(launched) < MaxTasks
    /\ child' = [child EXCEPT ![a].status = "Queued"]
    /\ launched' = Append(launched, a)
    /\ todo' = [Then(p, <<<<"store", a, Len(launched) + 1>>>>)
                    EXCEPT ![Len(launched) + 1] = <<<<"dequeue", a>>>>]
    /\ UNCHANGED <<shutdown, closing, stopped, calls>>

\* Mutant of Store: the handle goes to the record of the parent's child.
MutStoreParent(p, a, t) ==
    /\ todo[p] # <<>> /\ Head(todo[p]) = <<"store", a, t>>
    /\ child' = [child EXCEPT ![IF Owner[a] = Root THEN a ELSE Owner[a]].handle = t]
    /\ todo' = Then(p, <<>>)
    /\ UNCHANGED <<shutdown, closing, launched, stopped, calls>>

Store(p, a, t) ==
    /\ todo[p] # <<>> /\ Head(todo[p]) = <<"store", a, t>>
    /\ child' = [child EXCEPT ![a].handle = t]
    /\ todo' = Then(p, <<>>)
    /\ UNCHANGED <<shutdown, closing, launched, stopped, calls>>

----------------------------------------------------------------------------
(* child_loop, run_child_once, ChildRecord::dequeue_run and apply_result *)

\* A prompt is taken from the queue, whatever the status of the child.
Dequeue(t, a) ==
    /\ At(t, "dequeue", a)
    /\ IF child[a].queue = 0
       THEN todo' = Then(t, <<<<"end", a>>>>) /\ UNCHANGED child
       ELSE /\ child' = [child EXCEPT ![a].queue = @ - 1, ![a].status = "Running"]
            /\ todo' = Then(t, <<<<"start", a>>>>)
    /\ UNCHANGED <<shutdown, closing, launched, stopped, calls>>

\* run_child_once up to the agent's own run: what it prepares may fail, and then the
\* run has ended with an error.
Start(t, a) ==
    /\ At(t, "start", a)
    /\ child' = [child EXCEPT ![a].status = "Running"]
    /\ \E next \in {"apply", IF a \in Controllers THEN "attach" ELSE "work"} :
          todo' = Then(t, <<<<next, a>>>>)
    /\ UNCHANGED <<shutdown, closing, launched, stopped, calls>>

\* A child that may delegate gets its own controller, once; if that cannot be
\* created the child runs without.
Attach(t, a) ==
    /\ At(t, "attach", a) /\ t \notin stopped
    /\ child' \in {child, [child EXCEPT ![a].nested = TRUE]}
    /\ todo' = Then(t, <<<<"work", a>>>>)
    /\ UNCHANGED <<shutdown, closing, launched, stopped, calls>>

\* The agent's own run ends, well or with an error.
Finish(t, a) ==
    /\ At(t, "work", a) /\ t \notin stopped
    /\ todo' = Then(t, <<<<"apply", a>>>>)
    /\ UNCHANGED <<child, shutdown, closing, launched, stopped, calls>>

\* Mutant of Apply: prompts that came in during the run are left where they are.
MutApplyForgetsQueue(t, a) ==
    /\ At(t, "apply", a)
    /\ child' = [child EXCEPT ![a].status = "Done"]
    /\ todo' = Woken(Then(t, <<<<"teardown", a>>>>), {a})
    /\ UNCHANGED <<shutdown, closing, launched, stopped, calls>>

\* apply_result: the loop goes on as long as there are prompts.
Apply(t, a) ==
    /\ At(t, "apply", a)
    /\ child' = [child EXCEPT ![a].status = IF child[a].queue > 0 THEN "Queued" ELSE "Done"]
    /\ todo' = Woken(Then(t, IF child[a].queue > 0 THEN <<<<"dequeue", a>>>>
                                                   ELSE <<<<"teardown", a>>>>), {a})
    /\ UNCHANGED <<shutdown, closing, launched, stopped, calls>>

\* A child that is done closes what is left of its own controller's children.
Teardown(t, a) ==
    /\ At(t, "teardown", a)
    /\ todo' = Then(t, IF child[a].nested THEN Append(Each("close", Present(a)), <<"end", a>>)
                                          ELSE <<<<"end", a>>>>)
    /\ UNCHANGED <<child, shutdown, closing, launched, stopped, calls>>

\* child_loop returns and clears the handle of the record, whoever's it is.
End(t, a) ==
    /\ At(t, "end", a)
    /\ child' = [child EXCEPT ![a].handle = Absent]
    /\ todo' = Then(t, <<>>) /\ stopped' = stopped \ {t}
    /\ UNCHANGED <<shutdown, closing, launched, calls>>

\* tokio: an aborted task is dropped at its next yield, with the call it was
\* making.  A run yields (Attach, Finish and SpawnNested are not for it); a
\* lock that is free does not, so the short steps may still be taken.
Cancelled(t) ==
    /\ t \in stopped
    /\ todo' = [todo EXCEPT ![t] = <<>>] /\ stopped' = stopped \ {t}
    /\ UNCHANGED <<child, shutdown, closing, launched, calls>>

----------------------------------------------------------------------------
(* send_input, resume *)

\* send_input without interrupt: a child at work gets the prompt queued, any
\* other child is started again.
SendInput(p, a) ==
    /\ Idle(p) /\ "send" \in Ops[p]
    /\ a \in Present(Root) /\ child[a].status # "Closed"
    /\ LET busy == child[a].status \in {"Running", "Queued"} IN
       /\ child' = [child EXCEPT ![a].queue = @ + 1,
                                 ![a].status = IF busy THEN "Waiting" ELSE "Queued"]
       /\ todo' = [todo EXCEPT ![p] = IF busy THEN <<>> ELSE <<<<"restart", a>>>>]
    /\ calls' = calls + 1
    /\ UNCHANGED <<shutdown, closing, launched, stopped>>

\* send_input with interrupt.
Interrupt(p, a) ==
    /\ Idle(p) /\ "interrupt" \in Ops[p]
    /\ a \in Present(Root) /\ child[a].status # "Closed"
    /\ Abort({child[a].handle})
    /\ child' = [child EXCEPT ![a].handle = Absent, ![a].status = "Queued", ![a].queue = 1]
    /\ todo' = [todo EXCEPT ![p] = <<<<"restart", a>>>>]
    /\ calls' = calls + 1
    /\ UNCHANGED <<shutdown, closing, launched>>

\* restart_child: a queue that another task has emptied gets last_prompt again.
Restart(p, a) ==
    /\ At(p, "restart", a)
    /\ child' = [child EXCEPT ![a].queue = IF @ = 0 THEN 1 ELSE @]
    /\ todo' = Then(p, <<<<"launch", a>>>>)
    /\ UNCHANGED <<shutdown, closing, launched, stopped, calls>>

Resume(p, a) == a \in Present(Root) /\ Call(p, "resume", <<<<"reopen", a>>>>)

\* resume_tree on one node: reopen_single, which also lifts `closing` from the
\* controller of the node; the descendants; a second look at the shutdown flag;
\* the restart.
Reopen(p, a) ==
    /\ At(p, "reopen", a)
    /\ LET active == child[a].status \in {"Running", "Queued"}
           rest == <<<<"reopenNested", a>>, <<"recheck", a>>>> IN
       IF Owner[a] \in shutdown
       THEN todo' = GiveUp(p, a) /\ UNCHANGED <<child, closing>>
       ELSE IF active
       THEN todo' = Then(p, rest) /\ UNCHANGED <<child, closing>>
       ELSE
            /\ child' = [child EXCEPT ![a].status = "Queued", ![a].queue = @ + 1]
            /\ closing' = IF child[a].nested THEN closing \ {a} ELSE closing
            /\ todo' = Then(p, Append(rest, <<"restart", a>>))
    /\ UNCHANGED <<shutdown, launched, stopped, calls>>

ReopenNested(p, a) ==
    /\ At(p, "reopenNested", a)
    /\ todo' = Then(p, IF child[a].nested THEN Each("reopen", Present(a)) ELSE <<>>)
    /\ UNCHANGED <<child, shutdown, closing, launched, stopped, calls>>

Recheck(p, a) ==
    /\ At(p, "recheck", a)
    /\ todo' = IF Owner[a] \in shutdown THEN GiveUp(p, a) ELSE Then(p, <<>>)
    /\ UNCHANGED <<child, shutdown, closing, launched, stopped, calls>>

----------------------------------------------------------------------------
(* close, signal_shutdown *)

Close(p, a) == a \in Present(Root) /\ Call(p, "close", <<<<"closeBegin", a>>>>)

\* close_tree: the controller of the child, if it has one yet, rejects spawns
\* from here on; the child is closed, then its descendants; a controller that
\* came late is looked for once more.
CloseBegin(p, a) ==
    /\ At(p, "closeBegin", a)
    /\ closing' = IF child[a].nested THEN closing \cup {a} ELSE closing
    /\ todo' = Then(p, IF child[a].nested
                       THEN <<<<"close", a>>, <<"closeNested", a>>, <<"rescan", a>>>>
                       ELSE <<<<"close", a>>, <<"rescan", a>>>>)
    /\ UNCHANGED <<child, shutdown, launched, stopped, calls>>

\* close_single.
CloseSingle(p, a) ==
    /\ At(p, "close", a)
    /\ IF child[a].status = "Closed"
       THEN todo' = Then(p, <<>>) /\ UNCHANGED <<child, stopped>>
       ELSE /\ Abort({child[a].handle})
            /\ child' = [child EXCEPT ![a].handle = Absent, ![a].status = "Closed"]
            /\ todo' = Woken(Then(p, <<>>), {a})
    /\ UNCHANGED <<shutdown, closing, launched, calls>>

CloseNested(p, a) ==
    /\ At(p, "closeNested", a)
    /\ todo' = Then(p, Each("close", Present(a)))
    /\ UNCHANGED <<child, shutdown, closing, launched, stopped, calls>>

Rescan(p, a) ==
    /\ At(p, "rescan", a)
    /\ closing' = IF child[a].nested THEN closing \cup {a} ELSE closing
    /\ todo' = Then(p, IF child[a].nested THEN Each("close", Present(a)) ELSE <<>>)
    /\ UNCHANGED <<child, shutdown, launched, stopped, calls>>

\* signal_shutdown: the flag, then every record under one lock, then the
\* child-scoped controllers, all of which are flagged before any is emptied.
Shutdown(p) ==
    /\ Idle(p) /\ "shutdown" \in Ops[p] /\ Root \notin shutdown
    /\ LET kids == Present(Root)
           nested == {a \in kids : child[a].nested} IN
       /\ shutdown' = shutdown \cup {Root}
       /\ Abort({child[a].handle : a \in kids})
       /\ child' = [a \in Agents |->
                       IF a \in kids
                       THEN [child[a] EXCEPT !.handle = Absent, !.status = "Closed"]
                       ELSE child[a]]
       /\ todo' = Woken([todo EXCEPT ![p] = Each("seal", nested) \o Each("closeNested", nested)],
                        kids)
    /\ calls' = calls + 1
    /\ UNCHANGED <<closing, launched>>

Seal(p, a) ==
    /\ At(p, "seal", a)
    /\ shutdown' = shutdown \cup {a} /\ closing' = closing \cup {a}
    /\ todo' = Then(p, <<>>)
    /\ UNCHANGED <<child, launched, stopped, calls>>

----------------------------------------------------------------------------
(* wait *)

Wait(p, a) == a \in Present(Root) /\ Call(p, "wait", <<<<"check", a>>>>)

\* The status is looked at before the future of Notify::notified exists: the
\* async block that creates it first runs when select! polls it (Arm).
Check(p, a) ==
    /\ At(p, "check", a)
    /\ todo' = Then(p, IF child[a].status \in Terminal THEN <<>> ELSE <<<<"arm", a>>>>)
    /\ UNCHANGED <<child, shutdown, closing, launched, stopped, calls>>

Arm(p, a) ==
    /\ At(p, "arm", a)
    /\ todo' = Then(p, <<<<"asleep", a>>>>)
    /\ UNCHANGED <<child, shutdown, closing, launched, stopped, calls>>

\* Mutant of Timeout: the deadline is renewed with every look at the status.
MutTimeoutRenewed(p, a) ==
    /\ At(p, "asleep", a)
    /\ todo' = Then(p, <<<<"check", a>>>>)
    /\ UNCHANGED <<child, shutdown, closing, launched, stopped, calls>>

\* The deadline passes and wait returns nothing.
Timeout(p, a) ==
    /\ At(p, "asleep", a)
    /\ todo' = Then(p, <<>>)
    /\ UNCHANGED <<child, shutdown, closing, launched, stopped, calls>>

----------------------------------------------------------------------------

Init ==
    /\ child = [a \in Agents |-> Absent]
    /\ shutdown = {} /\ closing = {}
    /\ todo = [p \in Actors |-> <<>>]
    /\ launched = <<>>
    /\ stopped = {}
    /\ calls = 0

\* A caller starts a call ...
NewCall(p, a) ==
    \/ Spawn(p, a) \/ SendInput(p, a) \/ Interrupt(p, a) \/ Resume(p, a)
    \/ Close(p, a) \/ Wait(p, a)

\* ... and goes on with one.
CallStep(p, a) ==
    \/ Restart(p, a) \/ Reopen(p, a) \/ ReopenNested(p, a) \/ Recheck(p, a)
    \/ CloseBegin(p, a) \/ CloseNested(p, a) \/ Rescan(p, a) \/ Seal(p, a)
    \/ Check(p, a) \/ Arm(p, a) \/ Timeout(p, a)

\* The steps of a call that a child's task makes as well.
SharedStep(p, a) ==
    \/ Insert(p, a) \/ Launch(p, a) \/ CloseSingle(p, a)
    \/ \E t \in Tasks : Store(p, a, t)

TaskStep(t, a) ==
    \/ SpawnNested(t, a) \/ Dequeue(t, a) \/ Start(t, a) \/ Attach(t, a)
    \/ Finish(t, a) \/ Apply(t, a) \/ Teardown(t, a) \/ End(t, a)

Next ==
    \/ \E p \in Callers, a \in Agents : NewCall(p, a) \/ CallStep(p, a)
    \/ \E p \in Actors, a \in Agents : SharedStep(p, a)
    \/ \E t \in Tasks, a \in Agents : TaskStep(t, a)
    \/ \E p \in Callers : Shutdown(p)
    \/ \E t \in Tasks : Cancelled(t)

\* A call that has been made goes on: the lock is fair and the deadline of a
\* wait passes.  Nothing is assumed of the children: a run need not end.
Fairness ==
    \A p \in Callers : WF_vars(\E a \in Agents : CallStep(p, a) \/ SharedStep(p, a))

Spec == Init /\ [][Next]_vars /\ Fairness

----------------------------------------------------------------------------
(* Properties *)

\* Every record has the shape of ChildRecord, every handle is the one of a
\* task that was spawned for that child, and only such a task is aborted.
TypeOK ==
    /\ child \in [Agents -> Records \cup {Absent}]
    /\ shutdown \subseteq Controllers /\ closing \subseteq Controllers
    /\ launched \in Seq(Agents) /\ Len(launched) <= MaxTasks
    /\ stopped \subseteq DOMAIN launched
    /\ calls \in 0 .. MaxCalls
    /\ \A a \in Agents :
          child[a] # Absent => child[a].handle = Absent \/ launched[child[a].handle] = a

\* A child that reports itself completed or failed has worked off every prompt that
\* send_input or resume accepted for it, whatever runs of it overlap, or a
\* restart that will is under way.
DoneMeansDrained ==
    \A a \in Agents :
        child[a] # Absent /\ child[a].status = "Done" /\ child[a].queue > 0 =>
            \E p \in Actors : At(p, "launch", a)

\* Once signal_shutdown or close_tree has marked a controller, no spawn that
\* had passed the gates before still inserts its record into it, unless a
\* resume lifts the mark.
ClosedToSpawns ==
    [][\A k \in Controllers :
        k \in (shutdown \cap shutdown') \cup (closing \cap closing') =>
            {a \in ChildrenOf(k) : child'[a] # Absent} = Present(k)]_vars

\* Every call on the controller returns, in whatever state the children are
\* and whoever restarts or closes them meanwhile: a wait that has missed its
\* notification (see NoLostWakeup) returns at its deadline.  (A model that has
\* run out of tasks can launch no more.)
CallsReturn ==
    \A p \in Callers : []<>(todo[p] = <<>> \/ Len(launched) = MaxTasks)

\* What the comment in wait promises: the notification of a child that ends
\* while a wait is on its way to sleep is never lost, so that no call sleeps
\* on a child that is done.
NoLostWakeup ==
    \A p \in Callers, a \in Agents :
        At(p, "asleep", a) => child[a].status \notin Terminal

=============================================================================
