---------------------------- MODULE A2aServerProofs ----------------------------
(****************************************************************************)
(* Proofs about the A2A server, for any number of tasks, contexts, clients  *)
(* and streams and any capacity.  The induction has three parts that do not *)
(* need each other's details: StoreInv, the three maps of TaskManager;      *)
(* Orders, the status times, from which it follows whom eviction takes; and *)
(* ServerTypes, the requests and the streams.  On top of the types: an open *)
(* stream is served to its end (Served), and shows events of its own only,  *)
(* if it named a context.                                                   *)
(****************************************************************************)
EXTENDS A2aServer, FiniteSetTheorems, SequenceTheorems, TLAPS

TaskRecords == [state : State, ctx : Contexts \cup {None}]

StoreTypes ==
    /\ tasks \in [Tasks -> TaskRecords \cup {Absent}]
    /\ contexts \in [Contexts -> SUBSET Tasks]
    /\ created \in 0 .. NumTasks

\* An id that is still to come has no task, so its context entry is new too.
FreshIsAbsent == \A t \in Tasks : t > created => tasks[t] = Absent

StoreInv == StoreTypes /\ FreshIsAbsent /\ IndexesInSync

\* An empty place of the store is not a task.
LEMMA AbsentIsNoTask == Absent \notin TaskRecords
BY ServerAssumption DEF TaskRecords

\* The store starts empty.
LEMMA InitStore == Init => StoreInv
<1> SUFFICES ASSUME Init PROVE StoreInv
  OBVIOUS
<1> USE DEF Init
<1>1. StoreTypes
  BY ServerAssumption DEF StoreTypes
<1>2. FreshIsAbsent
  BY DEF FreshIsAbsent
<1>3. Present = {}
  BY DEF Present
<1>4. IndexesInSync
  BY <1>3 DEF IndexesInSync
<1> QED
  BY <1>1, <1>2, <1>4 DEF StoreInv

\* Only tasks of the store are evicted.
LEMMA EvictedArePresent == evicted \subseteq Present
BY DEF evicted, Ended

\* A new task: the evicted tasks leave the store and it enters.
LEMMA CreateChangesPresent ==
    ASSUME StoreInv, NEW t \in Tasks, NEW ctx \in Contexts \cup {None}, CreateTask(t, ctx)
    PROVE  Present' = (Present \ evicted) \cup {t} /\ t \notin Present
<1>1. tasks' = [u \in Tasks |-> IF u = t THEN [state |-> "Submitted", ctx |-> ctx]
                                ELSE IF u \in evicted THEN Absent ELSE tasks[u]]
  BY DEF CreateTask
<1>2. t = created + 1 /\ t \in 1 .. NumTasks
  BY DEF CreateTask, Tasks
<1>3. t \notin Present
  BY <1>2, ServerAssumption DEF StoreInv, StoreTypes, FreshIsAbsent, Present
<1> DEFINE new == [state |-> "Submitted", ctx |-> ctx]
<1>4. new # Absent
  BY AbsentIsNoTask DEF TaskRecords, State
<1> HIDE DEF new
<1>5. tasks' = [u \in Tasks |-> IF u = t THEN new ELSE IF u \in evicted THEN Absent ELSE tasks[u]]
  BY <1>1 DEF new
<1> QED
  BY <1>3, <1>4, <1>5 DEF Present

\* What is evicted leaves the three maps together.
LEMMA CreateKeepsStore ==
    ASSUME StoreInv, NEW t \in Tasks, NEW ctx \in Contexts \cup {None}, CreateTask(t, ctx)
    PROVE  StoreInv'
<1> DEFINE E == evicted
<1>0. t = created + 1 /\ created' = t /\ t \in 1 .. NumTasks
  BY DEF CreateTask, Tasks
<1>1. tasks' = [u \in Tasks |-> IF u = t THEN [state |-> "Submitted", ctx |-> ctx]
                                ELSE IF u \in E THEN Absent ELSE tasks[u]]
  BY DEF CreateTask
<1>2. contexts' = [x \in Contexts |-> (contexts[x] \ E) \cup (IF x = ctx THEN {t} ELSE {})]
  BY DEF CreateTask
<1>3. configs' = configs \ E
  BY DEF CreateTask
<1>4. E \subseteq Present
  BY EvictedArePresent
<1>5. t \notin Present
  BY CreateChangesPresent
<1> DEFINE new == [state |-> "Submitted", ctx |-> ctx]
<1>6. new \in TaskRecords /\ new # Absent /\ new.ctx = ctx
  BY AbsentIsNoTask DEF TaskRecords, State
<1> HIDE DEF E
<1>7. StoreTypes'
  BY <1>0, <1>1, <1>2, <1>6, ServerAssumption DEF StoreInv, StoreTypes
<1>8. FreshIsAbsent'
  <2> SUFFICES ASSUME NEW u \in Tasks, u > t PROVE tasks'[u] = Absent
    BY <1>0 DEF FreshIsAbsent
  <2>1. u # t /\ u > created
    BY <1>0, ServerAssumption DEF StoreInv, StoreTypes, Tasks
  <2> QED
    BY <1>1, <2>1 DEF StoreInv, FreshIsAbsent
<1>9. Present' = (Present \ E) \cup {t}
  BY CreateChangesPresent DEF E
<1>10. \A u \in Present \ E : u # t /\ tasks'[u] = tasks[u]
  BY <1>1, <1>5 DEF Present
<1>11. tasks'[t].ctx = ctx
  BY <1>1, <1>6
<1>12. IndexesInSync'
  <2>1. ASSUME NEW x \in Contexts
        PROVE  contexts'[x] = {u \in Present' : tasks'[u].ctx = x}
    <3>1. contexts[x] = {u \in Present : tasks[u].ctx = x}
      BY DEF StoreInv, IndexesInSync
    <3> QED
      BY <1>2, <1>9, <1>10, <1>11, <3>1
  <2>2. configs' \subseteq Present'
    BY <1>3, <1>9 DEF StoreInv, IndexesInSync
  <2> QED
    BY <2>1, <2>2 DEF IndexesInSync
<1> QED
  BY <1>7, <1>8, <1>12 DEF StoreInv

\* A status does not change which tasks there are.
LEMMA StatusKeepsPresent ==
    ASSUME StoreInv, NEW t, NEW state \in State, SetStatus(t, state)
    PROVE  Present' = Present
<1>1. CASE t \notin Present
  BY <1>1 DEF SetStatus, Present
<1>2. CASE t \in Present
  <2>1. tasks' = [tasks EXCEPT ![t].state = state]
    BY <1>2 DEF SetStatus
  <2>2. t \in Tasks /\ tasks[t] \in TaskRecords
    BY <1>2 DEF Present, StoreInv, StoreTypes
  <2>3. tasks'[t] # Absent
    BY <2>1, <2>2, AbsentIsNoTask DEF StoreInv, StoreTypes, TaskRecords
  <2>4. \A u \in Tasks : u # t => tasks'[u] = tasks[u]
    BY <2>1 DEF StoreInv, StoreTypes
  <2> QED
    BY <1>2, <2>3, <2>4 DEF Present
<1> QED
  BY <1>1, <1>2

\* Nor does it change their contexts.
LEMMA StatusKeepsStore ==
    ASSUME StoreInv, NEW t, NEW state \in State, SetStatus(t, state)
    PROVE  StoreInv'
<1>0. UNCHANGED <<contexts, configs, created>>
  BY DEF SetStatus
<1>1. CASE t \notin Present
  <2>1. UNCHANGED tasks
    BY <1>1 DEF SetStatus
  <2> QED
    BY <1>0, <2>1 DEF StoreInv, StoreTypes, FreshIsAbsent, IndexesInSync, Present
<1>2. CASE t \in Present
  <2>1. tasks' = [tasks EXCEPT ![t].state = state]
    BY <1>2 DEF SetStatus
  <2>2. t \in Tasks /\ tasks[t] \in TaskRecords
    BY <1>2 DEF Present, StoreInv, StoreTypes
  <2>3. tasks'[t] \in TaskRecords /\ tasks'[t] # Absent /\ tasks'[t].ctx = tasks[t].ctx
    BY <2>1, <2>2, AbsentIsNoTask DEF StoreInv, StoreTypes, TaskRecords
  <2>4. \A u \in Tasks : u # t => tasks'[u] = tasks[u]
    BY <2>1 DEF StoreInv, StoreTypes
  <2>5. tasks' \in [Tasks -> TaskRecords \cup {Absent}]
    BY <2>1, <2>3, <2>4 DEF StoreInv, StoreTypes
  <2>6. Present' = Present /\ \A u \in Present : tasks'[u].ctx = tasks[u].ctx
    BY <1>2, <2>3, <2>4, StatusKeepsPresent DEF Present
  <2>7. FreshIsAbsent'
    BY <1>0, <1>2, <2>4 DEF StoreInv, FreshIsAbsent, Present
  <2>8. IndexesInSync'
    <3>1. ASSUME NEW x \in Contexts
          PROVE  contexts'[x] = {u \in Present' : tasks'[u].ctx = x}
      BY <1>0, <2>6 DEF StoreInv, IndexesInSync
    <3> QED
      BY <1>0, <2>6, <3>1 DEF StoreInv, IndexesInSync
  <2> QED
    BY <1>0, <2>5, <2>7, <2>8 DEF StoreInv, StoreTypes
<1> QED
  BY <1>1, <1>2

\* Steps that leave the tasks and the contexts alone.
LEMMA ConfigsKeepStore ==
    ASSUME StoreInv, UNCHANGED <<tasks, contexts, created>>,
           configs' \subseteq configs \cup Present
    PROVE  StoreInv'
<1>1. Present' = Present
  BY DEF Present
<1> QED
  BY <1>1 DEF StoreInv, StoreTypes, FreshIsAbsent, IndexesInSync

\* Every step keeps the maps in step.
LEMMA StepKeepsStore == StoreInv /\ [Next]_vars => StoreInv'
<1> SUFFICES ASSUME StoreInv, [Next]_vars PROVE StoreInv'
  OBVIOUS
<1>0. UNCHANGED store => StoreInv'
  BY ConfigsKeepStore DEF store
<1>1. ASSUME NEW c \in Clients, RequestStep(c) PROVE StoreInv'
  <2>1. ASSUME NEW op \in {"send", "stream"}, NEW ctx \in Contexts \cup {None},
               AcceptNew(c, op, ctx)
        PROVE  StoreInv'
    <3>1. PICK t \in Tasks : CreateTask(t, ctx)
      BY <2>1 DEF AcceptNew
    <3> QED
      BY <3>1, CreateKeepsStore
  <2>2. ASSUME NEW op \in {"send", "stream"}, NEW ctx \in Contexts \cup {None},
               AcceptKnown(c, op, ctx)
        PROVE  StoreInv'
    BY <1>0, <2>2 DEF AcceptKnown
  <2>3. CASE add_message(c)
    BY <1>0, <2>3 DEF add_message
  <2>4. CASE update_status(c)
    BY <2>4, StatusKeepsStore DEF update_status, State
  <2>5. CASE subscribe(c)
    BY <1>0, <2>5 DEF subscribe
  <2> QED
    BY <1>1, <2>1, <2>2, <2>3, <2>4, <2>5 DEF RequestStep
<1>2. ASSUME NEW t \in Tasks, cancel_task(t) PROVE StoreInv'
  BY <1>2, StatusKeepsStore DEF cancel_task, State
<1>3. ASSUME NEW t \in Tasks, set_webhook_config(t) PROVE StoreInv'
  BY <1>3, ConfigsKeepStore DEF set_webhook_config
<1>4. ASSUME NEW t \in Tasks, remove_webhook_config(t) PROVE StoreInv'
  BY <1>4, ConfigsKeepStore DEF remove_webhook_config
<1>5. ASSUME NEW s \in Streams, Pipeline(s) PROVE StoreInv'
  <2>1. CASE SetStatus(stream[s].task, "Working") \/ SetStatus(stream[s].task, "Completed")
    BY <2>1, StatusKeepsStore DEF State
  <2>2. CASE UNCHANGED store
    BY <1>0, <2>2
  <2> QED
    BY <1>5, <2>1, <2>2 DEF Pipeline, Tell
<1>6. ASSUME NEW s \in Streams, Receive(s) \/ Disconnect(s) PROVE StoreInv'
  BY <1>0, <1>6 DEF Receive, Disconnect
<1>7. CASE UNCHANGED vars
  BY <1>0, <1>7 DEF vars
<1> QED
  BY <1>1, <1>2, <1>3, <1>4, <1>5, <1>6, <1>7 DEF Next

\* The one lock of TaskManager keeps its three maps in step, whatever requests,
\* cancellations and pipelines do between two acquisitions of it: no context
\* lists an evicted task or misses a stored one, no configuration outlives its
\* task.
THEOREM IndexesAgree == Spec => []IndexesInSync
<1>1. StoreInv => IndexesInSync
  BY DEF StoreInv
<1> QED
  BY <1>1, InitStore, StepKeepsStore, PTL DEF Spec

--------------------------------------------------------------------------------
(* The order of the status times *)

\* A strict order of all of S.
Orders(R, S) ==
    /\ R \subseteq S \X S
    /\ \A t, u \in S :
          /\ t = u \/ <<t, u>> \in R \/ <<u, t>> \in R
          /\ ~ (<<t, u>> \in R /\ <<u, t>> \in R)
          /\ \A v \in S : <<t, u>> \in R /\ <<u, v>> \in R => <<t, v>> \in R

\* A task whose status is set now comes after all that stay.
LEMMA TouchedOrders ==
    ASSUME Orders(updated, Present), NEW t, NEW gone
    PROVE  Orders(Touched(t, gone), (Present \ gone) \cup {t})
<1> DEFINE Old == Present \ (gone \cup {t})
           R == Touched(t, gone)
<1>1. ASSUME NEW u, NEW v
      PROVE  <<u, v>> \in R <=> \/ <<u, v>> \in updated /\ u \in Old /\ v \in Old
                                \/ u \in Old /\ v = t
  <2>1. <<u, v>> \in updated => u \in Present /\ v \in Present
    BY DEF Orders
  <2> QED
    BY <2>1 DEF Touched
<1>2. R \subseteq (Old \cup {t}) \X (Old \cup {t})
  <2>1. ASSUME NEW p \in R PROVE p = <<p[1], p[2]>>
    BY DEF Touched, Orders
  <2>2. ASSUME NEW p \in R PROVE p[1] \in Old \cup {t} /\ p[2] \in Old \cup {t}
    BY <1>1, <2>1
  <2> HIDE DEF R, Old
  <2> QED
    BY <2>1, <2>2
<1>3. t \notin Old /\ (Present \ gone) \cup {t} = Old \cup {t} /\ Old \subseteq Present
  OBVIOUS
<1> HIDE DEF R, Old
<1>4. ASSUME NEW u \in Old \cup {t}, NEW v \in Old \cup {t}
      PROVE  /\ u = v \/ <<u, v>> \in R \/ <<v, u>> \in R
             /\ ~ (<<u, v>> \in R /\ <<v, u>> \in R)
  BY <1>1, <1>3 DEF Orders
<1>5. ASSUME NEW u \in Old \cup {t}, NEW v \in Old \cup {t}, NEW w \in Old \cup {t},
             <<u, v>> \in R, <<v, w>> \in R
      PROVE  <<u, w>> \in R
  BY <1>1, <1>3, <1>5 DEF Orders
<1>6. Orders(R, Old \cup {t})
  BY <1>2, <1>4, <1>5 DEF Orders
<1> QED
  BY <1>3, <1>6 DEF R

\* The store with the order of its statuses.
OrderedStore == StoreInv /\ Orders(updated, Present)

\* Every step keeps the order of the statuses.
LEMMA StepKeepsOrder == OrderedStore /\ [Next]_vars => OrderedStore'
<1> SUFFICES ASSUME StoreInv, Orders(updated, Present), [Next]_vars
             PROVE  StoreInv' /\ Orders(updated', Present')
  BY DEF OrderedStore, Orders
<1>1. StoreInv'
  BY StepKeepsStore
<1>2. ASSUME UNCHANGED <<tasks, updated>> PROVE Orders(updated', Present')
  <2>1. Present' = Present /\ updated' = updated
    BY <1>2 DEF Present
  <2> QED
    BY <2>1
<1>3. ASSUME NEW t \in Tasks, NEW ctx \in Contexts \cup {None}, CreateTask(t, ctx)
      PROVE  Orders(updated', Present')
  <2>1. updated' = Touched(t, evicted) /\ Present' = (Present \ evicted) \cup {t}
    BY <1>3, CreateChangesPresent DEF CreateTask
  <2>2. Orders(Touched(t, evicted), (Present \ evicted) \cup {t})
    BY TouchedOrders
  <2> QED
    BY <2>1, <2>2
<1>4. ASSUME NEW t, NEW state \in State, SetStatus(t, state) PROVE Orders(updated', Present')
  <2>1. CASE t \in Present
    <3>1. updated' = Touched(t, {}) /\ Present' = Present
      BY <1>4, <2>1, StatusKeepsPresent DEF SetStatus
    <3>2. Orders(Touched(t, {}), (Present \ {}) \cup {t}) /\ (Present \ {}) \cup {t} = Present
      BY <2>1, TouchedOrders
    <3> QED
      BY <3>1, <3>2
  <2>2. CASE t \notin Present
    BY <1>2, <1>4, <2>2 DEF SetStatus
  <2> QED
    BY <2>1, <2>2
<1>5. ASSUME NEW c \in Clients, RequestStep(c) PROVE Orders(updated', Present')
  <2>1. ASSUME NEW op \in {"send", "stream"}, NEW ctx \in Contexts \cup {None},
               AcceptNew(c, op, ctx) \/ AcceptKnown(c, op, ctx)
        PROVE  Orders(updated', Present')
    BY <1>2, <1>3, <2>1 DEF AcceptNew, AcceptKnown, store
  <2>2. CASE add_message(c) \/ subscribe(c)
    BY <1>2, <2>2 DEF add_message, subscribe, store
  <2>3. CASE update_status(c)
    BY <1>4, <2>3 DEF update_status, State
  <2> QED
    BY <1>5, <2>1, <2>2, <2>3 DEF RequestStep
<1>6. ASSUME NEW t \in Tasks, cancel_task(t) \/ set_webhook_config(t) \/ remove_webhook_config(t)
      PROVE  Orders(updated', Present')
  BY <1>2, <1>4, <1>6 DEF cancel_task, set_webhook_config, remove_webhook_config, State
<1>7. ASSUME NEW s \in Streams, Pipeline(s) PROVE Orders(updated', Present')
  <2>1. CASE SetStatus(stream[s].task, "Working") \/ SetStatus(stream[s].task, "Completed")
    BY <1>4, <2>1 DEF State
  <2>2. CASE UNCHANGED store
    BY <1>2, <2>2 DEF store
  <2> QED
    BY <1>7, <2>1, <2>2 DEF Pipeline, Tell
<1>8. ASSUME NEW s \in Streams, Receive(s) \/ Disconnect(s) PROVE Orders(updated', Present')
  BY <1>2, <1>8 DEF Receive, Disconnect, store
<1>9. CASE UNCHANGED vars
  <2>1. UNCHANGED <<tasks, updated>>
    BY <1>9 DEF vars, store
  <2> QED
    BY <1>1, <1>2, <2>1
<1> QED
  BY <1>1, <1>5, <1>6, <1>7, <1>8, <1>9 DEF Next

\* The maps are in step and the statuses ordered in every reachable state.
LEMMA OrderedInvariant == Spec => []OrderedStore
<1>1. Init => OrderedStore
  <2> SUFFICES ASSUME Init PROVE OrderedStore
    OBVIOUS
  <2>1. Present = {} /\ updated = {}
    BY DEF Init, Present
  <2> QED
    BY <2>1, InitStore DEF OrderedStore, Orders
<1> QED
  BY <1>1, StepKeepsOrder, PTL DEF Spec

\* A step that evicts takes the tasks that ended first: of two terminal tasks the one
\* with the older status has the fewer terminal tasks before it.
LEMMA EvictionTakesOldest ==
    ASSUME OrderedStore, NEW t \in evicted, NEW u \in Ended, u \notin evicted
    PROVE  t \in Ended /\ Older(t, u)
<1> DEFINE before(x) == {v \in Ended : Older(v, x)}
           evict_count == IF MaxTasks < 10 THEN 1 ELSE MaxTasks \div 10
<1>1. /\ t \in Ended /\ Cardinality(before(t)) < evict_count
      /\ ~ (Cardinality(before(u)) < evict_count)
  BY DEF evicted
<1>2. Ended \subseteq Present /\ Present \subseteq Tasks /\ IsFiniteSet(Tasks)
  <2>1. IsFiniteSet(1 .. NumTasks)
    BY ServerAssumption, FS_Interval
  <2> QED
    BY <2>1 DEF Ended, Present, Tasks
<1>3. IsFiniteSet(before(t)) /\ IsFiniteSet(before(u))
  <2>1. before(t) \in SUBSET Tasks /\ before(u) \in SUBSET Tasks
    BY <1>2
  <2> QED
    BY <1>2, <2>1, FS_Subset
<1>4. ASSUME Older(u, t) PROVE before(u) \in SUBSET before(t)
  <2>1. ASSUME NEW v \in Ended, Older(v, u) PROVE Older(v, t)
    BY <1>1, <1>2, <1>4, <2>1 DEF OrderedStore, Orders, Older
  <2> QED
    BY <2>1
<1>5. evict_count \in Nat
  BY ServerAssumption
<1>6. ~ Older(u, t)
  <2>1. SUFFICES ASSUME Older(u, t) PROVE FALSE
    OBVIOUS
  <2>2. Cardinality(before(u)) <= Cardinality(before(t))
    BY <1>3, <1>4, <2>1, FS_Subset
  <2>3. Cardinality(before(u)) \in Nat /\ Cardinality(before(t)) \in Nat
    BY <1>3, FS_CardinalityType
  <2> HIDE DEF before, evict_count
  <2> QED
    BY <1>1, <1>5, <2>2, <2>3
<1>7. t # u
  OBVIOUS
<1> QED
  BY <1>1, <1>2, <1>6, <1>7 DEF OrderedStore, Orders, Older

\* Only a new task evicts.
LEMMA OnlyCreateEvicts ==
    ASSUME StoreInv, [Next]_vars, NEW t \in Present, t \notin Present'
    PROVE  /\ t \in evicted
           /\ \E n : n \notin Present /\ Present' = (Present \ evicted) \cup {n}
<1>1. ASSUME UNCHANGED tasks PROVE FALSE
  BY <1>1 DEF Present
<1>2. ASSUME NEW n \in Tasks, NEW ctx \in Contexts \cup {None}, CreateTask(n, ctx)
      PROVE  /\ t \in evicted
             /\ \E m : m \notin Present /\ Present' = (Present \ evicted) \cup {m}
  BY <1>2, CreateChangesPresent
<1>3. ASSUME NEW n, NEW state \in State, SetStatus(n, state) PROVE FALSE
  BY <1>3, StatusKeepsPresent
<1>4. ASSUME NEW c \in Clients, RequestStep(c)
      PROVE  \E n \in Tasks, ctx \in Contexts \cup {None} : CreateTask(n, ctx)
  <2>1. ASSUME NEW op \in {"send", "stream"}, NEW ctx \in Contexts \cup {None},
               AcceptNew(c, op, ctx) \/ AcceptKnown(c, op, ctx)
        PROVE  \E n \in Tasks : CreateTask(n, ctx)
    BY <1>1, <2>1 DEF AcceptNew, AcceptKnown, store
  <2>2. CASE add_message(c) \/ subscribe(c)
    BY <1>1, <2>2 DEF add_message, subscribe, store
  <2>3. CASE update_status(c)
    BY <1>3, <2>3 DEF update_status, State
  <2> QED
    BY <1>4, <2>1, <2>2, <2>3 DEF RequestStep
<1>5. ASSUME NEW n \in Tasks, cancel_task(n) \/ set_webhook_config(n) \/ remove_webhook_config(n)
      PROVE  FALSE
  BY <1>1, <1>3, <1>5 DEF cancel_task, set_webhook_config, remove_webhook_config, State
<1>6. ASSUME NEW s \in Streams, Pipeline(s) \/ Receive(s) \/ Disconnect(s) PROVE FALSE
  <2>1. CASE SetStatus(stream[s].task, "Working") \/ SetStatus(stream[s].task, "Completed")
    BY <1>3, <2>1 DEF State
  <2>2. CASE UNCHANGED store
    BY <1>1, <2>2 DEF store
  <2> QED
    BY <1>6, <2>1, <2>2 DEF Pipeline, Tell, Receive, Disconnect
<1>7. CASE UNCHANGED vars
  BY <1>1, <1>7 DEF vars, store
<1> QED
  BY <1>2, <1>4, <1>5, <1>6, <1>7 DEF Next

\* Eviction never takes a task that is at work, and of the terminal ones takes those
\* whose status is oldest.
THEOREM EvictsOldest == Spec => EvictsOldestEnded
<1>1. ASSUME OrderedStore, [Next]_vars, NEW t \in Present \ Present'
      PROVE  t \in Ended /\ \A u \in Ended \cap Present' : Older(t, u)
  <2>1. PICK n : n \notin Present /\ Present' = (Present \ evicted) \cup {n}
    BY <1>1, OnlyCreateEvicts DEF OrderedStore
  <2>2. t \in evicted
    BY <1>1, OnlyCreateEvicts DEF OrderedStore
  <2>3. t \in Ended
    BY <2>2 DEF evicted
  <2>4. ASSUME NEW u \in Ended \cap Present' PROVE Older(t, u)
    <3>1. u \in Ended /\ u \in Present /\ u \notin evicted
      BY <2>1 DEF Ended
    <3> QED
      BY <1>1, <2>2, <3>1, EvictionTakesOldest
  <2> QED
    BY <2>3, <2>4
<1>2. OrderedStore /\ [Next]_vars =>
        [\A t \in Present \ Present' :
            t \in Ended /\ \A u \in Ended \cap Present' : Older(t, u)]_vars
  BY <1>1
<1> QED
  BY <1>2, OrderedInvariant, PTL DEF Spec, EvictsOldestEnded

--------------------------------------------------------------------------------
(* The requests and the streams *)

\* A stream whose pipeline runs has a task, and its receiver is within the channel.
GoodStreams ==
    {x \in StreamTypes : /\ Len(x.queue) <= Capacity
                         /\ x.stage \notin {"unused", "done"} => x.task \in Tasks}

ServerTypes ==
    /\ requests \in 0 .. MaxRequests
    /\ request \in [Clients -> Requests]
    /\ stream \in [Streams -> GoodStreams]

\* A stream nobody has asked for.
LEMMA NoStreamIsGood == NoStream \in GoodStreams
<1>1. <<>> \in Seq(Events) /\ Len(<<>>) <= Capacity
  BY EmptySeq, ServerAssumption
<1> QED
  BY <1>1 DEF NoStream, GoodStreams, StreamTypes, Stages

\* What a stream that has ended leaves behind is a stream.
LEMMA SettledIsGood ==
    ASSUME NEW str \in [Streams -> GoodStreams]
    PROVE  Settled(str) \in [Streams -> GoodStreams]
<1>1. ASSUME NEW s \in Streams
      PROVE  [NoStream EXCEPT !.stage = "done", !.end = "gone", !.stray = str[s].stray] \in GoodStreams
  <2>1. str[s].stray \in BOOLEAN
    BY DEF GoodStreams, StreamTypes
  <2>2. <<>> \in Seq(Events) /\ Len(<<>>) <= Capacity
    BY EmptySeq, ServerAssumption
  <2> QED
    BY <2>1, <2>2 DEF NoStream, GoodStreams, StreamTypes, Stages
<1> QED
  BY <1>1 DEF Settled

\* The pipeline of a stream with a task goes to its next stage.
LEMMA StagedIsGood ==
    ASSUME NEW x \in GoodStreams, x.task \in Tasks, NEW to \in Stages
    PROVE  [x EXCEPT !.stage = to] \in GoodStreams
BY DEF GoodStreams, StreamTypes

\* An event that fits is queued; one that does not makes the receiver lag.
LEMMA ToldIsGood ==
    ASSUME NEW x \in GoodStreams, NEW event \in Events
    PROVE  /\ [x EXCEPT !.queue = <<>>, !.lagged = TRUE] \in GoodStreams
           /\ Len(x.queue) # Capacity => [x EXCEPT !.queue = Append(@, event)] \in GoodStreams
<1>1. x \in StreamTypes /\ x.queue \in Seq(Events) /\ Len(x.queue) <= Capacity
      /\ Len(x.queue) \in Nat /\ Capacity \in Nat
  BY LenProperties, ServerAssumption DEF GoodStreams, StreamTypes
<1>2. <<>> \in Seq(Events) /\ Len(<<>>) <= Capacity
  BY EmptySeq, <1>1
<1>3. [x EXCEPT !.queue = <<>>, !.lagged = TRUE] \in GoodStreams
  BY <1>1, <1>2 DEF GoodStreams, StreamTypes
<1>4. ASSUME Len(x.queue) # Capacity
      PROVE  [x EXCEPT !.queue = Append(x.queue, event)] \in GoodStreams
  <2> DEFINE q == Append(x.queue, event)
  <2>1. q \in Seq(Events) /\ Len(q) = Len(x.queue) + 1
    BY <1>1, AppendProperties
  <2>2. Len(q) <= Capacity
    BY <1>1, <1>4, <2>1
  <2> HIDE DEF q
  <2>3. [x EXCEPT !.queue = q] \in GoodStreams
    BY <1>1, <2>1, <2>2 DEF GoodStreams, StreamTypes
  <2> QED
    BY <2>3 DEF q
<1> QED
  BY <1>3, <1>4

\* A send into the channel.
LEMMA TellKeepsTypes ==
    ASSUME ServerTypes, NEW s \in Streams, NEW from \in Stages \ {"unused", "done"},
           NEW kind \in {"working", "message", "completed"}, NEW to \in Stages,
           Tell(s, from, kind, to)
    PROVE  ServerTypes'
<1> DEFINE event == [task |-> stream[s].task, ctx |-> stream[s].ctx, kind |-> kind]
           told(r) == IF r.end # "open" \/ r.lagged THEN r
                      ELSE IF Len(r.queue) = Capacity
                      THEN [r EXCEPT !.queue = <<>>, !.lagged = TRUE]
                      ELSE [r EXCEPT !.queue = Append(@, event)]
           all == [r \in Streams |-> told(stream[r])]
<1>1. /\ stream[s].stage = from
      /\ stream' = Settled([all EXCEPT ![s].stage = to])
      /\ UNCHANGED <<request, requests>>
  BY DEF Tell
<1>2. stream[s] \in GoodStreams /\ stream[s].task \in Tasks
  BY <1>1 DEF ServerTypes, GoodStreams
<1>3. event \in Events
  BY <1>2 DEF Events, GoodStreams, StreamTypes
<1>4. ASSUME NEW r \in Streams
      PROVE  told(stream[r]) \in GoodStreams /\ told(stream[r]).task = stream[r].task
  <2>1. stream[r] \in GoodStreams
    BY DEF ServerTypes
  <2>2. stream[r] \in StreamTypes
    BY <2>1 DEF GoodStreams
  <2> HIDE DEF event
  <2>3. told(stream[r]) \in GoodStreams
    BY <1>3, <2>1, ToldIsGood
  <2>4. told(stream[r]).task = stream[r].task
    BY <2>2 DEF StreamTypes
  <2> QED
    BY <2>3, <2>4
<1> HIDE DEF told
<1>5. all \in [Streams -> GoodStreams] /\ all[s].task \in Tasks
  BY <1>2, <1>4
<1> HIDE DEF all
<1>6. [all[s] EXCEPT !.stage = to] \in GoodStreams
  BY <1>5, StagedIsGood
<1>7. [all EXCEPT ![s].stage = to] \in [Streams -> GoodStreams]
  BY <1>5, <1>6
<1> QED
  BY <1>1, <1>7, SettledIsGood DEF ServerTypes

\* The steps of a pipeline that set a status.
LEMMA StageKeepsTypes ==
    ASSUME ServerTypes, NEW s \in Streams, NEW from \in Stages \ {"unused", "done"},
           NEW to \in Stages, Stage(s, from, to), UNCHANGED <<request, requests>>
    PROVE  ServerTypes'
<1>1. stream[s].stage = from /\ stream' = [stream EXCEPT ![s].stage = to]
  BY DEF Stage
<1>2. stream[s] \in GoodStreams /\ stream[s].task \in Tasks
  BY <1>1 DEF ServerTypes, GoodStreams
<1>3. [stream[s] EXCEPT !.stage = to] \in GoodStreams
  BY <1>2, StagedIsGood
<1> QED
  BY <1>1, <1>3 DEF ServerTypes

\* A receive, and a client that goes away.
LEMMA ReceiveKeepsTypes ==
    ASSUME ServerTypes, NEW s \in Streams, Receive(s) \/ Disconnect(s)
    PROVE  ServerTypes'
<1>1. stream[s] \in GoodStreams /\ stream \in [Streams -> GoodStreams]
  BY DEF ServerTypes
<1>2. /\ stream[s] \in StreamTypes /\ stream[s].queue \in Seq(Events)
      /\ Len(stream[s].queue) \in Nat /\ Len(stream[s].queue) <= Capacity /\ Capacity \in Nat
  BY <1>1, LenProperties, ServerAssumption DEF GoodStreams, StreamTypes
<1>3. <<>> \in Seq(Events) /\ Len(<<>>) <= Capacity
  BY <1>2, EmptySeq
<1>4. ASSUME NEW q \in Seq(Events), Len(q) <= Capacity, NEW e \in {"none", "open", "gone"},
             NEW l \in BOOLEAN, NEW y \in BOOLEAN
      PROVE  [stream[s] EXCEPT !.queue = q, !.stray = y, !.end = e, !.lagged = l] \in GoodStreams
  BY <1>1, <1>2, <1>4 DEF GoodStreams, StreamTypes
<1>5. UNCHANGED <<request, requests>>
  BY DEF Receive, Disconnect
<1>6. CASE Disconnect(s)
  <2>1. stream' = Settled([stream EXCEPT ![s].end = "gone", ![s].queue = <<>>, ![s].lagged = FALSE])
    BY <1>6 DEF Disconnect
  <2>2. [stream[s] EXCEPT !.end = "gone", !.queue = <<>>, !.lagged = FALSE] \in GoodStreams
    BY <1>1, <1>2, <1>3 DEF GoodStreams, StreamTypes
  <2>3. [stream EXCEPT ![s].end = "gone", ![s].queue = <<>>, ![s].lagged = FALSE]
          \in [Streams -> GoodStreams]
    BY <1>1, <2>2
  <2> QED
    BY <1>5, <2>1, <2>3, SettledIsGood DEF ServerTypes
<1>7. CASE stream' = Settled([stream EXCEPT ![s].end = "gone"])
  <2>1. [stream[s] EXCEPT !.end = "gone"] \in GoodStreams
    BY <1>1, <1>2 DEF GoodStreams, StreamTypes
  <2>2. [stream EXCEPT ![s].end = "gone"] \in [Streams -> GoodStreams]
    BY <1>1, <2>1
  <2> QED
    BY <1>5, <1>7, <2>2, SettledIsGood DEF ServerTypes
<1> DEFINE event == Head(stream[s].queue)
           shown == Matches(s, event)
           last == shown /\ event.kind = "completed"
           left == IF last THEN <<>> ELSE Tail(stream[s].queue)
           seen == stream[s].stray \/ (shown /\ Stray(s, event))
           after == IF last THEN "gone" ELSE stream[s].end
<1>8. CASE /\ stream[s].queue # <<>>
           /\ stream' = Settled([stream EXCEPT ![s].queue = left, ![s].stray = seen, ![s].end = after])
  <2>1. Tail(stream[s].queue) \in Seq(Events) /\ Len(Tail(stream[s].queue)) <= Capacity
    BY <1>2, <1>8, HeadTailProperties
  <2>2. left \in Seq(Events) /\ Len(left) <= Capacity
    BY <1>3, <2>1
  <2>3. seen \in BOOLEAN
    BY Zenon
  <2>4. after \in {"none", "open", "gone"}
    BY <1>2 DEF StreamTypes
  <2> HIDE DEF left, seen, after
  <2>5. [stream[s] EXCEPT !.queue = left, !.stray = seen, !.end = after] \in GoodStreams
    BY <1>1, <1>2, <2>2, <2>3, <2>4 DEF GoodStreams, StreamTypes
  <2>6. [stream EXCEPT ![s].queue = left, ![s].stray = seen, ![s].end = after]
          \in [Streams -> GoodStreams]
    BY <1>1, <2>5
  <2> QED
    BY <1>5, <1>8, <2>6, SettledIsGood DEF ServerTypes
<1> HIDE DEF event, shown, last, left, seen, after
<1>9. ASSUME Receive(s)
      PROVE  \/ stream' = Settled([stream EXCEPT ![s].end = "gone"])
             \/ /\ stream[s].queue # <<>>
                /\ stream' = Settled([stream EXCEPT ![s].queue = left, ![s].stray = seen, ![s].end = after])
  BY <1>9, Zenon DEF Receive, event, shown, last, left, seen, after
<1> QED
  BY <1>6, <1>7, <1>8, <1>9

\* A request that is under way.
LEMMA ProceedKeepsTypes ==
    ASSUME ServerTypes, NEW c \in Clients, NEW op \in {"send", "stream"}, NEW t \in Tasks,
           NEW ctx \in Contexts \cup {None},
           NEW step \in {"add_message", "update_status", "subscribe"},
           Proceed(c, op, t, ctx, step), requests < MaxRequests, requests' = requests + 1,
           UNCHANGED stream
    PROVE  ServerTypes'
<1> DEFINE r == [op |-> op, task |-> t, step |-> step, ctx |-> IF op = "stream" THEN ctx ELSE None]
<1>1. r \in Requests
  BY DEF Requests
<1>2. request' = [request EXCEPT ![c] = r]
  BY DEF Proceed
<1> HIDE DEF r
<1>3. request' \in [Clients -> Requests]
  BY <1>1, <1>2 DEF ServerTypes
<1>4. requests' \in 0 .. MaxRequests
  BY ServerAssumption DEF ServerTypes
<1> QED
  BY <1>3, <1>4 DEF ServerTypes

\* A request that is answered.
LEMMA RespondKeepsTypes ==
    ASSUME ServerTypes, NEW c \in Clients, Respond(c), UNCHANGED <<requests, stream>>
    PROVE  ServerTypes'
<1>1. Idle \in Requests
  BY DEF Requests
<1> QED
  BY <1>1 DEF Respond, ServerTypes

\* The steps of a request.
LEMMA RequestKeepsTypes ==
    ASSUME ServerTypes, NEW c \in Clients, RequestStep(c)
    PROVE  ServerTypes'
<1>1. request[c] \in Requests
  BY DEF ServerTypes
<1>2. ASSUME request[c] # Idle
      PROVE  request[c] \in [op : {"send", "stream"}, task : Tasks, ctx : Contexts \cup {None},
                             step : {"add_message", "update_status", "subscribe"}]
  BY <1>1, <1>2 DEF Requests
<1>3. ASSUME NEW op \in {"send", "stream"}
      PROVE  AfterMessage(op) \in {"add_message", "update_status", "subscribe"}
  BY DEF AfterMessage
<1>4. ASSUME NEW op \in {"send", "stream"}, NEW ctx \in Contexts \cup {None}, AcceptNew(c, op, ctx)
      PROVE  ServerTypes'
  <2>1. PICK t \in Tasks : Proceed(c, op, t, ctx, "add_message")
    BY <1>4 DEF AcceptNew
  <2>2. requests < MaxRequests /\ requests' = requests + 1 /\ UNCHANGED stream
    BY <1>4 DEF AcceptNew
  <2> QED
    BY <2>1, <2>2, ProceedKeepsTypes
<1>5. ASSUME NEW op \in {"send", "stream"}, NEW ctx \in Contexts \cup {None}, AcceptKnown(c, op, ctx)
      PROVE  ServerTypes'
  <2>1. PICK t \in Tasks : Proceed(c, op, t, ctx, AfterMessage(op))
    BY <1>5 DEF AcceptKnown, Present
  <2>2. requests < MaxRequests /\ requests' = requests + 1 /\ UNCHANGED stream
    BY <1>5 DEF AcceptKnown
  <2> QED
    BY <1>3, <2>1, <2>2, ProceedKeepsTypes
<1>6. CASE add_message(c)
  <2>1. CASE Respond(c)
    BY <1>6, <2>1, RespondKeepsTypes DEF add_message
  <2>2. CASE request' = [request EXCEPT ![c].step = AfterMessage(request[c].op)]
    <3>1. AfterMessage(request[c].op) \in {"add_message", "update_status", "subscribe"}
      BY <1>2, <1>3, <1>6 DEF add_message
    <3>2. [request[c] EXCEPT !.step = AfterMessage(request[c].op)] \in Requests
      BY <1>2, <1>6, <3>1 DEF add_message, Requests
    <3>3. UNCHANGED <<requests, stream>>
      BY <1>6 DEF add_message
    <3> QED
      BY <2>2, <3>2, <3>3 DEF ServerTypes
  <2> QED
    BY <1>6, <2>1, <2>2 DEF add_message
<1>7. CASE update_status(c)
  BY <1>7, RespondKeepsTypes DEF update_status
<1>8. CASE subscribe(c)
  <2> DEFINE new == [task |-> request[c].task, ctx |-> request[c].ctx, stage |-> "work",
                     end |-> "open", queue |-> <<>>, lagged |-> FALSE, stray |-> FALSE]
  <2>1. PICK s \in Streams : stream' = [stream EXCEPT ![s] = new]
    BY <1>8 DEF subscribe
  <2>2. new \in GoodStreams
    <3>1. <<>> \in Seq(Events) /\ Len(<<>>) <= Capacity
      BY EmptySeq, ServerAssumption
    <3>2. request[c].task \in Tasks /\ request[c].ctx \in Contexts \cup {None}
      BY <1>2, <1>8 DEF subscribe
    <3> QED
      BY <3>1, <3>2 DEF GoodStreams, StreamTypes, Stages
  <2> HIDE DEF new
  <2>3. stream' \in [Streams -> GoodStreams]
    BY <2>1, <2>2 DEF ServerTypes
  <2>4. Respond(c) /\ UNCHANGED requests
    BY <1>8 DEF subscribe
  <2>5. request' \in [Clients -> Requests]
    BY <2>4 DEF Respond, Requests, ServerTypes
  <2> QED
    BY <2>3, <2>4, <2>5 DEF ServerTypes
<1> QED
  BY <1>4, <1>5, <1>6, <1>7, <1>8 DEF RequestStep

\* Every step keeps the types of the requests and the streams.
LEMMA StepKeepsTypes == ServerTypes /\ [Next]_vars => ServerTypes'
<1> SUFFICES ASSUME ServerTypes, [Next]_vars PROVE ServerTypes'
  OBVIOUS
<1>1. ASSUME NEW c \in Clients, RequestStep(c) PROVE ServerTypes'
  BY <1>1, RequestKeepsTypes
<1>2. ASSUME UNCHANGED <<request, requests, stream>> PROVE ServerTypes'
  BY <1>2 DEF ServerTypes
<1>3. ASSUME NEW t \in Tasks, cancel_task(t) \/ set_webhook_config(t) \/ remove_webhook_config(t)
      PROVE  ServerTypes'
  BY <1>2, <1>3 DEF cancel_task, set_webhook_config, remove_webhook_config
<1>4. ASSUME NEW s \in Streams, Pipeline(s) PROVE ServerTypes'
  <2>1. CASE /\ Stage(s, "work", "tell_work") \/ Stage(s, "complete", "tell_complete")
             /\ UNCHANGED <<request, requests>>
    BY <2>1, StageKeepsTypes DEF Stages
  <2>2. CASE \/ Tell(s, "tell_work", "working", "tell_message")
             \/ Tell(s, "tell_message", "message", "complete")
             \/ Tell(s, "tell_complete", "completed", "done")
    BY <2>2, TellKeepsTypes DEF Stages
  <2> QED
    BY <1>4, <2>1, <2>2 DEF Pipeline
<1>5. ASSUME NEW s \in Streams, Receive(s) \/ Disconnect(s) PROVE ServerTypes'
  BY <1>5, ReceiveKeepsTypes
<1>6. CASE UNCHANGED vars
  BY <1>2, <1>6 DEF vars
<1> QED
  BY <1>1, <1>3, <1>4, <1>5, <1>6 DEF Next

\* The maps of the store, the requests, the order of the statuses and the streams keep
\* their types, and no receiver holds more than the channel keeps for it.
THEOREM TypeCorrect == Spec => []TypeOK
<1>1. Init => ServerTypes
  <2>1. Idle \in Requests /\ 0 \in 0 .. MaxRequests
    BY ServerAssumption DEF Requests
  <2> QED
    BY <2>1, NoStreamIsGood DEF Init, ServerTypes
<1>2. OrderedStore /\ ServerTypes => TypeOK
  <2> SUFFICES ASSUME OrderedStore, ServerTypes PROVE TypeOK
    OBVIOUS
  <2>1. configs \subseteq Tasks
    BY DEF OrderedStore, StoreInv, IndexesInSync, Present
  <2>2. stream \in [Streams -> StreamTypes] /\ \A s \in Streams : Len(stream[s].queue) <= Capacity
    BY DEF ServerTypes, GoodStreams
  <2>3. /\ tasks \in [Tasks -> [state : State, ctx : Contexts \cup {None}] \cup {Absent}]
        /\ contexts \in [Contexts -> SUBSET Tasks] /\ created \in 0 .. NumTasks
    BY DEF OrderedStore, StoreInv, StoreTypes, TaskRecords
  <2>4. /\ updated \subseteq Present \X Present
        /\ \A t, u \in Present :
              /\ t = u \/ Older(t, u) \/ Older(u, t)
              /\ ~ (Older(t, u) /\ Older(u, t))
              /\ \A v \in Present : Older(t, u) /\ Older(u, v) => Older(t, v)
    BY DEF OrderedStore, Orders, Older
  <2> QED
    BY <2>1, <2>2, <2>3, <2>4 DEF TypeOK, ServerTypes
<1>3. Spec => []ServerTypes
  BY <1>1, StepKeepsTypes, PTL DEF Spec
<1> QED
  BY <1>2, <1>3, OrderedInvariant, PTL

--------------------------------------------------------------------------------
(* What an open stream waits for *)

\* The event that ends the stream x is in what its receiver has yet to read.
FinalEventQueued(x) ==
    \E i \in 1 .. Len(x.queue) : x.queue[i].task = x.task /\ x.queue[i].kind = "completed"

\* A stream whose pipeline is done still has an end to come to.
Served(x) == x.stage = "done" /\ x.end = "open" => x.lagged \/ FinalEventQueued(x)

\* A client of handle_stream never waits for a pipeline that has nothing more to say:
\* once the pipeline of an open stream is done, its final event is in the receiver's
\* reach, or the receiver has lost events and the next recv ends the stream.
NoStreamIsForsaken == \A s \in Streams : Served(stream[s])

\* What a stream that has ended leaves behind waits for nothing.
LEMMA SettledIsServed ==
    ASSUME NEW str, NEW s \in Streams, Served(str[s])
    PROVE  Served(Settled(str)[s])
<1> DEFINE gone == [NoStream EXCEPT !.stage = "done", !.end = "gone", !.stray = str[s].stray]
<1>1. gone.end = "gone"
  BY DEF NoStream
<1>2. Served(gone)
  BY <1>1 DEF Served
<1> HIDE DEF gone
<1>3. Settled(str)[s] = gone \/ Settled(str)[s] = str[s]
  BY Zenon DEF Settled, gone
<1> QED
  BY <1>2, <1>3

\* An event that is queued behind others leaves the final event where it was, and the
\* final event of the receiver's own task is one.
LEMMA AppendKeepsFinal ==
    ASSUME NEW x \in GoodStreams, NEW event \in Events,
           FinalEventQueued(x) \/ (event.task = x.task /\ event.kind = "completed")
    PROVE  FinalEventQueued([x EXCEPT !.queue = Append(@, event)])
<1> DEFINE q == Append(x.queue, event)
           y == [x EXCEPT !.queue = q]
<1>1. x.queue \in Seq(Events) /\ Len(x.queue) \in Nat
  BY LenProperties DEF GoodStreams, StreamTypes
<1>2. /\ Len(q) = Len(x.queue) + 1 /\ q[Len(x.queue) + 1] = event
      /\ \A i \in 1 .. Len(x.queue) : q[i] = x.queue[i]
  BY <1>1, AppendProperties
<1> HIDE DEF q
<1>3. y.queue = q /\ y.task = x.task
  BY DEF GoodStreams, StreamTypes
<1>4. \E i \in 1 .. Len(q) : q[i].task = x.task /\ q[i].kind = "completed"
  <2>1. CASE FinalEventQueued(x)
    <3>1. PICK i \in 1 .. Len(x.queue) : x.queue[i].task = x.task /\ x.queue[i].kind = "completed"
      BY <2>1 DEF FinalEventQueued
    <3>2. i \in 1 .. Len(q) /\ q[i] = x.queue[i]
      BY <1>1, <1>2
    <3> QED
      BY <3>1, <3>2
  <2>2. CASE event.task = x.task /\ event.kind = "completed"
    <3>1. Len(q) \in 1 .. Len(q) /\ q[Len(q)] = event
      BY <1>1, <1>2
    <3> QED
      BY <2>2, <3>1
  <2> QED
    BY <2>1, <2>2
<1>5. FinalEventQueued(y)
  BY <1>3, <1>4 DEF FinalEventQueued
<1> QED
  BY <1>5 DEF y, q

\* An event that is read and is not the final one leaves the final one unread.
LEMMA TailKeepsFinal ==
    ASSUME NEW x \in GoodStreams, x.queue # <<>>, FinalEventQueued(x),
           ~ (Head(x.queue).task = x.task /\ Head(x.queue).kind = "completed")
    PROVE  \E i \in 1 .. Len(Tail(x.queue)) :
               Tail(x.queue)[i].task = x.task /\ Tail(x.queue)[i].kind = "completed"
<1>1. x.queue \in Seq(Events) /\ Len(x.queue) \in Nat
  BY LenProperties DEF GoodStreams, StreamTypes
<1>2. PICK i \in 1 .. Len(x.queue) : x.queue[i].task = x.task /\ x.queue[i].kind = "completed"
  BY DEF FinalEventQueued
<1>3. /\ Head(x.queue) = x.queue[1] /\ Len(Tail(x.queue)) = Len(x.queue) - 1
      /\ \A j \in 1 .. Len(Tail(x.queue)) : Tail(x.queue)[j] = x.queue[j + 1]
  BY <1>1, HeadTailProperties
<1>4. i # 1
  BY <1>2, <1>3
<1>5. i - 1 \in 1 .. Len(Tail(x.queue)) /\ (i - 1) + 1 = i
  BY <1>1, <1>3, <1>4
<1>6. Tail(x.queue)[i - 1] = x.queue[i]
  BY <1>3, <1>5
<1> QED
  BY <1>2, <1>5, <1>6

\* A send into the channel: what a pipeline says last is the final event of its stream.
LEMMA TellKeepsServed ==
    ASSUME ServerTypes, NoStreamIsForsaken, NEW s \in Streams, NEW from \in Stages \ {"unused", "done"},
           NEW kind \in {"working", "message", "completed"}, NEW to \in Stages,
           to = "done" => kind = "completed", Tell(s, from, kind, to)
    PROVE  NoStreamIsForsaken'
<1> DEFINE event == [task |-> stream[s].task, ctx |-> stream[s].ctx, kind |-> kind]
           told(r) == IF r.end # "open" \/ r.lagged THEN r
                      ELSE IF Len(r.queue) = Capacity
                      THEN [r EXCEPT !.queue = <<>>, !.lagged = TRUE]
                      ELSE [r EXCEPT !.queue = Append(@, event)]
           all == [r \in Streams |-> told(stream[r])]
<1>1. stream[s].stage = from /\ stream' = Settled([all EXCEPT ![s].stage = to])
  BY DEF Tell
<1>2. stream[s] \in GoodStreams /\ stream[s].task \in Tasks
  BY <1>1 DEF ServerTypes, GoodStreams
<1>3. event \in Events
  BY <1>2 DEF Events, GoodStreams, StreamTypes
<1>4. event.task = stream[s].task /\ event.kind = kind
  OBVIOUS
<1> HIDE DEF event
<1>5. ASSUME NEW r \in Streams
      PROVE  /\ told(stream[r]) \in GoodStreams
             /\ told(stream[r]).task = stream[r].task /\ told(stream[r]).stage = stream[r].stage
             /\ told(stream[r]).end = stream[r].end
             /\ \/ stream[r].end # "open" \/ told(stream[r]).lagged
                \/ told(stream[r]) = [stream[r] EXCEPT !.queue = Append(@, event)]
  <2>1. stream[r] \in GoodStreams
    BY DEF ServerTypes
  <2>2. stream[r] \in StreamTypes
    BY <2>1 DEF GoodStreams
  <2>3. told(stream[r]) \in GoodStreams
    BY <1>3, <2>1, ToldIsGood
  <2>4. /\ told(stream[r]).task = stream[r].task /\ told(stream[r]).stage = stream[r].stage
        /\ told(stream[r]).end = stream[r].end
    BY <2>2 DEF StreamTypes
  <2>5. \/ stream[r].end # "open" \/ told(stream[r]).lagged
        \/ told(stream[r]) = [stream[r] EXCEPT !.queue = Append(@, event)]
    BY <2>2 DEF StreamTypes
  <2> QED
    BY <2>3, <2>4, <2>5
<1> HIDE DEF told
<1>6. all \in [Streams -> GoodStreams] /\ \A r \in Streams : all[r] = told(stream[r])
  BY <1>5
<1>7. [all[s] EXCEPT !.stage = to] \in GoodStreams
  BY <1>2, <1>5, <1>6, StagedIsGood
<1> DEFINE str == [all EXCEPT ![s].stage = to]
<1>8. str \in [Streams -> GoodStreams]
  BY <1>6, <1>7
<1>9. ASSUME NEW r \in Streams, r # s PROVE Served(str[r])
  <2>1. str[r] = told(stream[r]) /\ stream[r] \in GoodStreams /\ Served(stream[r])
    BY <1>6, <1>9 DEF ServerTypes, NoStreamIsForsaken
  <2>2. CASE stream[r].end # "open" \/ told(stream[r]).lagged
    BY <1>5, <2>1, <2>2 DEF Served
  <2>3. CASE told(stream[r]) = [stream[r] EXCEPT !.queue = Append(@, event)]
    <3>1. stream[r].lagged = told(stream[r]).lagged
      BY <2>1, <2>3 DEF GoodStreams, StreamTypes
    <3>2. FinalEventQueued(stream[r]) => FinalEventQueued(told(stream[r]))
      BY <1>3, <2>1, <2>3, AppendKeepsFinal
    <3> QED
      BY <1>5, <2>1, <3>1, <3>2 DEF Served
  <2> QED
    BY <1>5, <2>2, <2>3
<1>10. Served(str[s])
  <2>1. /\ str[s] = [all[s] EXCEPT !.stage = to] /\ all[s] = told(stream[s]) /\ all[s] \in GoodStreams
    BY <1>6
  <2>2. /\ str[s].stage = to /\ str[s].end = all[s].end /\ str[s].lagged = all[s].lagged
        /\ str[s].queue = all[s].queue /\ str[s].task = all[s].task
    BY <2>1 DEF GoodStreams, StreamTypes
  <2>3. CASE to # "done" \/ stream[s].end # "open" \/ told(stream[s]).lagged
    BY <1>5, <2>1, <2>2, <2>3 DEF Served
  <2>4. CASE to = "done" /\ told(stream[s]) = [stream[s] EXCEPT !.queue = Append(@, event)]
    <3>1. FinalEventQueued(all[s])
      BY <1>2, <1>3, <1>4, <2>1, <2>4, AppendKeepsFinal
    <3> QED
      BY <2>2, <3>1 DEF Served, FinalEventQueued
  <2> QED
    BY <1>5, <2>3, <2>4
<1> HIDE DEF str
<1>11. \A r \in Streams : Served(Settled(str)[r])
  BY <1>8, <1>9, <1>10, SettledIsServed
<1> QED
  BY <1>1, <1>11 DEF NoStreamIsForsaken, str

\* A receive that ends the stream leaves nobody waiting; any other takes an event that was
\* not the final one.
LEMMA ReceiveKeepsServed ==
    ASSUME ServerTypes, NoStreamIsForsaken, NEW s \in Streams, Receive(s) \/ Disconnect(s)
    PROVE  NoStreamIsForsaken'
<1> DEFINE event == Head(stream[s].queue)
           last == Matches(s, event) /\ event.kind = "completed"
<1>1. stream[s] \in GoodStreams /\ stream \in [Streams -> GoodStreams] /\ Served(stream[s])
  BY DEF ServerTypes, NoStreamIsForsaken
<1>2. PICK x : /\ stream' = Settled([stream EXCEPT ![s] = x])
               /\ \/ x.end = "gone"
                  \/ /\ stream[s].queue # <<>> /\ ~ last
                     /\ x.queue = Tail(stream[s].queue) /\ x.task = stream[s].task
                     /\ x.stage = stream[s].stage /\ x.end = stream[s].end
                     /\ x.lagged = stream[s].lagged
  <2>1. stream[s] \in StreamTypes
    BY <1>1 DEF GoodStreams
  <2>2. CASE Disconnect(s)
    <3> DEFINE x == [stream[s] EXCEPT !.end = "gone", !.queue = <<>>, !.lagged = FALSE]
    <3>1. stream' = Settled([stream EXCEPT ![s] = x])
      BY <1>1, <2>2 DEF Disconnect
    <3>2. x.end = "gone"
      BY <2>1 DEF StreamTypes
    <3> QED
      BY <3>1, <3>2
  <2>3. CASE stream' = Settled([stream EXCEPT ![s].end = "gone"])
    <3> DEFINE x == [stream[s] EXCEPT !.end = "gone"]
    <3>1. stream' = Settled([stream EXCEPT ![s] = x])
      BY <1>1, <2>3
    <3>2. x.end = "gone"
      BY <2>1 DEF StreamTypes
    <3> QED
      BY <3>1, <3>2
  <2> DEFINE left == IF last THEN <<>> ELSE Tail(stream[s].queue)
             seen == stream[s].stray \/ (Matches(s, event) /\ Stray(s, event))
             after == IF last THEN "gone" ELSE stream[s].end
  <2>4. CASE /\ stream[s].queue # <<>>
             /\ stream' = Settled([stream EXCEPT ![s].queue = left, ![s].stray = seen, ![s].end = after])
    <3> DEFINE x == [stream[s] EXCEPT !.queue = left, !.stray = seen, !.end = after]
    <3> HIDE DEF event, last
    <3>1. (last => after = "gone") /\ (~ last => left = Tail(stream[s].queue) /\ after = stream[s].end)
      OBVIOUS
    <3> HIDE DEF left, seen, after
    <3>2. stream' = Settled([stream EXCEPT ![s] = x])
      BY <1>1, <2>4
    <3>3. /\ x.queue = left /\ x.end = after /\ x.task = stream[s].task
          /\ x.stage = stream[s].stage /\ x.lagged = stream[s].lagged
      BY <2>1 DEF StreamTypes
    <3> QED
      BY <2>4, <3>1, <3>2, <3>3
  <2> HIDE DEF event, last, left, seen, after
  <2>5. ASSUME Receive(s)
        PROVE  \/ stream' = Settled([stream EXCEPT ![s].end = "gone"])
               \/ /\ stream[s].queue # <<>>
                  /\ stream' = Settled([stream EXCEPT ![s].queue = left, ![s].stray = seen, ![s].end = after])
    BY <2>5, Zenon DEF Receive, event, last, left, seen, after
  <2> QED
    BY <2>2, <2>3, <2>4, <2>5
<1> DEFINE str == [stream EXCEPT ![s] = x]
<1>3. Served(x)
  <2>1. CASE x.end = "gone"
    BY <2>1 DEF Served
  <2>2. CASE /\ stream[s].queue # <<>> /\ ~ last
             /\ x.queue = Tail(stream[s].queue) /\ x.task = stream[s].task
             /\ x.stage = stream[s].stage /\ x.end = stream[s].end /\ x.lagged = stream[s].lagged
    <3>1. ~ (Head(stream[s].queue).task = stream[s].task /\ Head(stream[s].queue).kind = "completed")
      BY <2>2 DEF Matches
    <3>2. FinalEventQueued(stream[s]) => FinalEventQueued(x)
      BY <1>1, <2>2, <3>1, TailKeepsFinal DEF FinalEventQueued
    <3> QED
      BY <1>1, <2>2, <3>2 DEF Served
  <2> QED
    BY <1>2, <2>1, <2>2
<1>4. ASSUME NEW r \in Streams PROVE Served(str[r])
  BY <1>1, <1>3 DEF NoStreamIsForsaken
<1> HIDE DEF str
<1>5. \A r \in Streams : Served(Settled(str)[r])
  BY <1>4, SettledIsServed
<1> QED
  BY <1>2, <1>5 DEF NoStreamIsForsaken, str

\* Every step keeps an end in sight for every stream.
LEMMA StepKeepsServed == ServerTypes /\ NoStreamIsForsaken /\ [Next]_vars => NoStreamIsForsaken'
<1> SUFFICES ASSUME ServerTypes, NoStreamIsForsaken, [Next]_vars PROVE NoStreamIsForsaken'
  OBVIOUS
<1>1. ASSUME UNCHANGED stream PROVE NoStreamIsForsaken'
  BY <1>1 DEF NoStreamIsForsaken
<1>2. ASSUME NEW c \in Clients, RequestStep(c) PROVE NoStreamIsForsaken'
  <2>1. CASE subscribe(c)
    <3> DEFINE new == [task |-> request[c].task, ctx |-> request[c].ctx, stage |-> "work",
                       end |-> "open", queue |-> <<>>, lagged |-> FALSE, stray |-> FALSE]
    <3>1. PICK s \in Streams : stream' = [stream EXCEPT ![s] = new]
      BY <2>1 DEF subscribe
    <3>2. Served(new)
      BY DEF Served
    <3> HIDE DEF new
    <3> QED
      BY <3>1, <3>2 DEF NoStreamIsForsaken, ServerTypes
  <2> QED
    BY <1>1, <1>2, <2>1 DEF RequestStep, AcceptNew, AcceptKnown, add_message, update_status
<1>3. ASSUME NEW t \in Tasks, cancel_task(t) \/ set_webhook_config(t) \/ remove_webhook_config(t)
      PROVE  NoStreamIsForsaken'
  BY <1>1, <1>3 DEF cancel_task, set_webhook_config, remove_webhook_config
<1>4. ASSUME NEW s \in Streams, Pipeline(s) PROVE NoStreamIsForsaken'
  <2>1. ASSUME NEW from \in Stages, NEW to \in Stages \ {"done"}, Stage(s, from, to)
        PROVE  NoStreamIsForsaken'
    <3>1. stream' = [stream EXCEPT ![s].stage = to] /\ stream[s] \in StreamTypes
      BY <2>1 DEF Stage, ServerTypes, GoodStreams
    <3>2. ASSUME NEW r \in Streams PROVE Served(stream'[r])
      <4>1. CASE r = s
        BY <3>1, <4>1 DEF Served, ServerTypes, StreamTypes
      <4>2. CASE r # s
        BY <3>1, <4>2 DEF ServerTypes, NoStreamIsForsaken
      <4> QED
        BY <4>1, <4>2
    <3> QED
      BY <3>2 DEF NoStreamIsForsaken
  <2>2. CASE Stage(s, "work", "tell_work") \/ Stage(s, "complete", "tell_complete")
    BY <2>1, <2>2 DEF Stages
  <2>3. CASE \/ Tell(s, "tell_work", "working", "tell_message")
             \/ Tell(s, "tell_message", "message", "complete")
             \/ Tell(s, "tell_complete", "completed", "done")
    BY <2>3, TellKeepsServed DEF Stages
  <2> QED
    BY <1>4, <2>2, <2>3 DEF Pipeline
<1>5. ASSUME NEW s \in Streams, Receive(s) \/ Disconnect(s) PROVE NoStreamIsForsaken'
  BY <1>5, ReceiveKeepsServed
<1>6. CASE UNCHANGED vars
  BY <1>1, <1>6 DEF vars
<1> QED
  BY <1>2, <1>3, <1>4, <1>5, <1>6 DEF Next

\* No stream is left open by a pipeline that is done with nothing to end it: whatever is
\* cancelled, evicted, sent to again or lost by a slow receiver meanwhile.
THEOREM StreamsAreServed == Spec => []NoStreamIsForsaken
<1>1. Init => ServerTypes
  <2>1. Idle \in Requests /\ 0 \in 0 .. MaxRequests
    BY ServerAssumption DEF Requests
  <2> QED
    BY <2>1, NoStreamIsGood DEF Init, ServerTypes
<1>2. Init => NoStreamIsForsaken
  BY DEF Init, NoStreamIsForsaken, Served, NoStream
<1>3. Spec => []ServerTypes
  BY <1>1, StepKeepsTypes, PTL DEF Spec
<1> QED
  BY <1>2, <1>3, StepKeepsServed, PTL DEF Spec

--------------------------------------------------------------------------------
(* What the filter of a stream lets through *)

\* The filter of handle_stream fails a client in one case only: an open stream that has
\* shown an event of a task and a context that are not its own had named no context.
StrayNamedNoContext ==
    \A s \in Streams : stream[s].end = "open" /\ stream[s].stray => stream[s].ctx = None

\* Steps that leave the contexts of the open streams and what they have shown.
LEMMA StrayFrame ==
    ASSUME StrayNamedNoContext, NEW str,
           \A s \in Streams : str[s].end = "open" =>
               \/ str[s].ctx = stream[s].ctx /\ str[s].stray = stream[s].stray /\ stream[s].end = "open"
               \/ str[s].stray => str[s].ctx = None,
           stream' = str \/ stream' = Settled(str)
    PROVE  StrayNamedNoContext'
<1>1. ASSUME NEW s \in Streams, str[s].end = "open", str[s].stray PROVE str[s].ctx = None
  BY <1>1 DEF StrayNamedNoContext
<1>2. ASSUME NEW s \in Streams, Settled(str)[s].end = "open" PROVE Settled(str)[s] = str[s]
  <2> DEFINE gone == [NoStream EXCEPT !.stage = "done", !.end = "gone", !.stray = str[s].stray]
  <2>1. gone.end = "gone"
    BY DEF NoStream
  <2> HIDE DEF gone
  <2>2. Settled(str)[s] = gone \/ Settled(str)[s] = str[s]
    BY Zenon DEF Settled, gone
  <2> QED
    BY <1>2, <2>1, <2>2
<1> QED
  BY <1>1, <1>2 DEF StrayNamedNoContext

\* A status is let through by its task alone, a message by a context the client has named
\* or by the lack of one.
LEMMA StrayIsWithoutContext ==
    ASSUME NEW s \in Streams, NEW event, Matches(s, event), Stray(s, event)
    PROVE  stream[s].ctx = None
BY DEF Matches, Stray

LEMMA StepKeepsStray == ServerTypes /\ StrayNamedNoContext /\ [Next]_vars => StrayNamedNoContext'
<1> SUFFICES ASSUME ServerTypes, StrayNamedNoContext, [Next]_vars PROVE StrayNamedNoContext'
  OBVIOUS
<1>0. stream \in [Streams -> StreamTypes]
  BY DEF ServerTypes, GoodStreams
<1>1. ASSUME UNCHANGED stream PROVE StrayNamedNoContext'
  BY <1>1 DEF StrayNamedNoContext
<1>2. ASSUME NEW c \in Clients, RequestStep(c) PROVE StrayNamedNoContext'
  <2>1. CASE subscribe(c)
    <3> DEFINE new == [task |-> request[c].task, ctx |-> request[c].ctx, stage |-> "work",
                       end |-> "open", queue |-> <<>>, lagged |-> FALSE, stray |-> FALSE]
    <3>1. PICK s \in Streams : stream' = [stream EXCEPT ![s] = new]
      BY <2>1 DEF subscribe
    <3>2. new.stray = FALSE
      OBVIOUS
    <3> HIDE DEF new
    <3> QED
      BY <1>0, <3>1, <3>2 DEF StrayNamedNoContext
  <2> QED
    BY <1>1, <1>2, <2>1 DEF RequestStep, AcceptNew, AcceptKnown, add_message, update_status
<1>3. ASSUME NEW t \in Tasks, cancel_task(t) \/ set_webhook_config(t) \/ remove_webhook_config(t)
      PROVE  StrayNamedNoContext'
  BY <1>1, <1>3 DEF cancel_task, set_webhook_config, remove_webhook_config
<1>4. ASSUME NEW s \in Streams, Pipeline(s) PROVE StrayNamedNoContext'
  <2>1. ASSUME NEW from, NEW to, Stage(s, from, to) PROVE StrayNamedNoContext'
    <3>1. stream' = [stream EXCEPT ![s].stage = to]
      BY <2>1 DEF Stage
    <3> DEFINE str == [stream EXCEPT ![s].stage = to]
    <3>2. \A r \in Streams : /\ str[r].end = stream[r].end /\ str[r].ctx = stream[r].ctx
                             /\ str[r].stray = stream[r].stray
      BY <1>0 DEF StreamTypes
    <3> HIDE DEF str
    <3> QED
      BY <3>1, <3>2, StrayFrame DEF str
  <2>2. ASSUME NEW from, NEW kind, NEW to, Tell(s, from, kind, to) PROVE StrayNamedNoContext'
    <3> DEFINE event == [task |-> stream[s].task, ctx |-> stream[s].ctx, kind |-> kind]
               told(r) == IF r.end # "open" \/ r.lagged THEN r
                          ELSE IF Len(r.queue) = Capacity
                          THEN [r EXCEPT !.queue = <<>>, !.lagged = TRUE]
                          ELSE [r EXCEPT !.queue = Append(@, event)]
               all == [r \in Streams |-> told(stream[r])]
               str == [all EXCEPT ![s].stage = to]
    <3>1. stream' = Settled(str)
      BY <2>2 DEF Tell
    <3> HIDE DEF event
    <3>2. ASSUME NEW r \in Streams
          PROVE  /\ told(stream[r]).end = stream[r].end /\ told(stream[r]).ctx = stream[r].ctx
                 /\ told(stream[r]).stray = stream[r].stray
      BY <1>0 DEF StreamTypes
    <3> HIDE DEF told
    <3>3. ASSUME NEW r \in Streams
          PROVE  str[r].end = stream[r].end /\ str[r].ctx = stream[r].ctx /\ str[r].stray = stream[r].stray
      <4>1. all[r] = told(stream[r]) /\ (str[r] = all[r] \/ str[r] = [all[r] EXCEPT !.stage = to])
        OBVIOUS
      <4>2. [all[r] EXCEPT !.stage = to].end = all[r].end /\ [all[r] EXCEPT !.stage = to].ctx = all[r].ctx
            /\ [all[r] EXCEPT !.stage = to].stray = all[r].stray
        OBVIOUS
      <4> QED
        BY <3>2, <4>1, <4>2
    <3> HIDE DEF str
    <3> QED
      BY <3>1, <3>3, StrayFrame
  <2> QED
    BY <1>4, <2>1, <2>2 DEF Pipeline
<1>5. ASSUME NEW s \in Streams, Disconnect(s) PROVE StrayNamedNoContext'
  <2> DEFINE str == [stream EXCEPT ![s].end = "gone", ![s].queue = <<>>, ![s].lagged = FALSE]
  <2>1. stream' = Settled(str)
    BY <1>5 DEF Disconnect
  <2>2. \A r \in Streams : str[r].end = "open" =>
            str[r].ctx = stream[r].ctx /\ str[r].stray = stream[r].stray /\ stream[r].end = "open"
    BY <1>0 DEF StreamTypes
  <2> HIDE DEF str
  <2> QED
    BY <2>1, <2>2, StrayFrame
<1>6. ASSUME NEW s \in Streams, Receive(s) PROVE StrayNamedNoContext'
  <2> DEFINE event == Head(stream[s].queue)
             shown == Matches(s, event)
             last == shown /\ event.kind = "completed"
             left == IF last THEN <<>> ELSE Tail(stream[s].queue)
             seen == stream[s].stray \/ (shown /\ Stray(s, event))
             after == IF last THEN "gone" ELSE stream[s].end
             ended == [stream EXCEPT ![s].end = "gone"]
             read == [stream EXCEPT ![s].queue = left, ![s].stray = seen, ![s].end = after]
  <2>1. stream' = Settled(ended) \/ stream' = Settled(read)
    BY <1>6, Zenon DEF Receive
  <2>2. seen => stream[s].stray \/ stream[s].ctx = None
    BY StrayIsWithoutContext
  <2>3. stream[s].end = "open"
    BY <1>6 DEF Receive
  <2> HIDE DEF event, shown, last, left, seen, after
  <2>4. \A r \in Streams : ended[r].end = "open" =>
            ended[r].ctx = stream[r].ctx /\ ended[r].stray = stream[r].stray /\ stream[r].end = "open"
    BY <1>0 DEF StreamTypes
  <2>5. \A r \in Streams : read[r].end = "open" =>
            \/ read[r].ctx = stream[r].ctx /\ read[r].stray = stream[r].stray /\ stream[r].end = "open"
            \/ read[r].stray => read[r].ctx = None
    <3>1. \A r \in Streams : r # s => read[r] = stream[r]
      BY <1>0
    <3>2. read[s].ctx = stream[s].ctx /\ read[s].stray = seen
      BY <1>0 DEF StreamTypes
    <3>3. read[s].stray => read[s].ctx = None
      BY <2>2, <2>3, <3>2 DEF StrayNamedNoContext
    <3> HIDE DEF read
    <3> QED
      BY <3>1, <3>3
  <2> HIDE DEF ended, read
  <2> QED
    BY <2>1, <2>4, <2>5, StrayFrame
<1>7. CASE UNCHANGED vars
  BY <1>1, <1>7 DEF vars
<1> QED
  BY <1>2, <1>3, <1>4, <1>5, <1>6, <1>7 DEF Next

\* The comment "Filter events for this task/context" holds of every stream whose client
\* named a context: the streams without one are all that the comparison mixes up.
THEOREM StraysNamedNoContext == Spec => []StrayNamedNoContext
<1>1. Init => ServerTypes
  <2>1. Idle \in Requests /\ 0 \in 0 .. MaxRequests
    BY ServerAssumption DEF Requests
  <2> QED
    BY <2>1, NoStreamIsGood DEF Init, ServerTypes
<1>2. Init => StrayNamedNoContext
  BY DEF Init, StrayNamedNoContext, NoStream
<1>3. Spec => []ServerTypes
  BY <1>1, StepKeepsTypes, PTL DEF Spec
<1> QED
  BY <1>2, <1>3, StepKeepsStray, PTL DEF Spec

================================================================================
