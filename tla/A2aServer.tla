------------------------------- MODULE A2aServer -------------------------------
(* The A2A server: the store of tasks, the requests that change it, the         *)
(* detached pipeline behind each message/stream request and the broadcast       *)
(* channel through which every pipeline reaches every open stream.              *)
(*                                                                              *)
(* An action is one acquisition of the lock of TaskManager, one send into the   *)
(* channel or one receive from it; a request releases the lock between its      *)
(* steps, so requests, pipelines and cancellations interleave there.            *)
(*                                                                              *)
(* Abstracted: history, artifacts and the texts of messages (add_message and    *)
(* add_artifact only ask whether the task exists); timestamps are the order in  *)
(* which statuses were set.  Webhook deliveries are best effort, change nothing *)
(* in the server and are not modelled; their configurations are.                *)
EXTENDS Naturals, Sequences, FiniteSets

CONSTANTS
    NumTasks,     \* bound: tasks that are ever created
    Contexts,     \* context ids of clients
    None,         \* no context id
    Absent,       \* no task
    Clients,      \* requests that are served at the same time
    MaxTasks,     \* TaskManager::max_tasks
    Capacity,     \* events the channel keeps for a slow receiver
    NumStreams,   \* bound: message/stream requests that get as far as a stream
    MaxRequests,  \* bound: requests that send a message
    MaxConfigs    \* bound: webhook configurations there are at a time

Tasks == 1 .. NumTasks
Streams == 1 .. NumStreams

\* The states the server sets.  Failed and Rejected are terminal as well, and
\* InputRequired is as cancelable as Submitted.
State == {"Submitted", "Working", "Completed", "Canceled"}
is_terminal(state) == state \in {"Completed", "Canceled"}

ASSUME ServerAssumption ==
    /\ None \notin Contexts /\ NumTasks \in Nat
    /\ Absent \notin Tasks \cup [state : State, ctx : Contexts \cup {None}]
    /\ MaxTasks \in Nat \ {0} /\ Capacity \in Nat \ {0} /\ NumStreams \in Nat /\ MaxRequests \in Nat /\ MaxConfigs \in Nat

VARIABLES
    tasks,      \* TaskManagerState::tasks
    contexts,   \* TaskManagerState::contexts: the tasks of each context
    configs,    \* TaskManagerState::webhook_configs: the tasks that have one
    updated,    \* the status times: pairs of stored tasks, the one updated earlier first
    created,    \* tasks created so far: ids are never used again
    request,    \* the request each client has under way
    requests,   \* how many there have been
    stream      \* each stream with its receiver and its pipeline

store == <<tasks, contexts, configs, updated, created>>
vars == <<store, request, requests, stream>>

Present == {t \in Tasks : tasks[t] # Absent}
Ended == {t \in Present : is_terminal(tasks[t].state)}

\* The status of t is older than the status of u.
Older(t, u) == <<t, u>> \in updated

\* The status of t is set now, and the tasks in gone leave the store.
Touched(t, gone) ==
    {p \in updated : {p[1], p[2]} \cap (gone \cup {t}) = {}}
    \cup (Present \ (gone \cup {t})) \X {t}

Idle == [op |-> "idle"]
Requests == {Idle} \cup [op : {"send", "stream"}, task : Tasks, ctx : Contexts \cup {None},
                         step : {"add_message", "update_status", "subscribe"}]

\* What a pipeline does next; "unused" for a stream nobody has asked for.
Stages == {"unused", "work", "tell_work", "tell_message", "complete", "tell_complete", "done"}
Events == [task : Tasks, ctx : Contexts \cup {None}, kind : {"working", "message", "completed"}]

--------------------------------------------------------------------------------
(* TaskManager *)

\* Mutant of evicted: the sort is the wrong way round.
MutEvictYoungest ==
    IF Cardinality(Present) < MaxTasks THEN {}
    ELSE LET evict_count == IF MaxTasks < 10 THEN 1 ELSE MaxTasks \div 10 IN
         {t \in Ended : Cardinality({u \in Ended : Older(t, u)}) < evict_count}

\* evict_oldest_tasks: a tenth of the capacity, and one at least.
evicted ==
    IF Cardinality(Present) < MaxTasks THEN {}
    ELSE LET evict_count == IF MaxTasks < 10 THEN 1 ELSE MaxTasks \div 10 IN
         {t \in Ended : Cardinality({u \in Ended : Older(u, t)}) < evict_count}

\* Mutant of CreateTask: eviction forgets the contexts.
MutCreateKeepsContexts(t, ctx) ==
    /\ t = created + 1
    /\ created' = t
    /\ tasks' = [u \in Tasks |-> IF u = t THEN [state |-> "Submitted", ctx |-> ctx]
                                 ELSE IF u \in evicted THEN Absent ELSE tasks[u]]
    /\ contexts' = [x \in Contexts |-> contexts[x] \cup (IF x = ctx THEN {t} ELSE {})]
    /\ configs' = configs \ evicted
    /\ updated' = Touched(t, evicted)

\* create_task under the lock: eviction, then the task and its context entry.
CreateTask(t, ctx) ==
    /\ t = created + 1
    /\ created' = t
    /\ tasks' = [u \in Tasks |-> IF u = t THEN [state |-> "Submitted", ctx |-> ctx]
                                 ELSE IF u \in evicted THEN Absent ELSE tasks[u]]
    /\ contexts' = [x \in Contexts |-> (contexts[x] \ evicted) \cup (IF x = ctx THEN {t} ELSE {})]
    /\ configs' = configs \ evicted
    /\ updated' = Touched(t, evicted)

\* The status of a task that exists is replaced, whatever it was.
SetStatus(t, state) ==
    /\ IF t \in Present
       THEN /\ tasks' = [tasks EXCEPT ![t].state = state]
            /\ updated' = Touched(t, {})
       ELSE UNCHANGED <<tasks, updated>>
    /\ UNCHANGED <<contexts, configs, created>>

cancel_task(t) ==
    /\ t \in Present /\ tasks[t].state \in {"Submitted", "Working"}
    /\ SetStatus(t, "Canceled")
    /\ UNCHANGED <<request, requests, stream>>

set_webhook_config(t) ==
    /\ t \in Present \ configs /\ Cardinality(configs) < MaxConfigs
    /\ configs' = configs \cup {t}
    /\ UNCHANGED <<tasks, contexts, updated, created, request, requests, stream>>

remove_webhook_config(t) ==
    /\ t \in configs
    /\ configs' = configs \ {t}
    /\ UNCHANGED <<tasks, contexts, updated, created, request, requests, stream>>

--------------------------------------------------------------------------------
(* handle_message_send and handle_stream, up to their response *)

Respond(c) == request' = [request EXCEPT ![c] = Idle]
Proceed(c, op, t, ctx, step) ==
    request' = [request EXCEPT ![c] = [op |-> op, task |-> t, step |-> step,
                                       ctx |-> IF op = "stream" THEN ctx ELSE None]]
AfterMessage(op) == IF op = "send" THEN "update_status" ELSE "subscribe"

\* A request without a task id makes a task.
AcceptNew(c, op, ctx) ==
    /\ request[c] = Idle /\ requests < MaxRequests /\ requests' = requests + 1
    /\ \E t \in Tasks : CreateTask(t, ctx) /\ Proceed(c, op, t, ctx, "add_message")
    /\ UNCHANGED stream

\* One with an id, which the client has from an earlier response, starts with
\* add_message and is refused there if the task is gone.
AcceptKnown(c, op, ctx) ==
    /\ request[c] = Idle /\ requests < MaxRequests /\ requests' = requests + 1
    /\ \E t \in Present : Proceed(c, op, t, ctx, AfterMessage(op))
    /\ UNCHANGED <<store, stream>>

add_message(c) ==
    /\ request[c] # Idle /\ request[c].step = "add_message"
    /\ IF request[c].task \in Present
       THEN request' = [request EXCEPT ![c].step = AfterMessage(request[c].op)]
       ELSE Respond(c)
    /\ UNCHANGED <<store, requests, stream>>

\* The response of message/send: the task is Working from here on.
update_status(c) ==
    /\ request[c] # Idle /\ request[c].step = "update_status"
    /\ SetStatus(request[c].task, "Working") /\ Respond(c)
    /\ UNCHANGED <<requests, stream>>

\* The response of message/stream: the receiver subscribes, then the pipeline
\* is spawned.
subscribe(c) ==
    /\ request[c] # Idle /\ request[c].step = "subscribe"
    /\ \E s \in Streams :
          /\ stream[s].stage = "unused" /\ \A r \in 1 .. s - 1 : stream[r].stage # "unused"
          /\ stream' = [stream EXCEPT ![s] =
                           [task |-> request[c].task, ctx |-> request[c].ctx, stage |-> "work",
                            end |-> "open", queue |-> <<>>, lagged |-> FALSE, stray |-> FALSE]]
    /\ Respond(c)
    /\ UNCHANGED <<store, requests>>

--------------------------------------------------------------------------------
(* The pipeline of a stream *)

NoStream == [task |-> Absent, ctx |-> None, stage |-> "unused", end |-> "none",
             queue |-> <<>>, lagged |-> FALSE, stray |-> FALSE]

\* A stream that has ended and whose pipeline is done leaves nothing behind.
Settled(str) ==
    [s \in Streams |-> IF str[s].stage = "done" /\ str[s].end # "open"
                       THEN [NoStream EXCEPT !.stage = "done", !.end = "gone", !.stray = str[s].stray]
                       ELSE str[s]]

Stage(s, from, to) == stream[s].stage = from /\ stream' = [stream EXCEPT ![s].stage = to]

\* Mutant of Tell: the channel keeps every event.
MutTellUnbounded(s, from, kind, to) ==
    LET event == [task |-> stream[s].task, ctx |-> stream[s].ctx, kind |-> kind]
        told(r) == IF r.end # "open" \/ r.lagged THEN r
                   ELSE [r EXCEPT !.queue = Append(@, event)] IN
    /\ stream[s].stage = from
    /\ stream' = Settled([[r \in Streams |-> told(stream[r])] EXCEPT ![s].stage = to])
    /\ UNCHANGED <<store, request, requests>>

\* broadcast::Sender::send reaches the receivers there are; one that is behind
\* by the whole capacity loses the oldest event.
Tell(s, from, kind, to) ==
    LET event == [task |-> stream[s].task, ctx |-> stream[s].ctx, kind |-> kind]
        told(r) == IF r.end # "open" \/ r.lagged THEN r
                   ELSE IF Len(r.queue) = Capacity
                   THEN [r EXCEPT !.queue = <<>>, !.lagged = TRUE]
                   ELSE [r EXCEPT !.queue = Append(@, event)] IN
    /\ stream[s].stage = from
    /\ stream' = Settled([[r \in Streams |-> told(stream[r])] EXCEPT ![s].stage = to])
    /\ UNCHANGED <<store, request, requests>>

\* Mutant of Pipeline: an update_status that fails ends the pipeline.
MutPipelineNeedsTask(s) ==
    \/ /\ stream[s].task \in Present
       /\ Stage(s, "work", "tell_work") /\ SetStatus(stream[s].task, "Working")
       /\ UNCHANGED <<request, requests>>
    \/ Tell(s, "tell_work", "working", "tell_message")
    \/ Tell(s, "tell_message", "message", "complete")
    \/ /\ stream[s].task \in Present
       /\ Stage(s, "complete", "tell_complete") /\ SetStatus(stream[s].task, "Completed")
       /\ UNCHANGED <<request, requests>>
    \/ Tell(s, "tell_complete", "completed", "done")

\* The outcome of update_status is dropped: a pipeline goes on without its task.
Pipeline(s) ==
    \/ /\ Stage(s, "work", "tell_work") /\ SetStatus(stream[s].task, "Working")
       /\ UNCHANGED <<request, requests>>
    \/ Tell(s, "tell_work", "working", "tell_message")
    \/ Tell(s, "tell_message", "message", "complete")
    \/ /\ Stage(s, "complete", "tell_complete") /\ SetStatus(stream[s].task, "Completed")
       /\ UNCHANGED <<request, requests>>
    \/ Tell(s, "tell_complete", "completed", "done")

--------------------------------------------------------------------------------
(* The receiving side of a stream *)

\* The filter of the stream: a status by its task, a message by its context.
Matches(s, event) ==
    IF event.kind = "message" THEN event.ctx = stream[s].ctx
                              ELSE event.task = stream[s].task

\* An event of another task and of no context the client has named.
Stray(s, event) ==
    event.task # stream[s].task /\ (event.ctx # stream[s].ctx \/ event.ctx = None)

\* recv; the stream ends with the final event and with any error of recv.
Receive(s) ==
    /\ stream[s].end = "open"
    /\ \/ /\ stream[s].lagged
          /\ stream' = Settled([stream EXCEPT ![s].end = "gone"])
       \/ /\ stream[s].queue # <<>>
          /\ LET event == Head(stream[s].queue)
                 shown == Matches(s, event)
                 last == shown /\ event.kind = "completed" IN
             stream' = Settled([stream EXCEPT
                          ![s].queue = IF last THEN <<>> ELSE Tail(@),
                          ![s].stray = @ \/ (shown /\ Stray(s, event)),
                          ![s].end = IF last THEN "gone" ELSE @])
    /\ UNCHANGED <<store, request, requests>>

\* The client goes away; the pipeline does not notice.
Disconnect(s) ==
    /\ stream[s].end = "open"
    /\ stream' = Settled([stream EXCEPT ![s].end = "gone", ![s].queue = <<>>, ![s].lagged = FALSE])
    /\ UNCHANGED <<store, request, requests>>

--------------------------------------------------------------------------------

Init ==
    /\ tasks = [t \in Tasks |-> Absent]
    /\ contexts = [x \in Contexts |-> {}]
    /\ configs = {} /\ updated = {} /\ created = 0
    /\ request = [c \in Clients |-> Idle] /\ requests = 0
    /\ stream = [s \in Streams |-> NoStream]

RequestStep(c) ==
    \/ \E op \in {"send", "stream"}, ctx \in Contexts \cup {None} :
          AcceptNew(c, op, ctx) \/ AcceptKnown(c, op, ctx)
    \/ add_message(c) \/ update_status(c) \/ subscribe(c)

Next ==
    \/ \E c \in Clients : RequestStep(c)
    \/ \E t \in Tasks : cancel_task(t) \/ set_webhook_config(t) \/ remove_webhook_config(t)
    \/ \E s \in Streams : Pipeline(s) \/ Receive(s) \/ Disconnect(s)

\* A pipeline is a task of the runtime and sleeps for bounded times; the server
\* polls a stream whose client reads.
Fairness == \A s \in Streams : WF_vars(Pipeline(s)) /\ WF_vars(Receive(s))

Spec == Init /\ [][Next]_vars /\ Fairness

--------------------------------------------------------------------------------
(* Properties *)

StreamTypes ==
    [task : Tasks \cup {Absent}, ctx : Contexts \cup {None}, stage : Stages,
     end : {"none", "open", "gone"},
     lagged : BOOLEAN, stray : BOOLEAN, queue : Seq(Events)]

\* Every part of the state has the type of its field, no receiver holds more
\* than the channel keeps for it, and the status times order the stored tasks.
TypeOK ==
    /\ tasks \in [Tasks -> [state : State, ctx : Contexts \cup {None}] \cup {Absent}]
    /\ contexts \in [Contexts -> SUBSET Tasks]
    /\ configs \subseteq Tasks /\ created \in 0 .. NumTasks /\ requests \in 0 .. MaxRequests
    /\ request \in [Clients -> Requests]
    /\ stream \in [Streams -> StreamTypes]
    /\ \A s \in Streams : Len(stream[s].queue) <= Capacity
    /\ updated \subseteq Present \X Present
    /\ \A t, u \in Present :
          /\ t = u \/ Older(t, u) \/ Older(u, t)
          /\ ~ (Older(t, u) /\ Older(u, t))
          /\ \A v \in Present : Older(t, u) /\ Older(u, v) => Older(t, v)

\* What the one lock of TaskManager is for: the indexes never disagree.  A
\* context lists the stored tasks that were created in it and no others, and a
\* webhook configuration does not outlive its task.
IndexesInSync ==
    /\ \A x \in Contexts : contexts[x] = {t \in Present : tasks[t].ctx = x}
    /\ configs \subseteq Present

\* Eviction takes no task that is still at work, and takes the tasks that
\* ended first: a task leaves the store only when it is terminal and every
\* terminal task that stays has a younger status.
EvictsOldestEnded ==
    [][\A t \in Present \ Present' :
          t \in Ended /\ \A u \in Ended \cap Present' : Older(t, u)]_vars

\* Every stream ends: the pipeline's final event reaches the receiver that
\* subscribed before it was spawned even when the task is cancelled, sent to
\* again or evicted meanwhile, and a receiver that lost it ends with an error.
StreamsEnd == \A s \in Streams : []<>(stream[s].end # "open")

\* What the filter of handle_stream is for ("Filter events for this
\* task/context"): a client sees events of its own task, and messages of a
\* context it named.
StreamShowsItsOwn == \A s \in Streams : ~ stream[s].stray

================================================================================
