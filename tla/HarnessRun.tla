------------------------------ MODULE HarnessRun ------------------------------
(* The event emitter of an interactive run: HarnessEventEmitter, its clones,   *)
(* and the session that reports success.                                       *)
(*                                                                             *)
(* Below it lies the canonical sink, taken for what SessionStoreSink implements *)
(* (DurableFeed): it accepts an event or refuses it, persists what it accepted  *)
(* in order and answers the close.  A sink that has refused an event answers    *)
(* no close with ok (OkCloseRefusedNothing of SessionStoreSink).                *)
(*                                                                             *)
(* An owner is a task that holds a clone.  What it still has to do is a list    *)
(* of steps; a step ends where the code gives a lock back or awaits, so emits   *)
(* of several owners, the finish of the session and drops of clones interleave. *)
(* The session's future can be dropped, or unwind, wherever it awaits.          *)
EXTENDS Naturals, FiniteSets, SequencesExt, DurableFeed

CONSTANTS
    Session,     \* the owner that runs the session
    Finalizer,   \* the task that the drop of the last clone spawns
    Helpers,     \* tool callbacks and streams that get a clone from the session
    Exporters,   \* the optional consumers
    Lossy,       \* those that may lose an event: a full writer, a full bridge
    Nobody

Owners == {Session, Finalizer} \cup Helpers

\* The events that end a run; all the others are told apart and emitted once.
Completed == "thread.completed"
Failed == "turn.failed"
Aborted == "thread.completed with an error"
Items == Events \ {Completed, Failed, Aborted}

ASSUME HarnessAssumption ==
    /\ {Completed, Failed, Aborted} \subseteq Events
    /\ Lossy \subseteq Exporters
    /\ Nobody \notin Owners /\ Session # Finalizer
    /\ Helpers \cap {Session, Finalizer} = {}

VARIABLES
    refused,      \* the sink has refused an event
    gate,         \* who holds dispatch_gate
    finalized,
    taken,        \* finish_once has taken the exporters
    exported,     \* what each exporter was fed
    clones,       \* the owners that hold a clone: Arc::strong_count is their number
    todo,         \* the steps each owner still has to take
    items,        \* the items that have not been emitted
    terminalErr,  \* the session's terminal_event_error
    result,       \* how the session leaves, then what it reports
    vanishedAt,   \* history: the await at which the session's future was dropped
    overlapped,   \* history: a drop looked at the count while another one was under way
    stranded      \* history: no runtime took the finalizer, or none carried it to its end

emitterVars == <<refused, gate, finalized, taken, exported>>
sessionVars == <<terminalErr, result, vanishedAt>>
dropVars == <<overlapped, stranded>>
vars == <<feedVars, emitterVars, clones, todo, items, sessionVars, dropVars>>

Step(p) == IF todo[p] = <<>> THEN "none" ELSE Head(todo[p])[1]
Event(p) == Head(todo[p])[2]
Then(p, more) == todo' = [todo EXCEPT ![p] = more \o Tail(@)]

--------------------------------------------------------------------------------
(* emit *)

Emitted(p, ok) ==
    /\ Then(p, <<>>)
    /\ terminalErr' = (terminalErr \/ (p = Session /\ Event(p) = Completed /\ ~ok))

\* Mutant of Enter: `finalized` is looked at, the gate is not taken.
MutEnterUngated(p) ==
    /\ Step(p) = "emit"
    /\ IF finalized
       THEN Emitted(p, FALSE) /\ UNCHANGED gate
       ELSE /\ gate' = p
            /\ Then(p, <<<<"canonical", Event(p)>>>>)
            /\ UNCHANGED terminalErr
    /\ UNCHANGED <<feedVars, refused, finalized, taken, exported, clones, items, result,
                   vanishedAt, dropVars>>

\* The gate is taken and `finalized` is looked at under it.
Enter(p) ==
    /\ Step(p) = "emit" /\ gate = Nobody
    /\ IF finalized
       THEN Emitted(p, FALSE) /\ UNCHANGED gate
       ELSE /\ gate' = p
            /\ Then(p, <<<<"canonical", Event(p)>>>>)
            /\ UNCHANGED terminalErr
    /\ UNCHANGED <<feedVars, refused, finalized, taken, exported, clones, items, result,
                   vanishedAt, dropVars>>

SinkRefuses(p) ==
    /\ refused' = TRUE /\ gate' = Nobody
    /\ Emitted(p, FALSE)
    /\ UNCHANGED feedVars

\* Mutant of Canonical: the gate covers the canonical sink only.
MutCanonicalOpensGate(p) ==
    /\ Step(p) = "canonical"
    /\ \/ /\ ~refused /\ Accept(Event(p))
          /\ Then(p, <<<<"export", Event(p)>>>>)
          /\ gate' = Nobody /\ UNCHANGED <<refused, terminalErr>>
       \/ SinkRefuses(p)
    /\ UNCHANGED <<finalized, taken, exported, clones, items, result, vanishedAt, dropVars>>

\* The sink comes first; what it refuses no exporter sees.
Canonical(p) ==
    /\ Step(p) = "canonical"
    /\ \/ /\ ~refused /\ Accept(Event(p))
          /\ Then(p, <<<<"export", Event(p)>>>>)
          /\ UNCHANGED <<refused, gate, terminalErr>>
       \/ SinkRefuses(p)
    /\ UNCHANGED <<finalized, taken, exported, clones, items, result, vanishedAt, dropVars>>

\* Every exporter is fed before the gate is given back, whatever becomes of it.
Export(p) ==
    /\ Step(p) = "export"
    /\ \E lost \in SUBSET Lossy :
          exported' = [x \in Exporters |-> IF taken \/ x \in lost THEN exported[x]
                                           ELSE Append(exported[x], Event(p))]
    /\ gate' = Nobody
    /\ Emitted(p, TRUE)
    /\ UNCHANGED <<feedVars, refused, finalized, taken, clones, items, result, vanishedAt,
                   dropVars>>

--------------------------------------------------------------------------------
(* finish *)

\* Mutant of Finish: `finalized` is set without waiting for the emit that holds the gate.
MutFinishUngated(p) ==
    /\ Step(p) = "finish"
    /\ finalized' = TRUE
    /\ Then(p, IF finalized THEN <<<<"return", "ok">>>> ELSE <<<<"exports">>, <<"close">>>>)
    /\ UNCHANGED <<feedVars, refused, gate, taken, exported, clones, items, sessionVars,
                   dropVars>>

\* finish_once closes the gate for good; only the first one goes on.
Finish(p) ==
    /\ Step(p) = "finish" /\ gate = Nobody
    /\ finalized' = TRUE
    /\ Then(p, IF finalized THEN <<<<"return", "ok">>>> ELSE <<<<"exports">>, <<"close">>>>)
    /\ UNCHANGED <<feedVars, refused, gate, taken, exported, clones, items, sessionVars,
                   dropVars>>

\* The exporters are finished; their failures are only logged.
FinishExports(p) ==
    /\ Step(p) = "exports"
    /\ taken' = TRUE
    /\ Then(p, <<>>)
    /\ UNCHANGED <<feedVars, refused, gate, finalized, exported, clones, items, sessionVars,
                   dropVars>>

\* The sink's close, which waits for the drain.
Close(p) ==
    /\ Step(p) = "close"
    /\ \E answer \in {"ok", "err"} :
          /\ answer = "ok" => ~refused
          /\ Answer(answer)
          /\ Then(p, <<<<"return", answer>>>>)
    /\ UNCHANGED <<emitterVars, clones, items, sessionVars, dropVars>>

\* Mutant of Return: an error of finish is logged and forgotten.
MutReturnLogged(p) ==
    /\ Step(p) = "return"
    /\ Then(p, <<>>)
    /\ result' = IF p # Session THEN result
                 ELSE IF result = "completing" /\ ~terminalErr THEN "ok" ELSE "err"
    /\ UNCHANGED <<feedVars, emitterVars, clones, items, terminalErr, vanishedAt, dropVars>>

Return(p) ==
    /\ Step(p) = "return"
    /\ Then(p, <<>>)
    /\ result' = IF p # Session THEN result
                 ELSE IF result = "completing" /\ Event(p) = "ok" /\ ~terminalErr
                 THEN "ok" ELSE "err"
    /\ UNCHANGED <<feedVars, emitterVars, clones, items, terminalErr, vanishedAt, dropVars>>

--------------------------------------------------------------------------------
(* The session and the other owners of a clone *)

Begin(p, steps) == todo[p] = <<>> /\ todo' = [todo EXCEPT ![p] = steps]
Working == todo[Session] = <<>> /\ result = "running"

\* An owner emits an item of its turn or of its tool.
EmitItem(p) ==
    /\ p \in clones /\ (p = Session => Working)
    /\ \E e \in items : Begin(p, <<<<"emit", e>>>>) /\ items' = items \ {e}
    /\ UNCHANGED <<feedVars, emitterVars, clones, sessionVars, dropVars>>

\* The loop has ended: the terminal event, the notification, finish.
Complete ==
    /\ Working
    /\ result' = "completing"
    /\ Begin(Session, <<<<"emit", Completed>>, <<"notify">>, <<"finish">>, <<"drop">>>>)
    /\ UNCHANGED <<feedVars, emitterVars, clones, items, terminalErr, vanishedAt, dropVars>>

\* finish_after_unexpected_exit.
UnexpectedExit == <<<<"emit", Failed>>, <<"emit", Aborted>>, <<"finish">>, <<"drop">>>>

\* harness_try!: a step of the session has failed.
Fail ==
    /\ Working
    /\ result' = "failing"
    /\ Begin(Session, UnexpectedExit)
    /\ UNCHANGED <<feedVars, emitterVars, clones, items, terminalErr, vanishedAt, dropVars>>

\* Mutant of Notify: a notification that fails is a failed step of the session.
MutNotifyTried ==
    /\ Step(Session) = "notify"
    /\ \/ Then(Session, <<>>)
       \/ todo' = [todo EXCEPT ![Session] = UnexpectedExit]
    /\ UNCHANGED <<feedVars, emitterVars, clones, items, sessionVars, dropVars>>

Notify ==
    /\ Step(Session) = "notify"
    /\ Then(Session, <<>>)
    /\ UNCHANGED <<feedVars, emitterVars, clones, items, sessionVars, dropVars>>

\* The future of the session is dropped while it awaits; its clone goes with it.
Vanish ==
    /\ Working \/ Step(Session) \in {"notify", "exports", "close"}
    /\ result' = "vanished"
    /\ vanishedAt' = Step(Session)
    /\ todo' = [todo EXCEPT ![Session] = <<<<"drop">>>>]
    /\ UNCHANGED <<feedVars, emitterVars, clones, items, terminalErr, dropVars>>

Clone(h) ==
    /\ Working /\ h \notin clones /\ todo[h] = <<>>
    /\ clones' = clones \cup {h}
    /\ UNCHANGED <<feedVars, emitterVars, todo, items, sessionVars, dropVars>>

DropHelper(h) ==
    /\ h \in clones /\ Begin(h, <<<<"drop">>>>)
    /\ UNCHANGED <<feedVars, emitterVars, clones, items, sessionVars, dropVars>>

\* Mutant of LastClone: the count is compared as if the clone were gone already.
MutLastCloneReleased(p) == clones = {} /\ ~finalized

\* Arc::strong_count of the clones is one and the run is not finalized.
LastClone(p) == clones = {p} /\ ~finalized

\* The owner of the last clone spawns a task that finalizes the run with a clone of
\* its own.
SpawnFinalizer(p) ==
    /\ LastClone(p) /\ p # Finalizer
    /\ clones' = clones \cup {Finalizer}
    /\ todo' = [todo EXCEPT ![p] = <<<<"release">>>>, ![Finalizer] = UnexpectedExit]
    /\ UNCHANGED stranded

\* Any other clone is let go, and the last one too if there is no runtime to spawn the
\* task on: none on the dropping thread, or one that is ending.  (The finalizer drops
\* a clone of an unfinished run only when its runtime ends.)
LetGo(p) ==
    /\ Then(p, <<<<"release">>>>)
    /\ stranded' = (stranded \/ LastClone(p))
    /\ UNCHANGED clones

\* Drop looks at the count before the clone is released.
Drop(p) ==
    /\ Step(p) = "drop"
    /\ overlapped' = (overlapped \/ \E q \in clones \ {p} : Step(q) = "release")
    /\ SpawnFinalizer(p) \/ LetGo(p)
    /\ UNCHANGED <<feedVars, emitterVars, items, sessionVars>>

\* The runtime ends, as main drops it when the session has returned, while the
\* finalizer has not been polled or awaits: its future is dropped with its clone.
RuntimeEnds ==
    /\ todo[Finalizer] = UnexpectedExit \/ Step(Finalizer) \in {"exports", "close"}
    /\ todo' = [todo EXCEPT ![Finalizer] = <<<<"drop">>>>]
    /\ stranded' = TRUE
    /\ UNCHANGED <<feedVars, emitterVars, clones, items, sessionVars, overlapped>>

Release(p) ==
    /\ Step(p) = "release"
    /\ clones' = clones \ {p}
    /\ Then(p, <<>>)
    /\ UNCHANGED <<feedVars, emitterVars, items, sessionVars, dropVars>>

--------------------------------------------------------------------------------

Init ==
    /\ FeedInit
    /\ refused = FALSE /\ gate = Nobody /\ finalized = FALSE /\ taken = FALSE
    /\ exported = [x \in Exporters |-> <<>>]
    /\ clones = {Session} /\ todo = [p \in Owners |-> <<>>] /\ items = Items
    /\ terminalErr = FALSE /\ result = "running" /\ vanishedAt = "nowhere"
    /\ overlapped = FALSE /\ stranded = FALSE

OwnerStep(p) ==
    \/ EmitItem(p) \/ Enter(p) \/ Canonical(p) \/ Export(p)
    \/ Finish(p) \/ FinishExports(p) \/ Close(p) \/ Return(p)
    \/ Drop(p) \/ Release(p)

SessionStep == Complete \/ Fail \/ Notify \/ Vanish

\* The drain of the sink.
DrainStep ==
    /\ Persist
    /\ UNCHANGED <<emitterVars, clones, todo, items, sessionVars, dropVars>>

Next ==
    \/ \E p \in Owners : OwnerStep(p)
    \/ SessionStep
    \/ \E h \in Helpers : Clone(h) \/ DropHelper(h)
    \/ RuntimeEnds
    \/ DrainStep

Spec == Init /\ [][Next]_vars

--------------------------------------------------------------------------------
(* Properties *)

Steps ==
    ({"emit", "canonical", "export"} \X Events) \cup ({"return"} \X {"ok", "err"})
        \cup {<<s>> : s \in {"notify", "finish", "exports", "close", "drop", "release"}}

\* Every variable has its type, and the gate is held by the owner that is in
\* the middle of emit and by nobody else.
TypeOK ==
    /\ feed \in Seq(Events) /\ log \in Seq(Events) /\ outcome \in {"open", "ok", "err"}
    /\ {refused, finalized, taken, terminalErr, overlapped, stranded} \subseteq BOOLEAN
    /\ exported \in [Exporters -> Seq(Events)]
    /\ clones \subseteq Owners /\ items \subseteq Items
    /\ todo \in [Owners -> Seq(Steps)]
    /\ result \in {"running", "completing", "failing", "ok", "err", "vanished"}
    /\ vanishedAt \in {"nowhere", "none", "notify", "exports", "close"}
    /\ gate \in Owners \cup {Nobody}
    /\ \A p \in Owners : Step(p) \in {"canonical", "export"} <=> gate = p

\* "A run may be reported as successful only after its terminal thread.completed
\* event and the canonical drain have completed successfully": no helper that
\* emits until the end, no refusal and no drop of a clone makes it say ok while
\* an event that anybody has emitted is missing from the log.
SuccessIsComplete ==
    result = "ok" => log = feed /\ ~refused /\ \E i \in DOMAIN log : log[i] = Completed

\* An exporter that loses nothing keeps the whole sequence, any other one some
\* of it, in order: at[i] is where in the sequence its i-th event was.
Thinned(some, all) ==
    \E at \in [DOMAIN some -> DOMAIN all] :
        /\ \A i, j \in DOMAIN some : i < j => at[i] < at[j]
        /\ \A i \in DOMAIN some : some[i] = all[at[i]]

\* All consumers are fed while holding one gate: an exporter that loses nothing
\* has seen the canonical events in their order, also those emitted while the
\* run is being finished, and one that does has seen some of them in that order.
ExportersFollow ==
    gate = Nobody =>
        \A x \in Exporters :
            IF x \in Lossy THEN Thinned(exported[x], feed) ELSE exported[x] = feed

\* When the last clone is gone the run has been finalized, also after the
\* session vanished with clones left in tool callbacks.  Three exceptions: two
\* drops that overlapped each counted the other's clone; a finish in whose
\* middle the session vanished is not taken up again; and no runtime was left for
\* the finalizer ("cannot finalize harness after an unexpected session exit
\* without a Tokio runtime"), or it ended under it.
LastOwnerFinalizes ==
    clones = {} => \/ outcome # "open"
                   \/ overlapped \/ stranded \/ vanishedAt \in {"exports", "close"}

\* Once the close of the canonical sink has been answered nobody hands an event to it
\* or closes it again, whichever owner emits, finishes or drops its clone late: what
\* an emit has passed the gate with, finish waits for.
ClosedSinkIsLeftAlone ==
    outcome # "open" => \A p \in Owners : Step(p) \notin {"canonical", "close"}

\* The log holds one thread.completed, unless the session vanished between its
\* own and finish, when the finalizer emits another.
CompletedOnce ==
    vanishedAt # "notify" =>
        Cardinality({i \in DOMAIN feed : feed[i] \in {Completed, Aborted}}) <= 1

================================================================================
