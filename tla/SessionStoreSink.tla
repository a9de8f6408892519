--------------------------- MODULE SessionStoreSink ---------------------------
(***************************************************************************)
(* The canonical session event sink of                                     *)
(* crates/codegen/vtcode-core/src/core/agent/events/mod.rs.                 *)
(*                                                                         *)
(* Emitters hand events to a bounded channel without blocking; one drain   *)
(* thread appends them to the session event log; close takes the sender    *)
(* away, waits for the drain and reports its health.  Emitters run         *)
(* concurrently: they share the failure flag and the byte budget through   *)
(* atomics and only take the sender lock for the hand-off itself, so every *)
(* atomic access is a step of its own.                                     *)
(*                                                                         *)
(* An event stands for one emission and is emitted at most once.  Cost is  *)
(* what enqueue_session_event reserves for it (twice its serialized size   *)
(* plus the size of the value).                                            *)
(***************************************************************************)
EXTENDS Integers, Sequences, CanonicalStore

CONSTANTS
    Emitters,      \* tasks that hold the sink or a callback on it
    Capacity,      \* SESSION_STORE_DRAIN_CAPACITY
    MaxBytes,      \* SESSION_STORE_DRAIN_MAX_BYTES
    Cost,          \* bytes reserved for each event
    NoEvent        \* an emitter or a drain that holds no event

ASSUME SinkAssumption ==
    /\ Capacity \in Nat \ {0}
    /\ MaxBytes \in Nat \ {0}
    /\ Cost \in [Events -> Nat \ {0}]
    /\ NoEvent \notin Events

VARIABLES
    sender,         \* state.sender is still Some
    failed,         \* health.failed
    reservedBytes,  \* state.reserved_bytes
    queue,          \* the content of the sync_channel
    drain,          \* where drain_session_events stands
    inflight,       \* the event the drain took from the channel
    pc,             \* where each emitter stands in enqueue_session_event
    holding,        \* the event each emitter is emitting
    closing,        \* close_result: "unset", "draining", "ok", "err"; or "dropped"
    accepted,       \* history: events whose emit returned Ok, in order
    refused,        \* history: events whose emit returned Err
    refusedBefore   \* history: refused when close took the handle

sinkVars == <<sender, failed, reservedBytes, queue, drain, inflight, pc,
              holding, closing, accepted, refused, refusedBefore>>
vars == <<sinkVars, storeVars>>

Elements(s) == {s[i] : i \in 1 .. Len(s)}

PrefixOf(s, t) == Len(s) <= Len(t) /\ s = SubSeq(t, 1, Len(s))

TypeOK ==
    /\ StoreTypeOK
    /\ sender \in BOOLEAN
    /\ failed \in BOOLEAN
    /\ reservedBytes \in Int
    /\ queue \in Seq(Events)
    /\ drain \in {"recv", "append", "release", "discard", "flush", "done"}
    /\ inflight \in Events \cup {NoEvent}
    /\ pc \in [Emitters -> {"idle", "checked", "overBudget", "reserved"}]
    /\ holding \in [Emitters -> Events \cup {NoEvent}]
    /\ closing \in {"unset", "draining", "ok", "err", "dropped"}
    /\ accepted \in Seq(Events)
    /\ refused \subseteq Events
    /\ refusedBefore \subseteq Events
    /\ \A p \in Emitters : pc[p] # "idle" => holding[p] \in Events
    /\ drain \in {"append", "release"} => inflight \in Events

Init ==
    /\ StoreInit
    /\ sender = TRUE
    /\ failed = FALSE
    /\ reservedBytes = 0
    /\ queue = <<>>
    /\ drain = "recv"
    /\ inflight = NoEvent
    /\ pc = [p \in Emitters |-> "idle"]
    /\ holding = [p \in Emitters |-> NoEvent]
    /\ closing = "unset"
    /\ accepted = <<>>
    /\ refused = {}
    /\ refusedBefore = {}

-------------------------------------------------------------------------------
(* enqueue_session_event *)

Fresh(e) ==
    /\ e \notin Elements(accepted) \cup refused
    /\ \A p \in Emitters : holding[p] # e

\* Mutant of Refuse: the error path forgets to leave the function.
MutRefuseStays(p) ==
    /\ refused' = refused \cup {holding[p]}
    /\ holding' = [holding EXCEPT ![p] = NoEvent]
    /\ UNCHANGED pc

\* The emitter leaves with an error: it drops the event it was holding.
Refuse(p) ==
    /\ refused' = refused \cup {holding[p]}
    /\ pc' = [pc EXCEPT ![p] = "idle"]
    /\ holding' = [holding EXCEPT ![p] = NoEvent]

\* A sink that has failed refuses at once.
RefuseFailed(p, e) ==
    /\ pc[p] = "idle"
    /\ Fresh(e)
    /\ failed
    /\ refused' = refused \cup {e}
    /\ UNCHANGED <<sender, failed, reservedBytes, queue, drain, inflight, pc,
                   holding, closing, accepted, refusedBefore, storeVars>>

\* The failure flag was read; nothing is shared until the reservation.
CheckHealth(p, e) ==
    /\ pc[p] = "idle"
    /\ Fresh(e)
    /\ ~failed
    /\ pc' = [pc EXCEPT ![p] = "checked"]
    /\ holding' = [holding EXCEPT ![p] = e]
    /\ UNCHANGED <<sender, failed, reservedBytes, queue, drain, inflight,
                   closing, accepted, refused, refusedBefore, storeVars>>

\* The event does not serialize within the budget, or not at all.
RefuseOversize(p) ==
    /\ pc[p] = "checked"
    /\ Cost[holding[p]] > MaxBytes
    /\ failed' = TRUE
    /\ Refuse(p)
    /\ UNCHANGED <<sender, reservedBytes, queue, drain, inflight, closing,
                   accepted, refusedBefore, storeVars>>

\* Mutant of Reserve: the limit is compared with the bytes held before the reservation.
MutReserveLate(p) ==
    /\ pc[p] = "checked"
    /\ Cost[holding[p]] <= MaxBytes
    /\ IF reservedBytes <= MaxBytes
         THEN /\ reservedBytes' = reservedBytes + Cost[holding[p]]
              /\ pc' = [pc EXCEPT ![p] = "reserved"]
         ELSE /\ pc' = [pc EXCEPT ![p] = "overBudget"]
              /\ UNCHANGED reservedBytes
    /\ UNCHANGED <<sender, failed, queue, drain, inflight, holding, closing,
                   accepted, refused, refusedBefore, storeVars>>

\* reserve_bytes: one compare-and-swap over the shared counter.
Reserve(p) ==
    /\ pc[p] = "checked"
    /\ Cost[holding[p]] <= MaxBytes
    /\ IF reservedBytes + Cost[holding[p]] <= MaxBytes
         THEN /\ reservedBytes' = reservedBytes + Cost[holding[p]]
              /\ pc' = [pc EXCEPT ![p] = "reserved"]
         ELSE /\ pc' = [pc EXCEPT ![p] = "overBudget"]
              /\ UNCHANGED reservedBytes
    /\ UNCHANGED <<sender, failed, queue, drain, inflight, holding, closing,
                   accepted, refused, refusedBefore, storeVars>>

\* Mutant of RefuseOverBudget: the refusal is not recorded in the health.
MutRefuseOverBudgetSilent(p) ==
    /\ pc[p] = "overBudget"
    /\ Refuse(p)
    /\ UNCHANGED <<sender, failed, reservedBytes, queue, drain, inflight, closing,
                   accepted, refusedBefore, storeVars>>

RefuseOverBudget(p) ==
    /\ pc[p] = "overBudget"
    /\ failed' = TRUE
    /\ Refuse(p)
    /\ UNCHANGED <<sender, reservedBytes, queue, drain, inflight, closing,
                   accepted, refusedBefore, storeVars>>

\* Mutant of CanSend: close leaves a sender behind.
MutCanSendClosed == drain # "done" /\ Len(queue) < Capacity

\* try_send succeeds: the sender is there, its receiver lives, there is room.
CanSend == sender /\ drain # "done" /\ Len(queue) < Capacity

Send(p) ==
    /\ pc[p] = "reserved"
    /\ CanSend
    /\ queue' = Append(queue, holding[p])
    /\ accepted' = Append(accepted, holding[p])
    /\ pc' = [pc EXCEPT ![p] = "idle"]
    /\ holding' = [holding EXCEPT ![p] = NoEvent]
    /\ UNCHANGED <<sender, failed, reservedBytes, drain, inflight, closing,
                   refused, refusedBefore, storeVars>>

\* Mutant of RefuseSend: the reservation is kept.
MutRefuseSendKeepsBytes(p) ==
    /\ pc[p] = "reserved"
    /\ ~CanSend
    /\ failed' = TRUE
    /\ Refuse(p)
    /\ UNCHANGED <<sender, reservedBytes, queue, drain, inflight, closing, accepted,
                   refusedBefore, storeVars>>

\* The sink was closed, the queue is full, or the drain has gone.
RefuseSend(p) ==
    /\ pc[p] = "reserved"
    /\ ~CanSend
    /\ reservedBytes' = reservedBytes - Cost[holding[p]]
    /\ failed' = TRUE
    /\ Refuse(p)
    /\ UNCHANGED <<sender, queue, drain, inflight, closing, accepted,
                   refusedBefore, storeVars>>

EmitStep(p) ==
    RefuseOversize(p) \/ Reserve(p) \/ RefuseOverBudget(p) \/ Send(p) \/ RefuseSend(p)

Emit(p) == (\E e \in Events : RefuseFailed(p, e) \/ CheckHealth(p, e)) \/ EmitStep(p)

-------------------------------------------------------------------------------
(* drain_session_events *)

Receive ==
    /\ drain = "recv"
    /\ queue # <<>>
    /\ inflight' = Head(queue)
    /\ queue' = Tail(queue)
    /\ drain' = "append"
    /\ UNCHANGED <<sender, failed, reservedBytes, pc, holding, closing,
                   accepted, refused, refusedBefore, storeVars>>

\* Mutant of ReceiveClosed: the drain stops with the channel not yet empty.
MutReceiveClosedEarly ==
    /\ drain = "recv"
    /\ ~sender
    /\ drain' = "flush"
    /\ UNCHANGED <<sender, failed, reservedBytes, queue, inflight, pc, holding,
                   closing, accepted, refused, refusedBefore, storeVars>>

\* recv fails once the only sender is gone and the channel is empty.
ReceiveClosed ==
    /\ drain = "recv"
    /\ queue = <<>>
    /\ ~sender
    /\ drain' = "flush"
    /\ UNCHANGED <<sender, failed, reservedBytes, queue, inflight, pc, holding,
                   closing, accepted, refused, refusedBefore, storeVars>>

DrainAppend ==
    /\ drain = "append"
    /\ AppendOk(inflight)
    /\ drain' = "release"
    /\ UNCHANGED <<sender, failed, reservedBytes, queue, inflight, pc, holding,
                   closing, accepted, refused, refusedBefore>>

ReleaseBytes ==
    /\ drain = "release"
    /\ reservedBytes' = reservedBytes - Cost[inflight]
    /\ inflight' = NoEvent
    /\ drain' = "recv"
    /\ UNCHANGED <<sender, failed, queue, pc, holding, closing, accepted,
                   refused, refusedBefore, storeVars>>

\* Mutants of DrainAppendFails: the drain goes on; the failure is not recorded.
MutDrainGoesOn ==
    /\ drain = "append"
    /\ AppendErr(inflight)
    /\ failed' = TRUE
    /\ reservedBytes' = reservedBytes - Cost[inflight]
    /\ inflight' = NoEvent
    /\ drain' = "recv"
    /\ UNCHANGED <<sender, queue, pc, holding, closing, accepted, refused,
                   refusedBefore>>

MutDrainFailsSilently ==
    /\ drain = "append"
    /\ AppendErr(inflight)
    /\ reservedBytes' = reservedBytes - Cost[inflight]
    /\ inflight' = NoEvent
    /\ drain' = "discard"
    /\ UNCHANGED <<sender, failed, queue, pc, holding, closing, accepted, refused,
                   refusedBefore>>

\* A failed append stops the drain: what is queued is discarded, not appended.
DrainAppendFails ==
    /\ drain = "append"
    /\ AppendErr(inflight)
    /\ failed' = TRUE
    /\ reservedBytes' = reservedBytes - Cost[inflight]
    /\ inflight' = NoEvent
    /\ drain' = "discard"
    /\ UNCHANGED <<sender, queue, pc, holding, closing, accepted, refused,
                   refusedBefore>>

Discard ==
    /\ drain = "discard"
    /\ IF queue = <<>>
         THEN drain' = "flush" /\ UNCHANGED <<queue, reservedBytes>>
         ELSE /\ reservedBytes' = reservedBytes - Cost[Head(queue)]
              /\ queue' = Tail(queue)
              /\ UNCHANGED drain
    /\ UNCHANGED <<sender, failed, inflight, pc, holding, closing, accepted,
                   refused, refusedBefore, storeVars>>

\* Mutant of DrainFlush: the error of the last flush is dropped.
MutDrainFlushIgnored ==
    /\ drain = "flush"
    /\ FlushOk \/ FlushErr
    /\ drain' = "done"
    /\ UNCHANGED <<sender, failed, reservedBytes, queue, inflight, pc, holding, closing,
                   accepted, refused, refusedBefore>>

\* The last flush; then the drain returns and drops the receiver, together
\* with any event sent since the discard loop saw the channel empty.
DrainFlush ==
    /\ drain = "flush"
    /\ \/ FlushOk /\ UNCHANGED failed
       \/ FlushErr /\ failed' = TRUE
    /\ drain' = "done"
    /\ UNCHANGED <<sender, reservedBytes, queue, inflight, pc, holding, closing,
                   accepted, refused, refusedBefore>>

Drain ==
    \/ Receive \/ ReceiveClosed \/ DrainAppend \/ ReleaseBytes
    \/ DrainAppendFails \/ Discard \/ DrainFlush

-------------------------------------------------------------------------------
(* SessionStoreSink::close, SessionStoreSinkHandle::close and Drop *)

\* Mutant of BeginClose: the sender stays where it was.
MutBeginCloseKeepsSender ==
    /\ closing = "unset"
    /\ closing' = "draining"
    /\ refusedBefore' = refused
    /\ UNCHANGED <<sender, failed, reservedBytes, queue, drain, inflight, pc, holding,
                   accepted, refused, storeVars>>

\* The first caller takes the handle, then the sender under its lock.
BeginClose ==
    /\ closing = "unset"
    /\ closing' = "draining"
    /\ sender' = FALSE
    /\ refusedBefore' = refused
    /\ UNCHANGED <<failed, reservedBytes, queue, drain, inflight, pc, holding,
                   accepted, refused, storeVars>>

\* Mutant of EndClose: the health is read before the drain is joined.
MutEndCloseUnjoined ==
    /\ closing = "draining"
    /\ closing' = IF failed THEN "err" ELSE "ok"
    /\ UNCHANGED <<sender, failed, reservedBytes, queue, drain, inflight, pc,
                   holding, accepted, refused, refusedBefore, storeVars>>

\* The drain task was joined: its health decides the result.
EndClose ==
    /\ closing = "draining"
    /\ drain = "done"
    /\ closing' = IF failed THEN "err" ELSE "ok"
    /\ UNCHANGED <<sender, failed, reservedBytes, queue, drain, inflight, pc,
                   holding, accepted, refused, refusedBefore, storeVars>>

\* Mutant of DropSink: dropping the handle does not take the sender.
MutDropSinkKeepsSender ==
    /\ closing = "unset"
    /\ closing' = "dropped"
    /\ UNCHANGED <<sender, failed, reservedBytes, queue, drain, inflight, pc, holding,
                   accepted, refused, refusedBefore, storeVars>>

\* A run that is cancelled drops the sink without closing it.
DropSink ==
    /\ closing = "unset"
    /\ closing' = "dropped"
    /\ sender' = FALSE
    /\ UNCHANGED <<failed, reservedBytes, queue, drain, inflight, pc, holding,
                   accepted, refused, refusedBefore, storeVars>>

Close == BeginClose \/ EndClose \/ DropSink

-------------------------------------------------------------------------------

Next == (\E p \in Emitters : Emit(p)) \/ Drain \/ Close

\* The drain is a thread of the blocking pool, and an emitter that has started
\* enqueue_session_event never awaits: both keep running.  Nothing makes an
\* emitter emit or a run close its sink.
Fairness ==
    /\ WF_vars(Drain)
    /\ WF_vars(EndClose)
    /\ \A p \in Emitters : WF_vars(EmitStep(p))

Spec == Init /\ [][Next]_vars /\ Fairness

-------------------------------------------------------------------------------
(* Properties *)

Feed == INSTANCE DurableFeed WITH
            feed <- accepted,
            log <- SubSeq(stored, 1, durable),
            outcome <- IF closing \in {"ok", "err"} THEN closing ELSE "open"

\* The sink implements the durable feed: queue, drain, budget and close only
\* delay what the feed does in one step.
ImplementsDurableFeed == Feed!FeedSpec

DurableEvents == SubSeq(stored, 1, durable)

\* Once close has answered Ok, the log holds, synced and in the order of
\* acceptance, exactly the events whose emit returned Ok.
OkCloseIsDurable == closing = "ok" => DurableEvents = accepted

\* close answers Ok only if no event had been refused when it was called: a
\* full queue, a full budget or an oversized event fails the run.
OkCloseRefusedNothing == closing = "ok" => refusedBefore = {}

\* The log never holds an event out of order, twice or with an earlier accepted
\* event missing, also after a failed append.
StoredFollowsAccepted == PrefixOf(stored, accepted)

\* A drain that has returned without raising the failure flag has made every
\* accepted event durable, closed or dropped alike.
QuietDrainIsComplete == drain = "done" /\ ~failed => DurableEvents = accepted

\* Where the accepted events are at each stage of the drain: as long as no append
\* has failed, none has left the log, the drain's hand and the channel.
NothingAstray ==
    /\ drain \in {"recv", "release"} => accepted = stored \o queue
    /\ drain = "append" => accepted = Append(stored, inflight) \o queue
    /\ drain = "discard" => failed
    /\ drain = "flush" =>
          failed \/ (queue = <<>> /\ ~sender /\ intact /\ accepted = stored)
    /\ drain = "done" =>
          failed \/ (~sender /\ accepted = stored /\ durable = Len(stored))
    /\ intact \/ failed

\* What has been decided once close was called.
CloseIsFinal ==
    /\ closing # "unset" => ~sender
    /\ refused # {} => failed
    /\ refusedBefore \subseteq refused
    /\ closing \in {"ok", "err"} => drain = "done"
    /\ closing = "ok" =>
          /\ accepted = stored
          /\ durable = Len(stored)
          /\ refusedBefore = {}

\* The inductive invariant behind the safety properties.
SinkInv == TypeOK /\ NothingAstray /\ CloseIsFinal /\ StoredFollowsAccepted

BytesOf(s) ==
    LET sum[n \in 0 .. Len(s)] == IF n = 0 THEN 0 ELSE sum[n - 1] + Cost[s[n]]
    IN  sum[Len(s)]

EventsHeld == {holding[p] : p \in {q \in Emitters : pc[q] = "reserved"}}

\* The budget counts exactly the events between reservation and release: those
\* an emitter is about to send, those in the channel and the one the drain is
\* appending.  (What is left in the channel when the drain returns stays counted.)
BudgetIsExact ==
    LET held[S \in SUBSET EventsHeld] ==
          IF S = {} THEN 0
          ELSE LET e == CHOOSE x \in S : TRUE IN Cost[e] + held[S \ {e}]
    IN  reservedBytes = held[EventsHeld] + BytesOf(queue)
                        + (IF inflight = NoEvent THEN 0 ELSE Cost[inflight])

\* The channel never outgrows its capacity nor the budget.
Bounded == reservedBytes <= MaxBytes /\ Len(queue) <= Capacity

\* close returns: nobody can keep the drain waiting once the sender is gone.
CloseReturns == closing = "draining" ~> closing \in {"ok", "err"}

\* An accepted event is eventually in the log or the sink says that it failed.
AcceptedIsSettled ==
    \A e \in Events : e \in Elements(accepted) ~> (e \in Elements(stored) \/ failed)

\* The drain does not outlive its sink: dropping the sink releases the thread.
DroppedDrainReturns == closing = "dropped" ~> drain = "done"
===============================================================================
