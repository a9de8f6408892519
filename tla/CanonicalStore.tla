---------------------------- MODULE CanonicalStore ----------------------------
(***************************************************************************)
(* What one handle of the session event log promises to the thread that    *)
(* appends to it: crates/codegen/vtcode-memory/src/event_log.rs seen       *)
(* through `append` and `flush` only.  The log keeps recent events in a    *)
(* write buffer and makes them durable when it chooses to (turn boundary,  *)
(* full buffer, cap eviction) or when it is asked to (flush).              *)
(* SessionStoreSink uses this contract.                                    *)
(***************************************************************************)
EXTENDS Naturals, Sequences

CONSTANT Events        \* the emissions; each one is appended at most once

VARIABLES
    stored,            \* every event the log has taken in, buffered or written
    durable,           \* how many of them are written and synced
    intact             \* no append has failed yet

storeVars == <<stored, durable, intact>>

StoreTypeOK ==
    /\ stored \in Seq(Events)
    /\ durable \in Nat
    /\ durable <= Len(stored)
    /\ intact \in BOOLEAN

StoreInit ==
    /\ stored = <<>>
    /\ durable = 0
    /\ intact = TRUE

\* The event is in the buffer or in the file; the append may also have flushed.
AppendOk(e) ==
    /\ stored' = Append(stored, e)
    /\ durable' \in durable .. Len(stored')
    /\ UNCHANGED intact

\* A failed append keeps the event in the buffer (the write was rolled back, or
\* the failure came after the write), or never takes it (serialization), or
\* loses unsynced events with the buffer it clears; it never touches what was
\* already synced.
AppendErr(e) ==
    /\ \E kept \in durable .. Len(stored) + 1 :
          stored' = SubSeq(Append(stored, e), 1, kept)
    /\ durable' \in durable .. Len(stored')
    /\ intact' = FALSE

\* A flush that succeeds syncs everything, unless an earlier failure left
\* written but unsynced bytes outside the buffer.
FlushOk ==
    /\ durable' \in durable .. Len(stored)
    /\ intact => durable' = Len(stored)
    /\ UNCHANGED <<stored, intact>>

FlushErr ==
    /\ \E kept \in durable .. Len(stored) : stored' = SubSeq(stored, 1, kept)
    /\ durable' \in durable .. Len(stored')
    /\ intact' = FALSE

StoreNext ==
    \/ \E e \in Events : AppendOk(e) \/ AppendErr(e)
    \/ FlushOk
    \/ FlushErr

StoreSpec == StoreInit /\ [][StoreNext]_storeVars
===============================================================================
