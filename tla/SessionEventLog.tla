---------------------------- MODULE SessionEventLog ----------------------------
(***************************************************************************)
(* The canonical session event log of                                      *)
(* crates/codegen/vtcode-memory/src/event_log.rs with its files: the event  *)
(* file, the manifest, the turn index and the cap-rewrite marker.          *)
(*                                                                         *)
(* Every operation holds eviction_lock from its first to its last write,   *)
(* so operations do not interleave; what interleaves with them is the end  *)
(* of the process, between any two writes or inside one.  An operation is  *)
(* the list of the writes it still has to do (todo); a write that fails    *)
(* ends it.  The client is the drain of SessionStoreSink: after an         *)
(* operation has failed it appends nothing more, flushes and closes.       *)
(***************************************************************************)
EXTENDS TurnIndex, FiniteSets

CONSTANTS
    MaxEvents,     \* the cap of the log; 0 disables it
    MaxAppends,    \* bound: events appended over all processes
    MaxFailures,   \* bound: writes that fail
    MaxOpens       \* bound: processes that open the log

ASSUME LogAssumption ==
    /\ MaxEvents \in Nat
    /\ MaxAppends \in Nat
    /\ MaxFailures \in Nat
    /\ MaxOpens \in Nat

VARIABLES
    \* on disk
    file,          \* events.jsonl
    manifest,      \* manifest.json
    index,         \* index/turns.json
    marker,        \* index/pending-cap-rewrite.json
    \* in the process
    op,            \* "down", "idle", or the running operation: "open", "append",
                   \* "flush", "close"
    todo,          \* the writes that operation has left
    st,            \* LogState without its write buffer
    buffer,        \* write_buf
    fileOpen,      \* the shared file handle is there
    \* bookkeeping
    failed,        \* an operation has failed since the log was opened
    opens, failures, appended,
    synced,        \* history: events written and synced by a flush
    summarised,    \* history: events handed to the eviction summary hook
    durableTurns,  \* history: turns whose end was synced
    taken,         \* history: events of this process that the log has kept, in order
    damaged        \* history: a write was cut short and its remains were left

diskVars == <<file, manifest, index, marker>>
boundVars == <<opens, failures, appended>>
historyVars == <<synced, summarised, durableTurns, taken, damaged>>
vars == <<diskVars, op, todo, st, buffer, fileOpen, failed, boundVars, historyVars>>

Ids(records) == {records[i].id : i \in 1 .. Len(records)}
ReadableIds(records) == {records[i].id : i \in {j \in 1 .. Len(records) : Readable(records, j)}}

TypeOK ==
    /\ file \in Seq(EventRecords)
    /\ buffer \in Seq(EventRecords)
    /\ st \in LogStates
    /\ manifest = Absent \/ manifest \in Manifests
    /\ index = Absent \/ index \in Seq(IndexEntries)
    /\ marker = Absent \/ marker \in Markers
    /\ op \in {"down", "idle", "open", "append", "flush", "close"}
    /\ todo # <<>> => op \notin {"down", "idle"}
    /\ todo \in Seq({"flush_write_buf", "write_index", "write_manifest", "enforce_event_cap",
                     "summary_hook", "write_marker", "replace_file", "clear_marker"})
    /\ fileOpen \in BOOLEAN /\ failed \in BOOLEAN /\ damaged \in BOOLEAN
    /\ opens \in 0 .. MaxOpens /\ failures \in 0 .. MaxFailures /\ appended \in 0 .. MaxAppends
    /\ synced \cup summarised \subseteq 1 .. appended
    /\ durableTurns \in Nat /\ taken \in Seq(1 .. appended)

Init ==
    /\ file = <<>> /\ manifest = Absent /\ index = Absent /\ marker = Absent
    /\ op = "down" /\ todo = <<>> /\ st = ScanStart(1) /\ buffer = <<>>
    /\ fileOpen = FALSE /\ failed = FALSE
    /\ opens = 0 /\ failures = 0 /\ appended = 0
    /\ synced = {} /\ summarised = {} /\ durableTurns = 0 /\ taken = <<>> /\ damaged = FALSE

-------------------------------------------------------------------------------
(* Operations *)

persist_meta == <<"flush_write_buf", "write_index", "write_manifest">>

\* Metadata that describes the file is taken over; otherwise the file is scanned
\* and the metadata written again.  A marker is read first and cleared last.
Open ==
    /\ op = "down"
    /\ opens < MaxOpens
    /\ opens' = opens + 1
    /\ st' = Recovered(file, manifest, index, marker)
    /\ todo' = (IF FastPath(manifest, index, marker, Len(file)) THEN <<>> ELSE persist_meta)
               \o (IF marker # Absent THEN <<"clear_marker">> ELSE <<>>)
    /\ op' = "open"
    /\ buffer' = <<>>
    /\ fileOpen' = TRUE
    /\ failed' = FALSE
    /\ UNCHANGED <<diskVars, failures, appended, historyVars>>

\* The event goes to the buffer; a turn boundary persists, and so does an event
\* that fills the buffer (MAX_WRITE_BUFFER_BYTES), whatever its kind.  The emitter
\* of a run is finished after thread.completed, the next run starts its thread.
append(kind) ==
    /\ op = "idle"
    /\ ~failed
    /\ appended < MaxAppends
    /\ st.status = "completed" => kind \in {"threadStarted", "other"}
    /\ appended' = appended + 1
    /\ LET end    == st.offset + 1
           counted == [st EXCEPT !.eventCount = @ + 1, !.offset = end]
           turn   == IF kind = "turnStarted" THEN st.turnCount + 1 ELSE 0
       IN  /\ st' = apply_lifecycle_event(counted, kind, st.offset, end)
           /\ buffer' = Append(buffer, [id |-> appended', kind |-> kind, turn |-> turn, nl |-> TRUE])
    /\ \/ IsBoundary(kind) /\ todo' = persist_meta \o <<"enforce_event_cap">>
       \/ ~IsBoundary(kind) /\ todo' = <<"enforce_event_cap">>
       \/ ~IsBoundary(kind) /\ todo' = persist_meta \o <<"enforce_event_cap">>
    /\ op' = "append"
    /\ taken' = Append(taken, appended')
    /\ UNCHANGED <<diskVars, fileOpen, failed, opens, failures, synced, summarised,
                   durableTurns, damaged>>

flush ==
    /\ op = "idle"
    /\ op' = "flush"
    /\ todo' = persist_meta
    /\ UNCHANGED <<diskVars, st, buffer, fileOpen, failed, boundVars, historyVars>>

\* Drop: the bytes are flushed on a best-effort basis, the metadata is not.
Drop ==
    /\ op = "idle"
    /\ op' = "close"
    /\ todo' = <<"flush_write_buf">>
    /\ UNCHANGED <<diskVars, st, buffer, fileOpen, failed, boundVars, historyVars>>

\* What is left of the process when the log is closed or the process dies.
Gone ==
    /\ op' = "down"
    /\ todo' = <<>>
    /\ st' = ScanStart(1)
    /\ buffer' = <<>>
    /\ fileOpen' = FALSE
    /\ failed' = FALSE
    /\ taken' = <<>>

Return ==
    /\ op \notin {"down", "idle"}
    /\ todo = <<>>
    /\ IF op = "close"
         THEN Gone
         ELSE op' = "idle" /\ UNCHANGED <<todo, st, buffer, fileOpen, failed, taken>>
    /\ UNCHANGED <<diskVars, boundVars, synced, summarised, durableTurns, damaged>>

-------------------------------------------------------------------------------
(* Writes *)

Step(name) == todo # <<>> /\ Head(todo) = name

Done == todo' = Tail(todo) /\ UNCHANGED <<op, failed, boundVars>>

\* Mutant of Fail: the remaining writes of the failed operation stay scheduled.
MutFailGoesOn ==
    /\ failures < MaxFailures
    /\ failures' = failures + 1
    /\ UNCHANGED <<opens, appended>>
    /\ IF op \in {"open", "close"}
         THEN Gone
         ELSE /\ op' = "idle"
              /\ todo' = Tail(todo)
              /\ failed' = TRUE

\* The operation returns its error; an open that fails yields no log.
Fail ==
    /\ failures < MaxFailures
    /\ failures' = failures + 1
    /\ UNCHANGED <<opens, appended>>
    /\ IF op \in {"open", "close"}
         THEN Gone
         ELSE /\ op' = "idle"
              /\ todo' = <<>>
              /\ failed' = TRUE

\* The remains of a write of these records that stopped part of the way.
CutShort(records) ==
    {SubSeq(records, 1, n) : n \in 0 .. Len(records)}
    \cup {Append(SubSeq(records, 1, n),
                 [records[n + 1] EXCEPT !.nl = FALSE]) : n \in 0 .. Len(records) - 1}
    \cup {Append(SubSeq(records, 1, n),
                 [records[n + 1] EXCEPT !.nl = FALSE, !.kind = "torn"]) : n \in 0 .. Len(records) - 1}

\* Mutant of flush_write_buf: one write call instead of write_all.
MutWriteOnce ==
    /\ Step("flush_write_buf")
    /\ \/ /\ buffer = <<>>
          /\ Done
          /\ UNCHANGED <<file, buffer, synced, durableTurns>>
       \/ /\ buffer # <<>>
          /\ fileOpen
          /\ file' = Append(file, buffer[1])
          /\ synced' = synced \cup {buffer[1].id}
          /\ durableTurns' = AtLeast(durableTurns, st.turnCount)
          /\ buffer' = <<>>
          /\ Done
    /\ UNCHANGED <<manifest, index, marker, st, fileOpen, summarised, taken, damaged>>

flush_write_buf ==
    /\ Step("flush_write_buf")
    /\ \/ /\ buffer = <<>>
          /\ Done
          /\ UNCHANGED <<file, buffer, synced, durableTurns>>
       \/ /\ buffer # <<>>
          /\ fileOpen
          /\ file' = file \o buffer
          /\ synced' = synced \cup Ids(buffer)
          /\ durableTurns' = AtLeast(durableTurns, st.turnCount)
          /\ buffer' = <<>>
          /\ Done
    /\ UNCHANGED <<manifest, index, marker, st, fileOpen, summarised, taken, damaged>>

\* The write fails and set_len takes it back: the buffer is kept for a retry.
\* Without a file handle nothing is written at all.
flush_write_buf_rolled_back ==
    /\ Step("flush_write_buf")
    /\ buffer # <<>>
    /\ Fail
    /\ op' # "down" => UNCHANGED <<st, buffer, fileOpen, taken>>
    /\ UNCHANGED <<diskVars, synced, summarised, durableTurns, damaged>>

\* The write fails, and set_len too: what was written stays, the rest is dropped.
flush_write_buf_not_rolled_back ==
    /\ Step("flush_write_buf")
    /\ buffer # <<>>
    /\ fileOpen
    /\ Fail
    /\ \E part \in CutShort(buffer) \ {buffer} :
          /\ file' = file \o part
          /\ op' # "down" =>
                /\ buffer' = <<>>
                /\ taken' = SubSeq(taken, 1, Len(taken) - (Len(buffer) - ReadableCount(part)))
                /\ UNCHANGED <<st, fileOpen>>
    /\ damaged' = TRUE
    /\ UNCHANGED <<manifest, index, marker, synced, summarised, durableTurns>>

\* Mutant of flush_write_buf_unsynced: the buffer is kept, and written again.
MutUnsyncedKeepsBuffer ==
    /\ Step("flush_write_buf")
    /\ buffer # <<>>
    /\ fileOpen
    /\ Fail
    /\ file' = file \o buffer
    /\ op' # "down" => UNCHANGED <<st, buffer, fileOpen, taken>>
    /\ UNCHANGED <<manifest, index, marker, synced, summarised, durableTurns, damaged>>

\* sync_data fails: the bytes are in the file, nobody knows whether on the disk.
flush_write_buf_unsynced ==
    /\ Step("flush_write_buf")
    /\ buffer # <<>>
    /\ fileOpen
    /\ Fail
    /\ file' = file \o buffer
    /\ op' # "down" => buffer' = <<>> /\ UNCHANGED <<st, fileOpen, taken>>
    /\ UNCHANGED <<manifest, index, marker, synced, summarised, durableTurns, damaged>>

write_turn_index ==
    /\ Step("write_index")
    /\ index' = st.entries
    /\ Done
    /\ UNCHANGED <<file, manifest, marker, st, buffer, fileOpen, historyVars>>

write_manifest ==
    /\ Step("write_manifest")
    /\ manifest' = PersistedManifest(st, st.offset)
    /\ Done
    /\ UNCHANGED <<file, index, marker, st, buffer, fileOpen, historyVars>>

\* The plan is made once the event is in; nothing changes it before it is applied.
enforce_event_cap ==
    /\ Step("enforce_event_cap")
    /\ todo' = IF NeedsEviction(st, MaxEvents)
                 THEN <<"flush_write_buf", "summary_hook", "write_marker", "replace_file",
                        "write_index", "write_manifest", "clear_marker">>
                 ELSE <<>>
    /\ UNCHANGED <<diskVars, op, st, buffer, fileOpen, failed, boundVars, historyVars>>

Cut == CutOffset(st, MaxEvents)
EvictedRecords == SubSeq(file, 1, Cut)
Remaining == SubSeq(file, Cut + 1, Len(file))

\* Mutant of summary_hook: only the events of the evicted turns are handed over.
MutSummaryOfTurns ==
    /\ Step("summary_hook")
    /\ fileOpen
    /\ Cut <= Len(file)
    /\ summarised' = summarised \cup
          ReadableIds(SubSeq(EvictedRecords, st.entries[1].start + 1, Cut))
    /\ Done
    /\ UNCHANGED <<diskVars, st, buffer, fileOpen, synced, durableTurns, taken, damaged>>

summary_hook ==
    /\ Step("summary_hook")
    /\ fileOpen
    /\ Cut <= Len(file)
    /\ summarised' = summarised \cup ReadableIds(EvictedRecords)
    /\ Done
    /\ UNCHANGED <<diskVars, st, buffer, fileOpen, synced, durableTurns, taken, damaged>>

write_pending_cap_rewrite ==
    /\ Step("write_marker")
    /\ marker' = [previousLen |-> Len(file), newLen |-> Len(Remaining),
                  base |-> retained_turn_base_after_eviction(st, EvictedTurns(st, MaxEvents))]
    /\ Done
    /\ UNCHANGED <<file, manifest, index, st, buffer, fileOpen, historyVars>>

replace_event_file_contents ==
    /\ Step("replace_file")
    /\ file' = Remaining
    /\ st' = apply_cap_eviction(st, EvictedTurns(st, MaxEvents), Cut,
                                ReadableCount(EvictedRecords), Len(Remaining))
    /\ Done
    /\ UNCHANGED <<manifest, index, marker, buffer, fileOpen, historyVars>>

\* The old handle was dropped before the rewrite: when the rewrite fails, or the
\* new file cannot be opened, the log may be left without a handle.
replace_event_file_contents_fails ==
    /\ Step("replace_file")
    /\ Fail
    /\ \/ UNCHANGED file /\ fileOpen' \in BOOLEAN
       \/ file' = Remaining /\ fileOpen' = FALSE
    /\ UNCHANGED <<manifest, index, marker, st, buffer, historyVars>>

clear_pending_cap_rewrite ==
    /\ Step("clear_marker")
    /\ marker' = Absent
    /\ Done
    /\ UNCHANGED <<file, manifest, index, st, buffer, fileOpen, historyVars>>

\* The atomic writes of the other files, and the hook, fail without effect.
WriteFails ==
    /\ \E name \in {"write_index", "write_manifest", "summary_hook", "write_marker",
                    "clear_marker"} : Step(name)
    /\ Fail
    /\ op' # "down" => UNCHANGED <<st, buffer, fileOpen, taken>>
    /\ UNCHANGED <<diskVars, synced, summarised, durableTurns, damaged>>

Write ==
    \/ flush_write_buf \/ flush_write_buf_rolled_back \/ flush_write_buf_not_rolled_back
    \/ flush_write_buf_unsynced \/ write_turn_index \/ write_manifest \/ enforce_event_cap
    \/ summary_hook \/ write_pending_cap_rewrite \/ replace_event_file_contents
    \/ replace_event_file_contents_fails \/ clear_pending_cap_rewrite \/ WriteFails

\* The process dies, possibly within the write of the buffer.
Crash ==
    /\ op # "down"
    /\ Gone
    /\ IF Step("flush_write_buf") /\ fileOpen /\ buffer # <<>>
         THEN \E part \in CutShort(buffer) :
                /\ file' = file \o part
                /\ damaged' = (damaged \/ (part # <<>> /\ ~part[Len(part)].nl))
         ELSE UNCHANGED <<file, damaged>>
    /\ UNCHANGED <<manifest, index, marker, boundVars, synced, summarised, durableTurns>>

Next ==
    \/ Open \/ (\E kind \in Kinds : append(kind)) \/ flush \/ Drop \/ Return
    \/ Write \/ Crash

Spec == Init /\ [][Next]_vars

-------------------------------------------------------------------------------
(* Properties *)

Settled == op = "idle" /\ fileOpen /\ ~damaged

\* The turn index and the counters that append maintains, through every eviction
\* and every failed write, are those that a scan of the same records would find.
LiveMatchesScan == Settled => st = Scan(file \o buffer, st.base)

\* Whenever the process dies, metadata that open trusts tells what a scan of the
\* event file would tell.
FastPathIsExact ==
    ~damaged /\ FastPath(manifest, index, marker, Len(file)) =>
        LoadPersisted(manifest, index, Len(file))
          = Scan(file, infer_scan_turn_base(manifest, index, marker, Len(file)))

RecoveredNow == Recovered(file, manifest, index, marker)

\* Whenever the process dies, also within a cap rewrite, every turn in the file
\* keeps the number it was given when it started, and the numbers of turns that
\* were completed and synced, evicted ones included, are not given out again.
RecoveryKeepsTurnNumbers ==
    ~damaged =>
        /\ RecoveredNow.turnCount >= durableTurns
        /\ \A i \in 1 .. Len(RecoveredNow.entries) :
              LET entry == RecoveredNow.entries[i]
              IN  file[entry.start + 1].turn = entry.turn

\* Synced events leave the file only after the summary hook has seen them.
SyncedIsKeptOrSummarised == ~damaged => synced \subseteq ReadableIds(file) \cup summarised

\* However writes fail and are retried, no event is in the file or the buffer twice
\* or out of order.
EachEventOnce ==
    LET records == file \o buffer
    IN  \A i \in 2 .. Len(records) : records[i - 1].id < records[i].id

\* Each process sees the log that SessionStoreSink is specified against.
Store == INSTANCE CanonicalStore WITH
            Events <- 1 .. MaxAppends,
            stored <- taken,
            durable <- Cardinality({i \in 1 .. Len(taken) : taken[i] \in synced}),
            intact <- ~failed

ImplementsCanonicalStore ==
    [][op # "down" /\ op' # "down" => Store!StoreNext]_(Store!storeVars)

\* After a successful append the log is within its cap, unless only the active
\* turn and events outside any turn are left.
CapHolds ==
    op = "append" /\ todo = <<>> /\ ~damaged /\ MaxEvents # 0 =>
        st.eventCount <= MaxEvents \/ Evictable(st) = 0

\* Documented, and not what the code does: a synced event is in the log.  The
\* record appended after an unfinished one shares its line, and both are skipped.
SyncedIsReadable == synced \subseteq ReadableIds(file) \cup summarised

\* Documented, and not what the code does: looking a turn up by its number, in the
\* first index entry that has it, finds every turn that was started under it.
ReconstructsEveryTurn ==
    op = "idle" =>
        \A i, j \in 1 .. Len(st.entries) : st.entries[i].turn = st.entries[j].turn => i = j

===============================================================================
