------------------------------- MODULE TurnIndex -------------------------------
(***************************************************************************)
(* The derived metadata of a session event log: the lifecycle state        *)
(* machine that both `append` and `scan` run, the plan of a cap eviction,  *)
(* the checks that let `open` trust persisted metadata, and the recovery   *)
(* of the first retained turn number (event_log.rs of vtcode-memory).      *)
(*                                                                         *)
(* A file is a sequence of records and an offset is a number of records:   *)
(* lengths are only compared with each other, so one record may stand for  *)
(* any number of bytes.  A record that a crash or a failed write left      *)
(* unfinished has kind "torn", or has all its bytes but not its newline    *)
(* (nl = FALSE); the record appended after it continues its line.          *)
(***************************************************************************)
EXTENDS Integers, Sequences

Kinds == {"threadStarted", "threadCompleted", "turnStarted", "turnEnded", "other"}

\* turnEnded is TurnCompleted or TurnFailed.  turn is a history field: the number
\* the live index gave to the turn that a turnStarted record opens.
EventRecords ==
    [id : Nat, kind : Kinds \cup {"torn"}, turn : Nat, nl : BOOLEAN]

\* Turns are numbered from 1.
IndexEntries == [turn : Nat \ {0}, start : Nat, end : Nat, events : Nat]

LogStates ==
    [turnCount : Nat, eventCount : Nat, inTurn : BOOLEAN, base : Nat \ {0},
     status : {"active", "completed"}, offset : Nat, entries : Seq(IndexEntries)]

AtLeast(a, b) == IF a >= b THEN a ELSE b

\* The state a scan starts from, when the first retained turn has this number.
ScanStart(from) ==
    [turnCount |-> from - 1, eventCount |-> 0, inTurn |-> FALSE, base |-> from,
     status |-> "active", offset |-> 0, entries |-> <<>>]

LastEntry(st) == st.entries[Len(st.entries)]

\* An event inside the open turn belongs to the newest index entry.
ExtendTurn(st, end) ==
    IF st.inTurn /\ st.entries # <<>>
      THEN [st EXCEPT !.entries[Len(st.entries)].end = end,
                      !.entries[Len(st.entries)].events = @ + 1]
      ELSE st

OpenTurn(st, start, end) ==
    [st EXCEPT !.status = "active",
               !.inTurn = TRUE,
               !.entries = Append(@, [turn |-> st.turnCount + 1, start |-> start,
                                      end |-> end, events |-> 1])]

EndTurn(st, end) ==
    IF st.inTurn
      THEN [ExtendTurn(st, end) EXCEPT
              !.inTurn = FALSE,
              !.turnCount = IF st.entries = <<>> THEN @
                            ELSE AtLeast(@, LastEntry(st).turn)]
      ELSE st

apply_lifecycle_event(st, kind, start, end) ==
    CASE kind = "threadStarted"   -> [st EXCEPT !.status = "active"]
      [] kind = "threadCompleted" -> [st EXCEPT !.status = "completed"]
      [] kind = "turnStarted"     -> OpenTurn(st, start, end)
      [] kind = "turnEnded"       -> EndTurn(st, end)
      [] OTHER                    -> ExtendTurn(st, end)

IsBoundary(kind) == kind \in {"threadCompleted", "turnEnded"}

-------------------------------------------------------------------------------
(* Reading a file *)

\* A line is one record, or an unfinished record glued to the next one.
Readable(file, i) ==
    /\ file[i].kind # "torn"
    /\ file[i].nl \/ i = Len(file)
    /\ i = 1 \/ file[i - 1].nl

ReadableCount(file) == 
    LET n[i \in 0 .. Len(file)] ==
          IF i = 0 THEN 0 ELSE n[i - 1] + (IF Readable(file, i) THEN 1 ELSE 0)
    IN  n[Len(file)]

\* scan, then next_offset = file_len
Scan(file, from) ==
    LET visit(st, i) ==
          apply_lifecycle_event([st EXCEPT !.eventCount = @ + 1], file[i].kind, i - 1, i)
        after[i \in 0 .. Len(file)] ==
          IF i = 0 THEN ScanStart(from)
          ELSE IF Readable(file, i) THEN visit(after[i - 1], i) ELSE after[i - 1]
    IN  [after[Len(file)] EXCEPT !.offset = Len(file)]

-------------------------------------------------------------------------------
(* Cap eviction *)

\* The active turn is never evicted.
Evictable(st) == Len(st.entries) - (IF st.inTurn THEN 1 ELSE 0)

IndexedEvents(st, k) ==
    LET sum[i \in 0 .. k] == IF i = 0 THEN 0 ELSE sum[i - 1] + st.entries[i].events
    IN  sum[k]

\* Mutant of NeedsEviction: the cap is off by one.
MutNeedsEvictionLate(st, max) == max # 0 /\ st.eventCount > max + 1 /\ Evictable(st) > 0

NeedsEviction(st, max) == max # 0 /\ st.eventCount > max /\ Evictable(st) > 0

\* The oldest turns to remove: as few as bring the count within the cap, or all.
EvictedTurns(st, max) ==
    CHOOSE k \in 1 .. Evictable(st) :
        /\ k = Evictable(st) \/ st.eventCount - IndexedEvents(st, k) <= max
        /\ \A j \in 1 .. k - 1 : st.eventCount - IndexedEvents(st, j) > max

CutOffset(st, max) == st.entries[EvictedTurns(st, max)].end

retained_turn_base_after_eviction(st, k) ==
    IF k < Len(st.entries) THEN st.entries[k + 1].turn ELSE st.turnCount + 1

Minus(a, b) == AtLeast(a - b, 0)

Shifted(entry, cut) == [entry EXCEPT !.start = Minus(@, cut), !.end = Minus(@, cut)]

\* Mutant of apply_cap_eviction: only the events of the evicted turns are
\* subtracted, not those before and between them.
MutApplyIndexedOnly(st, k, cut, evictedEvents, newLen) ==
    [st EXCEPT
        !.entries = [i \in 1 .. Len(@) - k |-> Shifted(@[i + k], cut)],
        !.offset = newLen,
        !.eventCount = Minus(@, IndexedEvents(st, k)),
        !.base = retained_turn_base_after_eviction(st, k)]

apply_cap_eviction(st, k, cut, evictedEvents, newLen) ==
    [st EXCEPT
        !.entries = [i \in 1 .. Len(@) - k |-> Shifted(@[i + k], cut)],
        !.offset = newLen,
        !.eventCount = Minus(@, evictedEvents),
        !.base = retained_turn_base_after_eviction(st, k)]

-------------------------------------------------------------------------------
(* What open may trust *)

CONSTANT Absent      \* a metadata file that does not exist

Manifests ==
    [turnCount : Nat, eventCount : Nat, inTurn : BOOLEAN, base : Nat \ {0},
     status : {"active", "completed"}, len : Nat]

\* The cap rewrite that was going on: what it found and what it was to leave.
Markers == [previousLen : Nat, newLen : Nat, base : Nat \ {0}]

ASSUME AbsentAssumption == Absent \notin Manifests \cup Markers

PersistedManifest(st, len) ==
    [turnCount |-> st.turnCount, eventCount |-> st.eventCount, inTurn |-> st.inTurn,
     base |-> st.base, status |-> st.status, len |-> len]

IndexIsValid(index, len) ==
    \A i \in 1 .. Len(index) :
        /\ index[i].events > 0
        /\ index[i].start >= (IF i = 1 THEN 0 ELSE index[i - 1].end)
        /\ index[i].start <= index[i].end
        /\ index[i].end <= len

IndexMatchesManifest(index, manifest) ==
    LET last == manifest.turnCount + (IF manifest.inTurn THEN 1 ELSE 0)
    IN  /\ \A i \in 2 .. Len(index) : index[i].turn = index[i - 1].turn + 1
        /\ IF index = <<>>
             THEN last = 0 \/ manifest.base > manifest.turnCount
             ELSE index[1].turn = manifest.base /\ index[Len(index)].turn = last

\* Mutant of MarkerMatches: a pending cap rewrite is not looked for.
MutMarkerIgnored(marker, len) == FALSE

MarkerMatches(marker, len) ==
    marker # Absent /\ marker.newLen = len /\ marker.newLen < marker.previousLen

\* Mutant of FastPath: the persisted length is not compared with the file.
MutFastPathAnyLength(manifest, index, marker, len) ==
    /\ manifest # Absent
    /\ index # Absent
    /\ ~MarkerMatches(marker, len)
    /\ IndexIsValid(index, len)
    /\ IndexMatchesManifest(index, manifest)

FastPath(manifest, index, marker, len) ==
    /\ manifest # Absent
    /\ index # Absent
    /\ ~MarkerMatches(marker, len)
    /\ manifest.len = len
    /\ IndexIsValid(index, len)
    /\ IndexMatchesManifest(index, manifest)

LoadPersisted(manifest, index, len) ==
    [turnCount |-> manifest.turnCount, eventCount |-> manifest.eventCount,
     inTurn |-> manifest.inTurn, base |-> manifest.base, status |-> manifest.status,
     offset |-> len, entries |-> index]

\* A manifest longer than the file means that a prefix was removed: the first
\* old entry behind that prefix gives the number of the first retained turn.
RewrittenBases(manifest, index, len) ==
    IF manifest # Absent /\ index # Absent /\ manifest.len > len
       /\ IndexIsValid(index, manifest.len)
      THEN LET removed  == manifest.len - len
               retained == {i \in 1 .. Len(index) : index[i].start >= removed}
           IN  IF retained # {}
                 THEN {index[CHOOSE i \in retained : \A j \in retained : i <= j].turn}
                 ELSE IF len = 0 THEN {manifest.turnCount + 1} ELSE {}
      ELSE {}

infer_scan_turn_base(manifest, index, marker, len) ==
    LET rewritten == RewrittenBases(manifest, index, len)
        base == IF MarkerMatches(marker, len) THEN marker.base
                ELSE IF rewritten # {} THEN CHOOSE b \in rewritten : TRUE
                ELSE IF manifest # Absent THEN manifest.base
                ELSE IF index # Absent /\ index # <<>> /\ IndexIsValid(index, len)
                  THEN index[1].turn
                ELSE 1
    IN  AtLeast(base, 1)

\* What a process that opens the log would work with.
Recovered(file, manifest, index, marker) ==
    IF FastPath(manifest, index, marker, Len(file))
      THEN LoadPersisted(manifest, index, Len(file))
      ELSE Scan(file, infer_scan_turn_base(manifest, index, marker, Len(file)))
===============================================================================
