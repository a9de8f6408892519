------------------------- MODULE SessionEventLogProofs -------------------------
(***************************************************************************)
(* Proofs about SessionEventLog, for every cap and every number of events, *)
(* failures and processes.  LogInv is the inductive invariant: the types,  *)
(* the writes that an operation has left and what they presuppose, the     *)
(* order of the events, the part of the file that the summary hook has     *)
(* seen, and where the synced events are.  StoreInv adds what a process    *)
(* knows of the events it has handed in; with it every step of the log is  *)
(* a step of CanonicalStore.  MetaInv is inductive relative to LogInv and  *)
(* says what the manifest, the index and the marker tell of the event file *)
(* between any two writes; it rests on two facts about a scan: append does *)
(* what a scan does at one more record (ScanAppend), and a cap eviction    *)
(* leaves what a scan finds in the rest of the file (EvictionIsScan).      *)
(* Last comes when a turn can be looked up by its number: where turns do   *)
(* not overlap (Rising, an invariant of the scan).                         *)
(*                                                                         *)
(* The recursive functions of TurnIndex (a scan, a count, a sum) are met   *)
(* through the functions that satisfy their equations; these exist by      *)
(* induction over a set of naturals (EveryNatural).                        *)
(***************************************************************************)
EXTENDS SessionEventLog, SequenceTheorems, FiniteSetTheorems, WellFoundedInduction, TLAPS

\* Induction over the naturals, for a set rather than for a predicate.
LEMMA EveryNatural ==
    ASSUME NEW S \in SUBSET Nat, 0 \in S, \A n \in S : n + 1 \in S
    PROVE  S = Nat
<1> DEFINE T == Nat \ S
           R == OpToRel(<, Nat)
<1>1. SUFFICES ASSUME T # {} PROVE FALSE
  OBVIOUS
<1>2. IsWellFoundedOn(R, Nat) /\ T \subseteq Nat
  BY NatLessThanWellFounded
<1>3. \A x, y \in Nat : y < x => <<y, x>> \in R
  BY DEF OpToRel
<1> HIDE DEF R
<1>4. PICK x \in T : \A y \in T : ~ (<<y, x>> \in R)
  BY <1>1, <1>2, WFMin
<1>5. x # 0 /\ x \in Nat /\ x - 1 \in Nat /\ (x - 1) + 1 = x /\ x - 1 < x
  OBVIOUS
<1>6. <<x - 1, x>> \in R
  BY <1>3, <1>5
<1>7. x - 1 \notin T
  BY <1>4, <1>6
<1>8. x - 1 \in S
  BY <1>5, <1>7
<1>9. x \in S
  BY <1>5, <1>8
<1> QED
  BY <1>9

\* A set of naturals that is not empty has a least member.
LEMMA LeastNatural ==
    ASSUME NEW S \in SUBSET Nat, S # {}
    PROVE  \E k \in S : \A j \in S : k <= j
<1> DEFINE R == OpToRel(<, Nat)
<1>1. IsWellFoundedOn(R, Nat)
  BY NatLessThanWellFounded
<1>2. \A x, y \in Nat : y < x => <<y, x>> \in R
  BY DEF OpToRel
<1> HIDE DEF R
<1>3. PICK k \in S : \A j \in S : ~ (<<j, k>> \in R)
  BY <1>1, WFMin
<1>4. ASSUME NEW j \in S PROVE k <= j
  <2>1. ~ (j < k)
    BY <1>2, <1>3
  <2> QED
    BY <2>1
<1> QED
  BY <1>4

-------------------------------------------------------------------------------
(* The types of the derived metadata *)

\* A scan starts from a state of the log.
LEMMA ScanStartType ==
    ASSUME NEW from \in Nat \ {0}
    PROVE  ScanStart(from) \in LogStates
<1>1. <<>> \in Seq(IndexEntries)
  BY EmptySeq
<1> QED
  BY <1>1 DEF ScanStart, LogStates

\* The larger of two numbers.
LEMMA AtLeastType ==
    ASSUME NEW a \in Int, NEW b \in Int
    PROVE  AtLeast(a, b) \in {a, b} /\ AtLeast(a, b) >= a /\ AtLeast(a, b) >= b
BY DEF AtLeast

\* An event inside a turn changes the newest index entry, and nothing else.
LEMMA ExtendedTurn ==
    ASSUME NEW s \in LogStates, NEW end, s.inTurn, s.entries # <<>>
    PROVE  ExtendTurn(s, end) =
             [s EXCEPT !.entries =
                [s.entries EXCEPT ![Len(s.entries)] =
                   [s.entries[Len(s.entries)] EXCEPT !.end = end, !.events = @ + 1]]]
<1> DEFINE n == Len(s.entries)
           e == s.entries[n]
           ends == [e EXCEPT !.end = end]
           es == [s.entries EXCEPT ![n] = ends]
           x == [s EXCEPT !.entries = es]
<1>1. s.entries \in Seq(IndexEntries) /\ n \in DOMAIN s.entries /\ e \in IndexEntries
  <2>1. s.entries \in Seq(IndexEntries) /\ n \in Nat
    BY LenProperties DEF LogStates
  <2>2. n \in 1 .. n
    BY <2>1, EmptySeq
  <2> QED
    BY <2>1, <2>2, LenProperties, ElementOfSeq
<1>2. ExtendTurn(s, end) = [x EXCEPT !.entries[n].events = @ + 1]
  BY DEF ExtendTurn
<1>3. x.entries = es
  BY DEF LogStates
<1>4. es[n] = ends /\ ends.events = e.events
  BY <1>1 DEF IndexEntries
<1> DEFINE fs == [es EXCEPT ![n] = [ends EXCEPT !.events = e.events + 1]]
<1>5. ExtendTurn(s, end) = [x EXCEPT !.entries = fs]
  BY <1>2, <1>3, <1>4
<1>6. fs = [s.entries EXCEPT ![n] = [e EXCEPT !.end = end, !.events = @ + 1]]
  <2>1. [ends EXCEPT !.events = e.events + 1] = [e EXCEPT !.end = end, !.events = @ + 1]
    BY <1>4
  <2> HIDE DEF ends
  <2> QED
    BY <1>1, <2>1
<1> HIDE DEF es, fs
<1>7. [x EXCEPT !.entries = fs] = [s EXCEPT !.entries = fs]
  BY DEF LogStates
<1> QED
  BY <1>5, <1>6, <1>7

\* An event inside a turn leaves a state of the log.
LEMMA ExtendTurnType ==
    ASSUME NEW s \in LogStates, NEW end \in Nat
    PROVE  /\ ExtendTurn(s, end) \in LogStates
           /\ Len(ExtendTurn(s, end).entries) = Len(s.entries)
<1> DEFINE n == Len(s.entries)
<1>1. s.entries \in Seq(IndexEntries) /\ n \in Nat
  BY LenProperties DEF LogStates
<1>2. CASE s.inTurn /\ s.entries # <<>>
  <2>1. n \in 1 .. n
    BY <1>1, <1>2, EmptySeq
  <2>2. s.entries[n] \in IndexEntries
    BY <1>1, <2>1, ElementOfSeq
  <2> DEFINE e == [s.entries[n] EXCEPT !.end = end, !.events = @ + 1]
  <2>3. e \in IndexEntries
    <3>1. s.entries[n].events \in Nat /\ s.entries[n].events + 1 \in Nat
      BY <2>2 DEF IndexEntries
    <3> QED
      BY <2>2, <3>1 DEF IndexEntries
  <2>4. /\ [s.entries EXCEPT ![n] = e] \in Seq(IndexEntries)
        /\ Len([s.entries EXCEPT ![n] = e]) = n
    BY <1>1, <2>1, <2>3, ExceptSeq
  <2>5. ExtendTurn(s, end) = [s EXCEPT !.entries = [s.entries EXCEPT ![n] = e]]
    BY <1>2, ExtendedTurn
  <2> HIDE DEF e
  <2> QED
    BY <2>4, <2>5 DEF LogStates
<1>3. CASE ~(s.inTurn /\ s.entries # <<>>)
  BY <1>3 DEF ExtendTurn
<1> QED
  BY <1>2, <1>3

\* So does the start of a turn,
LEMMA OpenTurnType ==
    ASSUME NEW s \in LogStates, NEW start \in Nat, NEW end \in Nat
    PROVE  OpenTurn(s, start, end) \in LogStates
<1> DEFINE e == [turn |-> s.turnCount + 1, start |-> start, end |-> end, events |-> 1]
<1>1. e \in IndexEntries /\ s.entries \in Seq(IndexEntries)
  BY DEF IndexEntries, LogStates
<1> HIDE DEF e
<1>2. Append(s.entries, e) \in Seq(IndexEntries)
  BY <1>1, AppendProperties
<1>3. OpenTurn(s, start, end) =
        [s EXCEPT !.status = "active", !.inTurn = TRUE, !.entries = Append(s.entries, e)]
  BY DEF OpenTurn, LogStates, e
<1> QED
  BY <1>2, <1>3 DEF LogStates

\* and its end,
LEMMA EndTurnType ==
    ASSUME NEW s \in LogStates, NEW end \in Nat
    PROVE  EndTurn(s, end) \in LogStates
<1> DEFINE t == ExtendTurn(s, end)
           count == IF s.entries = <<>> THEN t.turnCount ELSE AtLeast(t.turnCount, LastEntry(s).turn)
<1>1. t \in LogStates
  BY ExtendTurnType
<1>2. count \in Nat
  <2>1. t.turnCount \in Nat /\ s.entries \in Seq(IndexEntries)
    BY <1>1 DEF LogStates
  <2>2. CASE s.entries # <<>>
    <3>1. Len(s.entries) \in 1 .. Len(s.entries)
      BY <2>1, <2>2, EmptySeq
    <3>2. LastEntry(s) \in IndexEntries
      BY <2>1, <3>1, ElementOfSeq DEF LastEntry
    <3>3. LastEntry(s).turn \in Nat
      BY <3>2 DEF IndexEntries
    <3> QED
      BY <2>1, <3>3 DEF AtLeast
  <2> QED
    BY <2>1, <2>2
<1>3. EndTurn(s, end) = IF s.inTurn THEN [t EXCEPT !.inTurn = FALSE, !.turnCount = count] ELSE s
  BY <1>1 DEF EndTurn, LogStates
<1> HIDE DEF t, count
<1> QED
  BY <1>1, <1>2, <1>3 DEF LogStates

\* and whatever else is appended or scanned.
LEMMA LifecycleType ==
    ASSUME NEW s \in LogStates, NEW kind, NEW start \in Nat, NEW end \in Nat
    PROVE  apply_lifecycle_event(s, kind, start, end) \in LogStates
<1>1. [s EXCEPT !.status = "active"] \in LogStates
  BY DEF LogStates
<1>2. [s EXCEPT !.status = "completed"] \in LogStates
  BY DEF LogStates
<1>3. ExtendTurn(s, end) \in LogStates
  BY ExtendTurnType
<1>4. OpenTurn(s, start, end) \in LogStates
  BY OpenTurnType
<1>5. EndTurn(s, end) \in LogStates
  BY EndTurnType
<1> QED
  BY <1>1, <1>2, <1>3, <1>4, <1>5 DEF apply_lifecycle_event

-------------------------------------------------------------------------------
(* What a scan computes *)

Visit(s, kind, i) ==
    apply_lifecycle_event([s EXCEPT !.eventCount = @ + 1], kind, i - 1, i)

\* The states of a scan, one behind each record.
Scanned(f, from, a) ==
    /\ a \in [0 .. Len(f) -> LogStates]
    /\ a[0] = ScanStart(from)
    /\ \A i \in 1 .. Len(f) :
          a[i] = IF Readable(f, i) THEN Visit(a[i - 1], f[i].kind, i) ELSE a[i - 1]

\* Visiting a record leaves a state of the log.
LEMMA VisitType ==
    ASSUME NEW s \in LogStates, NEW kind, NEW i \in Nat \ {0}
    PROVE  Visit(s, kind, i) \in LogStates
<1>1. [s EXCEPT !.eventCount = @ + 1] \in LogStates
  <2>1. s.eventCount + 1 \in Nat
    BY DEF LogStates
  <2> QED
    BY <2>1 DEF LogStates
<1>2. i - 1 \in Nat /\ i \in Nat
  OBVIOUS
<1> QED
  BY <1>1, <1>2, LifecycleType DEF Visit

\* The states of a scan exist, record by record.
LEMMA ScannedExists ==
    ASSUME NEW f, Len(f) \in Nat, NEW from \in Nat \ {0}
    PROVE  \E a : Scanned(f, from, a)
<1> DEFINE Upto(k, a) == /\ a \in [0 .. k -> LogStates]
                         /\ a[0] = ScanStart(from)
                         /\ \A i \in 1 .. k :
                               a[i] = IF Readable(f, i) THEN Visit(a[i - 1], f[i].kind, i)
                                                        ELSE a[i - 1]
           S == {k \in Nat : \E a : Upto(k, a)}
<1>1. 0 \in S
  <2>1. Upto(0, [i \in 0 .. 0 |-> ScanStart(from)])
    BY ScanStartType
  <2> QED
    BY <2>1
<1>2. ASSUME NEW k \in S PROVE k + 1 \in S
  <2>1. k \in Nat
    OBVIOUS
  <2>2. PICK a : Upto(k, a)
    OBVIOUS
  <2> DEFINE next == IF Readable(f, k + 1) THEN Visit(a[k], f[k + 1].kind, k + 1) ELSE a[k]
             b == [i \in 0 .. k + 1 |-> IF i = k + 1 THEN next ELSE a[i]]
  <2>3. next \in LogStates
    <3>1. a[k] \in LogStates /\ k + 1 \in Nat \ {0}
      BY <2>1, <2>2
    <3> QED
      BY <3>1, VisitType
  <2>4. b \in [0 .. k + 1 -> LogStates] /\ b[0] = ScanStart(from)
    <3> HIDE DEF next
    <3> QED
      BY <2>1, <2>2, <2>3
  <2>5. ASSUME NEW i \in 1 .. k + 1
        PROVE  b[i] = IF Readable(f, i) THEN Visit(b[i - 1], f[i].kind, i) ELSE b[i - 1]
    <3>1. CASE i = k + 1
      <4>1. i - 1 = k /\ b[k] = a[k] /\ b[i] = next
        BY <2>1, <3>1
      <4> HIDE DEF b
      <4> QED
        BY <3>1, <4>1
    <3>2. CASE i \in 1 .. k
      <4>1. b[i] = a[i] /\ b[i - 1] = a[i - 1]
        BY <2>1, <3>2
      <4> HIDE DEF b
      <4> QED
        BY <2>2, <3>2, <4>1
    <3> QED
      BY <2>1, <3>1, <3>2
  <2>6. Upto(k + 1, b)
    <3> HIDE DEF b
    <3> QED
      BY <2>4, <2>5
  <2> HIDE DEF Upto
  <2> QED
    BY <2>1, <2>6
<1>3. S = Nat
  <2> HIDE DEF S
  <2>1. S \in SUBSET Nat
    BY DEF S
  <2> QED
    BY <1>1, <1>2, <2>1, EveryNatural
<1>4. \E a : Upto(Len(f), a)
  <2> HIDE DEF Upto
  <2> QED
    BY <1>3
<1> QED
  BY <1>4 DEF Scanned

\* A scan has only one such run, and Scan is its last state with the offset set.
LEMMA ScanIsScanned ==
    ASSUME NEW f, Len(f) \in Nat, NEW from, NEW a, Scanned(f, from, a)
    PROVE  Scan(f, from) = [a[Len(f)] EXCEPT !.offset = Len(f)]
<1>1. a = [i \in 0 .. Len(f) |->
             IF i = 0 THEN ScanStart(from)
             ELSE IF Readable(f, i) THEN Visit(a[i - 1], f[i].kind, i) ELSE a[i - 1]]
  BY DEF Scanned
<1>2. PICK b : /\ b = [i \in 0 .. Len(f) |->
                         IF i = 0 THEN ScanStart(from)
                         ELSE IF Readable(f, i) THEN Visit(b[i - 1], f[i].kind, i) ELSE b[i - 1]]
               /\ Scan(f, from) = [b[Len(f)] EXCEPT !.offset = Len(f)]
  BY <1>1, Zenon DEF Scan, Visit
<1> DEFINE S == {k \in Nat : k <= Len(f) => a[k] = b[k]}
<1>3. 0 \in S
  BY <1>2 DEF Scanned
<1>4. ASSUME NEW k \in S PROVE k + 1 \in S
  <2>1. SUFFICES ASSUME k + 1 <= Len(f) PROVE a[k + 1] = b[k + 1]
    OBVIOUS
  <2>2. k + 1 \in 1 .. Len(f) /\ (k + 1) - 1 = k /\ a[k] = b[k] /\ k + 1 # 0 /\ k + 1 \in 0 .. Len(f)
    BY <2>1
  <2>3. a[k + 1] = IF Readable(f, k + 1) THEN Visit(a[k], f[k + 1].kind, k + 1) ELSE a[k]
    BY <2>2 DEF Scanned
  <2>4. b[k + 1] = IF Readable(f, k + 1) THEN Visit(b[k], f[k + 1].kind, k + 1) ELSE b[k]
    BY <1>2, <2>2
  <2> QED
    BY <2>2, <2>3, <2>4
<1>5. S = Nat
  <2> HIDE DEF S
  <2>1. S \in SUBSET Nat
    BY DEF S
  <2> QED
    BY <1>3, <1>4, <2>1, EveryNatural
<1>6. a[Len(f)] = b[Len(f)]
  BY <1>5
<1> QED
  BY <1>2, <1>6

\* A scan ends in a state of the log.
LEMMA ScanType ==
    ASSUME NEW f, Len(f) \in Nat, NEW from \in Nat \ {0}
    PROVE  Scan(f, from) \in LogStates
<1>1. PICK a : Scanned(f, from, a)
  BY ScannedExists
<1>2. a[Len(f)] \in LogStates
  BY <1>1 DEF Scanned
<1>3. Scan(f, from) = [a[Len(f)] EXCEPT !.offset = Len(f)]
  BY <1>1, ScanIsScanned
<1> QED
  BY <1>2, <1>3 DEF LogStates

-------------------------------------------------------------------------------
(* Counting records *)

\* The running counts of ReadableCount.
Counted(f, c) ==
    /\ c \in [0 .. Len(f) -> Nat]
    /\ c[0] = 0
    /\ \A i \in 1 .. Len(f) : c[i] = c[i - 1] + (IF Readable(f, i) THEN 1 ELSE 0)
    /\ \A i \in 0 .. Len(f) : c[i] <= i

\* The running counts exist, record by record.
LEMMA CountedExists ==
    ASSUME NEW f, Len(f) \in Nat
    PROVE  \E c : Counted(f, c)
<1> DEFINE Upto(k, c) == /\ c \in [0 .. k -> Nat]
                         /\ c[0] = 0
                         /\ \A i \in 1 .. k : c[i] = c[i - 1] + (IF Readable(f, i) THEN 1 ELSE 0)
                         /\ \A i \in 0 .. k : c[i] <= i
           S == {k \in Nat : \E c : Upto(k, c)}
<1>1. 0 \in S
  <2>1. Upto(0, [i \in 0 .. 0 |-> 0])
    OBVIOUS
  <2> QED
    BY <2>1
<1>2. ASSUME NEW k \in S PROVE k + 1 \in S
  <2>1. k \in Nat
    OBVIOUS
  <2>2. PICK c : Upto(k, c)
    OBVIOUS
  <2> DEFINE next == c[k] + (IF Readable(f, k + 1) THEN 1 ELSE 0)
             b == [i \in 0 .. k + 1 |-> IF i = k + 1 THEN next ELSE c[i]]
  <2>3. next \in Nat /\ next <= k + 1
    BY <2>1, <2>2
  <2>4. b \in [0 .. k + 1 -> Nat] /\ b[0] = 0 /\ \A i \in 0 .. k + 1 : b[i] <= i
    <3> HIDE DEF next
    <3> QED
      BY <2>1, <2>2, <2>3
  <2>5. ASSUME NEW i \in 1 .. k + 1
        PROVE  b[i] = b[i - 1] + (IF Readable(f, i) THEN 1 ELSE 0)
    <3>1. CASE i = k + 1
      <4>1. i - 1 = k /\ b[k] = c[k] /\ b[i] = next
        BY <2>1, <3>1
      <4> HIDE DEF b
      <4> QED
        BY <3>1, <4>1
    <3>2. CASE i \in 1 .. k
      <4>1. b[i] = c[i] /\ b[i - 1] = c[i - 1]
        BY <2>1, <3>2
      <4> HIDE DEF b
      <4> QED
        BY <2>2, <3>2, <4>1
    <3> QED
      BY <2>1, <3>1, <3>2
  <2>6. Upto(k + 1, b)
    <3> HIDE DEF b
    <3> QED
      BY <2>4, <2>5
  <2> HIDE DEF Upto
  <2> QED
    BY <2>1, <2>6
<1>3. S = Nat
  <2> HIDE DEF S
  <2>1. S \in SUBSET Nat
    BY DEF S
  <2> QED
    BY <1>1, <1>2, <2>1, EveryNatural
<1>4. \E c : Upto(Len(f), c)
  <2> HIDE DEF Upto
  <2> QED
    BY <1>3
<1> QED
  BY <1>4 DEF Counted

\* ReadableCount is the last of the running counts.
LEMMA CountIsCounted ==
    ASSUME NEW f, Len(f) \in Nat, NEW c, Counted(f, c)
    PROVE  ReadableCount(f) = c[Len(f)]
<1>1. c = [i \in 0 .. Len(f) |->
             IF i = 0 THEN 0 ELSE c[i - 1] + (IF Readable(f, i) THEN 1 ELSE 0)]
  BY DEF Counted
<1>2. PICK b : /\ b = [i \in 0 .. Len(f) |->
                         IF i = 0 THEN 0 ELSE b[i - 1] + (IF Readable(f, i) THEN 1 ELSE 0)]
               /\ ReadableCount(f) = b[Len(f)]
  BY <1>1, Zenon DEF ReadableCount
<1> DEFINE S == {k \in Nat : k <= Len(f) => c[k] = b[k]}
<1>3. 0 \in S
  BY <1>2 DEF Counted
<1>4. ASSUME NEW k \in S PROVE k + 1 \in S
  <2>1. SUFFICES ASSUME k + 1 <= Len(f) PROVE c[k + 1] = b[k + 1]
    OBVIOUS
  <2>2. k + 1 \in 1 .. Len(f) /\ (k + 1) - 1 = k /\ c[k] = b[k] /\ k + 1 # 0 /\ k + 1 \in 0 .. Len(f)
    BY <2>1
  <2>3. c[k + 1] = c[k] + (IF Readable(f, k + 1) THEN 1 ELSE 0)
    BY <2>2 DEF Counted
  <2>4. b[k + 1] = b[k] + (IF Readable(f, k + 1) THEN 1 ELSE 0)
    BY <1>2, <2>2
  <2> QED
    BY <2>2, <2>3, <2>4
<1>5. S = Nat
  <2> HIDE DEF S
  <2>1. S \in SUBSET Nat
    BY DEF S
  <2> QED
    BY <1>3, <1>4, <2>1, EveryNatural
<1>6. c[Len(f)] = b[Len(f)]
  BY <1>5
<1> QED
  BY <1>2, <1>6

\* No more records are readable than there are.
LEMMA CountType ==
    ASSUME NEW f, Len(f) \in Nat
    PROVE  ReadableCount(f) \in 0 .. Len(f)
<1>1. PICK c : Counted(f, c)
  BY CountedExists
<1>2. c[Len(f)] \in Nat /\ c[Len(f)] <= Len(f)
  BY <1>1 DEF Counted
<1> QED
  BY <1>1, <1>2, CountIsCounted

\* The running sums of IndexedEvents.
Indexed(s, k, c) ==
    /\ c \in [0 .. k -> Nat]
    /\ c[0] = 0
    /\ \A i \in 1 .. k : c[i] = c[i - 1] + s.entries[i].events

\* The running sums exist, entry by entry.
LEMMA IndexedExists ==
    ASSUME NEW s \in LogStates, NEW m \in 0 .. Len(s.entries)
    PROVE  \E c : Indexed(s, m, c)
<1> DEFINE S == {k \in Nat : k <= m => \E c : Indexed(s, k, c)}
<1>0. Len(s.entries) \in Nat /\ \A i \in 1 .. Len(s.entries) : s.entries[i].events \in Nat
  <2>1. s.entries \in Seq(IndexEntries)
    BY DEF LogStates
  <2>2. \A i \in 1 .. Len(s.entries) : s.entries[i] \in IndexEntries
    BY <2>1, ElementOfSeq
  <2> QED
    BY <2>1, <2>2, LenProperties DEF IndexEntries
<1>1. 0 \in S
  <2>1. Indexed(s, 0, [i \in 0 .. 0 |-> 0])
    BY DEF Indexed
  <2> QED
    BY <2>1
<1>2. ASSUME NEW k \in S PROVE k + 1 \in S
  <2>1. SUFFICES ASSUME k + 1 <= m PROVE \E c : Indexed(s, k + 1, c)
    OBVIOUS
  <2>2. k \in Nat /\ k <= m /\ k + 1 \in 1 .. Len(s.entries)
    BY <1>0, <2>1
  <2>3. PICK c : Indexed(s, k, c)
    BY <2>2
  <2> DEFINE next == c[k] + s.entries[k + 1].events
             b == [i \in 0 .. k + 1 |-> IF i = k + 1 THEN next ELSE c[i]]
  <2>4. next \in Nat
    <3>1. c[k] \in Nat /\ s.entries[k + 1].events \in Nat
      BY <1>0, <2>2, <2>3 DEF Indexed
    <3> QED
      BY <3>1
  <2>5. b \in [0 .. k + 1 -> Nat] /\ b[0] = 0
    <3> HIDE DEF next
    <3> QED
      BY <2>2, <2>3, <2>4 DEF Indexed
  <2>6. ASSUME NEW i \in 1 .. k + 1 PROVE b[i] = b[i - 1] + s.entries[i].events
    <3>1. CASE i = k + 1
      <4>1. i - 1 = k /\ b[k] = c[k] /\ b[i] = next
        BY <2>2, <3>1
      <4> HIDE DEF b
      <4> QED
        BY <3>1, <4>1
    <3>2. CASE i \in 1 .. k
      <4>1. b[i] = c[i] /\ b[i - 1] = c[i - 1]
        BY <2>2, <3>2
      <4> HIDE DEF b
      <4> QED
        BY <2>3, <3>2, <4>1 DEF Indexed
    <3> QED
      BY <2>2, <3>1, <3>2
  <2> HIDE DEF b
  <2> QED
    BY <2>5, <2>6 DEF Indexed
<1>3. S = Nat
  <2> HIDE DEF S
  <2>1. S \in SUBSET Nat
    BY DEF S
  <2> QED
    BY <1>1, <1>2, <2>1, EveryNatural
<1> QED
  BY <1>0, <1>3

\* IndexedEvents is the last of the running sums.
LEMMA IndexedIsSum ==
    ASSUME NEW s, NEW m \in Nat, NEW c, Indexed(s, m, c)
    PROVE  IndexedEvents(s, m) = c[m]
<1>1. c = [i \in 0 .. m |-> IF i = 0 THEN 0 ELSE c[i - 1] + s.entries[i].events]
  BY DEF Indexed
<1>2. PICK b : /\ b = [i \in 0 .. m |-> IF i = 0 THEN 0 ELSE b[i - 1] + s.entries[i].events]
               /\ IndexedEvents(s, m) = b[m]
  BY <1>1, Zenon DEF IndexedEvents
<1> DEFINE S == {k \in Nat : k <= m => c[k] = b[k]}
<1>3. 0 \in S
  BY <1>2 DEF Indexed
<1>4. ASSUME NEW k \in S PROVE k + 1 \in S
  <2>1. SUFFICES ASSUME k + 1 <= m PROVE c[k + 1] = b[k + 1]
    OBVIOUS
  <2>2. k + 1 \in 1 .. m /\ (k + 1) - 1 = k /\ c[k] = b[k] /\ k + 1 # 0 /\ k + 1 \in 0 .. m
    BY <2>1
  <2>3. c[k + 1] = c[k] + s.entries[k + 1].events
    BY <2>2 DEF Indexed
  <2>4. b[k + 1] = b[k] + s.entries[k + 1].events
    BY <1>2, <2>2
  <2> QED
    BY <2>2, <2>3, <2>4
<1>5. S = Nat
  <2> HIDE DEF S
  <2>1. S \in SUBSET Nat
    BY DEF S
  <2> QED
    BY <1>3, <1>4, <2>1, EveryNatural
<1>6. c[m] = b[m]
  BY <1>5
<1> QED
  BY <1>2, <1>6

\* The events of the first turns are a number.
LEMMA IndexedType ==
    ASSUME NEW s \in LogStates, NEW m \in 0 .. Len(s.entries)
    PROVE  IndexedEvents(s, m) \in Nat
<1>1. Len(s.entries) \in Nat
  BY LenProperties DEF LogStates
<1>2. PICK c : Indexed(s, m, c)
  BY IndexedExists
<1>3. c[m] \in Nat
  BY <1>1, <1>2 DEF Indexed
<1> QED
  BY <1>1, <1>2, <1>3, IndexedIsSum

-------------------------------------------------------------------------------
(* The eviction plan *)

\* At most all turns can be evicted.
LEMMA EvictableType ==
    ASSUME NEW s \in LogStates
    PROVE  Evictable(s) \in Int /\ Evictable(s) <= Len(s.entries) /\ Len(s.entries) \in Nat
<1>1. Len(s.entries) \in Nat
  BY LenProperties DEF LogStates
<1>2. Evictable(s) \in {Len(s.entries) - 1, Len(s.entries) - 0}
  BY Zenon DEF Evictable
<1> QED
  BY <1>1, <1>2

\* There is a least number of turns to evict, so the plan's choice is defined.
LEMMA EvictedTurnsExist ==
    ASSUME NEW s \in LogStates, NEW max \in Nat, Evictable(s) > 0
    PROVE  /\ EvictedTurns(s, max) \in 1 .. Evictable(s)
           /\ \/ EvictedTurns(s, max) = Evictable(s)
              \/ s.eventCount - IndexedEvents(s, EvictedTurns(s, max)) <= max
<1> DEFINE Fits(k) == k = Evictable(s) \/ s.eventCount - IndexedEvents(s, k) <= max
           S == {k \in 1 .. Evictable(s) : Fits(k)}
<1>1. Evictable(s) \in Nat /\ Evictable(s) <= Len(s.entries) /\ Len(s.entries) \in Nat
  BY EvictableType
<1>2. Evictable(s) \in S /\ S \in SUBSET Nat
  BY <1>1
<1>3. PICK k \in S : \A j \in S : k <= j
  <2> HIDE DEF S
  <2> QED
    BY <1>2, LeastNatural
<1>4. s.eventCount \in Nat
  BY DEF LogStates
<1>5. \A j \in 1 .. k - 1 : s.eventCount - IndexedEvents(s, j) > max
  <2>1. SUFFICES ASSUME NEW j \in 1 .. k - 1 PROVE s.eventCount - IndexedEvents(s, j) > max
    OBVIOUS
  <2>2. k \in 1 .. Evictable(s) /\ j \in 1 .. Evictable(s) /\ j \in 0 .. Len(s.entries) /\ j < k
    BY <1>1
  <2>3. j \notin S
    BY <1>3, <2>2
  <2>4. IndexedEvents(s, j) \in Nat
    BY <2>2, IndexedType
  <2>5. ~ (s.eventCount - IndexedEvents(s, j) <= max)
    BY <2>2, <2>3
  <2> QED
    BY <1>4, <2>4, <2>5
<1>6. k \in 1 .. Evictable(s) /\ Fits(k)
  OBVIOUS
<1>7. \E n \in 1 .. Evictable(s) : Fits(n) /\ \A j \in 1 .. n - 1 : s.eventCount - IndexedEvents(s, j) > max
  <2> HIDE DEF Fits
  <2> QED
    BY <1>5, <1>6
<1> QED
  BY <1>7, Zenon DEF EvictedTurns

\* The plan names a turn of the index and an offset.
LEMMA CutType ==
    ASSUME NEW s \in LogStates, NEW max \in Nat, Evictable(s) > 0
    PROVE  /\ EvictedTurns(s, max) \in 1 .. Len(s.entries)
           /\ CutOffset(s, max) \in Nat
<1>1. EvictedTurns(s, max) \in 1 .. Len(s.entries)
  BY EvictedTurnsExist, EvictableType
<1>2. s.entries \in Seq(IndexEntries)
  BY DEF LogStates
<1>3. s.entries[EvictedTurns(s, max)] \in IndexEntries
  BY <1>1, <1>2, ElementOfSeq
<1> QED
  BY <1>1, <1>3 DEF CutOffset, IndexEntries

\* The first retained turn has a number.
LEMMA RetainedBaseType ==
    ASSUME NEW s \in LogStates, NEW k \in 1 .. Len(s.entries)
    PROVE  retained_turn_base_after_eviction(s, k) \in Nat \ {0}
<1>1. s.entries \in Seq(IndexEntries) /\ s.turnCount + 1 \in Nat \ {0} /\ Len(s.entries) \in Nat
  BY LenProperties DEF LogStates
<1>2. ASSUME k < Len(s.entries) PROVE s.entries[k + 1].turn \in Nat \ {0}
  <2>1. k + 1 \in 1 .. Len(s.entries)
    BY <1>1, <1>2
  <2>2. s.entries[k + 1] \in IndexEntries
    BY <1>1, <2>1, ElementOfSeq
  <2> QED
    BY <2>2 DEF IndexEntries
<1> QED
  BY <1>1, <1>2 DEF retained_turn_base_after_eviction

\* A saturating subtraction yields a natural.
LEMMA MinusType ==
    ASSUME NEW a \in Int, NEW b \in Int
    PROVE  Minus(a, b) \in Nat
BY DEF Minus, AtLeast

\* Taking over a cap eviction leaves a state of the log.
LEMMA CapEvictionType ==
    ASSUME NEW s \in LogStates, NEW k \in 1 .. Len(s.entries), NEW cut \in Nat,
           NEW evicted \in Nat, NEW len \in Nat
    PROVE  apply_cap_eviction(s, k, cut, evicted, len) \in LogStates
<1>1. s.entries \in Seq(IndexEntries) /\ Len(s.entries) \in Nat /\ s.eventCount \in Nat
  BY LenProperties DEF LogStates
<1> DEFINE n == Len(s.entries) - k
           rest == [i \in 1 .. n |-> Shifted(s.entries[i + k], cut)]
<1>2. n \in Nat
  BY <1>1
<1>3. ASSUME NEW i \in 1 .. n PROVE Shifted(s.entries[i + k], cut) \in IndexEntries
  <2>1. i + k \in 1 .. Len(s.entries)
    BY <1>1
  <2>2. s.entries[i + k] \in IndexEntries
    BY <1>1, <2>1, ElementOfSeq
  <2>3. Minus(s.entries[i + k].start, cut) \in Nat /\ Minus(s.entries[i + k].end, cut) \in Nat
    <3>1. /\ s.entries[i + k].start \in Int /\ s.entries[i + k].end \in Int /\ cut \in Int
      BY <2>2 DEF IndexEntries
    <3> QED
      BY <3>1, MinusType
  <2> QED
    BY <2>2, <2>3 DEF IndexEntries, Shifted
<1>4. rest \in Seq(IndexEntries)
  <2> HIDE DEF n
  <2> QED
    BY <1>2, <1>3, IsASeq
<1>5. retained_turn_base_after_eviction(s, k) \in Nat \ {0}
  BY RetainedBaseType
<1>6. Minus(s.eventCount, evicted) \in Nat
  <2>1. s.eventCount \in Int /\ evicted \in Int
    BY <1>1
  <2> QED
    BY <2>1, MinusType
<1>7. apply_cap_eviction(s, k, cut, evicted, len) =
        [s EXCEPT !.entries = rest, !.offset = len, !.eventCount = Minus(s.eventCount, evicted),
                  !.base = retained_turn_base_after_eviction(s, k)]
  BY Zenon DEF apply_cap_eviction
<1> HIDE DEF rest
<1> QED
  BY <1>4, <1>5, <1>6, <1>7 DEF LogStates

-------------------------------------------------------------------------------
(* What open works with *)

\* The manifest describes the state.
LEMMA PersistedManifestType ==
    ASSUME NEW s \in LogStates, NEW len \in Nat
    PROVE  PersistedManifest(s, len) \in Manifests
BY DEF PersistedManifest, LogStates, Manifests

\* The base that a manifest longer than the file leads to.
LEMMA RewrittenBasesType ==
    ASSUME NEW m, m = Absent \/ m \in Manifests,
           NEW x, x = Absent \/ x \in Seq(IndexEntries),
           NEW len \in Nat
    PROVE  RewrittenBases(m, x, len) \subseteq Nat
<1>1. SUFFICES ASSUME m # Absent, x # Absent PROVE RewrittenBases(m, x, len) \subseteq Nat
  BY DEF RewrittenBases
<1>2. m \in Manifests /\ x \in Seq(IndexEntries)
  BY <1>1
<1> DEFINE retained == {i \in 1 .. Len(x) : x[i].start >= m.len - len}
           first == CHOOSE i \in retained : \A j \in retained : i <= j
<1>3. ASSUME retained # {} PROVE x[first].turn \in Nat
  <2>1. retained \in SUBSET Nat /\ Len(x) \in Nat
    BY <1>2, LenProperties
  <2>2. \E i \in retained : \A j \in retained : i <= j
    <3> HIDE DEF retained
    <3> QED
      BY <1>3, <2>1, LeastNatural
  <2>3. first \in retained
    <3> HIDE DEF retained
    <3> QED
      BY <2>2
  <2>4. first \in 1 .. Len(x)
    <3> HIDE DEF first
    <3> QED
      BY <2>3
  <2>5. x[first] \in IndexEntries
    <3> HIDE DEF first
    <3> QED
      BY <1>2, <2>4, ElementOfSeq
  <2> HIDE DEF first
  <2> QED
    BY <2>5 DEF IndexEntries
<1>4. m.turnCount + 1 \in Nat
  BY <1>2 DEF Manifests
<1>5. \/ RewrittenBases(m, x, len) = {}
      \/ retained # {} /\ RewrittenBases(m, x, len) = {x[first].turn}
      \/ RewrittenBases(m, x, len) = {m.turnCount + 1}
  BY Zenon DEF RewrittenBases
<1> HIDE DEF retained, first
<1> QED
  BY <1>3, <1>4, <1>5

\* A scan always has a number to start from.
LEMMA ScanBaseType ==
    ASSUME NEW m, m = Absent \/ m \in Manifests,
           NEW x, x = Absent \/ x \in Seq(IndexEntries),
           NEW k, k = Absent \/ k \in Markers,
           NEW len \in Nat
    PROVE  infer_scan_turn_base(m, x, k, len) \in Nat \ {0}
<1> DEFINE rewritten == RewrittenBases(m, x, len)
           base == IF MarkerMatches(k, len) THEN k.base
                   ELSE IF rewritten # {} THEN CHOOSE b \in rewritten : TRUE
                   ELSE IF m # Absent THEN m.base
                   ELSE IF x # Absent /\ x # <<>> /\ IndexIsValid(x, len) THEN x[1].turn
                   ELSE 1
<1>1. ASSUME MarkerMatches(k, len) PROVE k.base \in Nat
  BY <1>1 DEF MarkerMatches, Markers
<1>2. ASSUME rewritten # {} PROVE (CHOOSE b \in rewritten : TRUE) \in Nat
  <2>1. (CHOOSE b \in rewritten : TRUE) \in rewritten
    BY <1>2
  <2> QED
    BY <2>1, RewrittenBasesType
<1>3. ASSUME m # Absent PROVE m.base \in Nat
  BY <1>3 DEF Manifests
<1>4. ASSUME x # Absent, x # <<>> PROVE x[1].turn \in Nat
  <2>1. x \in Seq(IndexEntries) /\ 1 \in 1 .. Len(x)
    BY <1>4, EmptySeq
  <2>2. x[1] \in IndexEntries
    BY <2>1, ElementOfSeq
  <2> QED
    BY <2>2 DEF IndexEntries
<1>5. base \in Nat
  <2> HIDE DEF rewritten
  <2> QED
    BY <1>1, <1>2, <1>3, <1>4
<1>6. infer_scan_turn_base(m, x, k, len) = AtLeast(base, 1)
  BY Zenon DEF infer_scan_turn_base
<1> HIDE DEF base
<1> QED
  BY <1>5, <1>6 DEF AtLeast

\* Trusted metadata is a state of the log.
LEMMA LoadedType ==
    ASSUME NEW m \in Manifests, NEW x \in Seq(IndexEntries), NEW len \in Nat
    PROVE  LoadPersisted(m, x, len) \in LogStates
BY DEF LoadPersisted, LogStates, Manifests

\* What open works with is a state of the log.
LEMMA RecoveredType ==
    ASSUME NEW f, Len(f) \in Nat,
           NEW m, m = Absent \/ m \in Manifests,
           NEW x, x = Absent \/ x \in Seq(IndexEntries),
           NEW k, k = Absent \/ k \in Markers
    PROVE  Recovered(f, m, x, k) \in LogStates
<1>1. CASE FastPath(m, x, k, Len(f))
  BY <1>1, LoadedType DEF Recovered, FastPath
<1>2. CASE ~FastPath(m, x, k, Len(f))
  <2>1. infer_scan_turn_base(m, x, k, Len(f)) \in Nat \ {0}
    BY ScanBaseType
  <2> QED
    BY <1>2, <2>1, ScanType DEF Recovered
<1> QED
  BY <1>1, <1>2

-------------------------------------------------------------------------------
(* What a failed write leaves *)

\* The remains of a write: the first records, the last of them perhaps unfinished.
LEMMA CutShortIs ==
    ASSUME NEW b \in Seq(EventRecords), NEW part \in CutShort(b)
    PROVE  /\ part \in Seq(EventRecords)
           /\ Len(part) <= Len(b)
           /\ \A i \in 1 .. Len(part) : part[i].id = b[i].id
           /\ \A i \in 1 .. Len(part) - 1 : part[i] = b[i]
           /\ part # <<>> /\ part[Len(part)] # b[Len(part)] => ~part[Len(part)].nl
<1>1. Len(b) \in Nat /\ \A i \in 1 .. Len(b) : b[i] \in EventRecords
  BY LenProperties, ElementOfSeq
<1>2. ASSUME NEW n \in 0 .. Len(b)
      PROVE  /\ SubSeq(b, 1, n) \in Seq(EventRecords)
             /\ Len(SubSeq(b, 1, n)) = n
             /\ \A i \in 1 .. n : SubSeq(b, 1, n)[i] = b[i]
  BY <1>1, SubSeqProperties
<1>3. ASSUME NEW n \in 0 .. Len(b), part = SubSeq(b, 1, n)
      PROVE  /\ part \in Seq(EventRecords)
             /\ Len(part) <= Len(b)
             /\ \A i \in 1 .. Len(part) : part[i] = b[i]
  BY <1>1, <1>2, <1>3
<1>4. ASSUME NEW n \in 0 .. Len(b) - 1, NEW r \in EventRecords, r.id = b[n + 1].id, ~r.nl,
             part = Append(SubSeq(b, 1, n), r)
      PROVE  /\ part \in Seq(EventRecords)
             /\ Len(part) <= Len(b)
             /\ \A i \in 1 .. Len(part) : part[i].id = b[i].id
             /\ \A i \in 1 .. Len(part) - 1 : part[i] = b[i]
             /\ ~part[Len(part)].nl
  <2>1. /\ SubSeq(b, 1, n) \in Seq(EventRecords)
        /\ Len(SubSeq(b, 1, n)) = n
        /\ \A i \in 1 .. n : SubSeq(b, 1, n)[i] = b[i]
    BY <1>1, <1>2
  <2>2. /\ part \in Seq(EventRecords) /\ Len(part) = n + 1
        /\ part[n + 1] = r /\ \A i \in 1 .. n : part[i] = b[i]
    BY <1>4, <2>1, AppendProperties
  <2> QED
    BY <1>1, <1>4, <2>2
<1>5. \/ \E n \in 0 .. Len(b) : part = SubSeq(b, 1, n)
      \/ \E n \in 0 .. Len(b) - 1 : part = Append(SubSeq(b, 1, n), [b[n + 1] EXCEPT !.nl = FALSE])
      \/ \E n \in 0 .. Len(b) - 1 :
            part = Append(SubSeq(b, 1, n), [b[n + 1] EXCEPT !.nl = FALSE, !.kind = "torn"])
  BY DEF CutShort
<1>6. ASSUME NEW n \in 0 .. Len(b) - 1
      PROVE  /\ [b[n + 1] EXCEPT !.nl = FALSE] \in EventRecords
             /\ [b[n + 1] EXCEPT !.nl = FALSE].id = b[n + 1].id
             /\ ~ [b[n + 1] EXCEPT !.nl = FALSE].nl
             /\ [b[n + 1] EXCEPT !.nl = FALSE, !.kind = "torn"] \in EventRecords
             /\ [b[n + 1] EXCEPT !.nl = FALSE, !.kind = "torn"].id = b[n + 1].id
             /\ ~ [b[n + 1] EXCEPT !.nl = FALSE, !.kind = "torn"].nl
  <2>1. n + 1 \in 1 .. Len(b)
    BY <1>1
  <2>2. b[n + 1] \in EventRecords
    BY <1>1, <2>1
  <2> QED
    BY <2>2 DEF EventRecords
<1>7. CASE \E n \in 0 .. Len(b) : part = SubSeq(b, 1, n)
  <2>1. /\ part \in Seq(EventRecords)
        /\ Len(part) <= Len(b)
        /\ \A i \in 1 .. Len(part) : part[i] = b[i]
    BY <1>3, <1>7
  <2>2. part # <<>> => Len(part) \in 1 .. Len(part)
    BY <2>1, EmptySeq
  <2>3. \A i \in 1 .. Len(part) - 1 : i \in 1 .. Len(part)
    BY <2>1, LenProperties
  <2> QED
    BY <2>1, <2>2, <2>3
<1>8. CASE \E n \in 0 .. Len(b) - 1 : part = Append(SubSeq(b, 1, n), [b[n + 1] EXCEPT !.nl = FALSE])
  <2>1. PICK n \in 0 .. Len(b) - 1 : part = Append(SubSeq(b, 1, n), [b[n + 1] EXCEPT !.nl = FALSE])
    BY <1>8
  <2> QED
    BY <1>4, <1>6, <2>1
<1>9. CASE \E n \in 0 .. Len(b) - 1 :
              part = Append(SubSeq(b, 1, n), [b[n + 1] EXCEPT !.nl = FALSE, !.kind = "torn"])
  <2>1. PICK n \in 0 .. Len(b) - 1 :
            part = Append(SubSeq(b, 1, n), [b[n + 1] EXCEPT !.nl = FALSE, !.kind = "torn"])
    BY <1>9
  <2> QED
    BY <1>4, <1>6, <2>1
<1> QED
  BY <1>5, <1>7, <1>8, <1>9

-------------------------------------------------------------------------------
(* The writes an operation has left *)

Writes == {"flush_write_buf", "write_index", "write_manifest", "enforce_event_cap",
           "summary_hook", "write_marker", "replace_file", "clear_marker"}

\* The order in which every operation does its writes.
Rank(write) ==
    CASE write = "flush_write_buf" -> 1
      [] write = "summary_hook" -> 2
      [] write = "write_marker" -> 3
      [] write = "replace_file" -> 4
      [] write = "write_index" -> 5
      [] write = "write_manifest" -> 6
      [] write = "enforce_event_cap" -> 7
      [] write = "clear_marker" -> 8

Rewriting == {"summary_hook", "write_marker", "replace_file"}

Scripted(script) ==
    /\ \A i, j \in 1 .. Len(script) : i < j => Rank(script[i]) < Rank(script[j])
    /\ \A i \in 2 .. Len(script) :
          /\ script[i] = "summary_hook" => script[i - 1] = "flush_write_buf"
          /\ script[i] = "write_marker" => script[i - 1] = "summary_hook"
          /\ script[i] = "replace_file" => script[i - 1] = "write_marker"

\* A rewrite is only scheduled for a log that has turns to evict.
Planned(script, s) ==
    (\E i \in 1 .. Len(script) : script[i] \in Rewriting) => NeedsEviction(s, MaxEvents)

Program(script, s) == script \in Seq(Writes) /\ Scripted(script) /\ Planned(script, s)

\* What is left after a write is again a program.
LEMMA ProgramTail ==
    ASSUME NEW script, script # <<>>, NEW s, Program(script, s)
    PROVE  Program(Tail(script), s)
<1> DEFINE t == Tail(script)
<1>1. script \in Seq(Writes)
  BY DEF Program
<1>2. /\ t \in Seq(Writes) /\ Len(t) = Len(script) - 1 /\ Len(script) \in Nat
      /\ \A i \in 1 .. Len(t) : t[i] = script[i + 1] /\ i + 1 \in 2 .. Len(script)
  BY <1>1, HeadTailProperties, LenProperties
<1> HIDE DEF t
<1>3. ASSUME NEW i \in 1 .. Len(t), NEW j \in 1 .. Len(t), i < j PROVE Rank(t[i]) < Rank(t[j])
  <2>1. /\ i + 1 \in 1 .. Len(script) /\ j + 1 \in 1 .. Len(script) /\ i + 1 < j + 1
        /\ t[i] = script[i + 1] /\ t[j] = script[j + 1]
    BY <1>2, <1>3
  <2>2. Rank(script[i + 1]) < Rank(script[j + 1])
    BY <2>1 DEF Program, Scripted
  <2> QED
    BY <2>1, <2>2
<1>4. ASSUME NEW i \in 2 .. Len(t)
      PROVE  /\ t[i] = "summary_hook" => t[i - 1] = "flush_write_buf"
             /\ t[i] = "write_marker" => t[i - 1] = "summary_hook"
             /\ t[i] = "replace_file" => t[i - 1] = "write_marker"
  <2>1. i \in 1 .. Len(t) /\ i - 1 \in 1 .. Len(t) /\ (i - 1) + 1 = i /\ (i + 1) - 1 = i
    BY <1>2
  <2>2. t[i] = script[i + 1] /\ t[i - 1] = script[i] /\ i + 1 \in 2 .. Len(script)
    BY <1>2, <2>1
  <2> QED
    BY <2>1, <2>2 DEF Program, Scripted
<1>5. Planned(t, s)
  <2>1. ASSUME NEW i \in 1 .. Len(t), t[i] \in Rewriting PROVE NeedsEviction(s, MaxEvents)
    <3>1. i + 1 \in 1 .. Len(script) /\ script[i + 1] \in Rewriting
      BY <1>2, <2>1
    <3> QED
      BY <3>1 DEF Program, Planned
  <2> QED
    BY <2>1 DEF Planned
<1>6. Scripted(t)
  BY <1>3, <1>4 DEF Scripted
<1>7. Program(t, s)
  BY <1>2, <1>5, <1>6 DEF Program
<1> QED
  BY <1>7 DEF t

\* What follows a write.
LEMMA ProgramNext ==
    ASSUME NEW script, script # <<>>, NEW s, Program(script, s), Tail(script) # <<>>
    PROVE  /\ Head(Tail(script)) = "summary_hook" => Head(script) = "flush_write_buf"
           /\ Head(Tail(script)) = "write_marker" => Head(script) = "summary_hook"
           /\ Head(Tail(script)) = "replace_file" => Head(script) = "write_marker"
<1>1. script \in Seq(Writes) /\ Tail(script) \in Seq(Writes)
  BY HeadTailProperties DEF Program
<1>2. /\ Head(script) = script[1] /\ Head(Tail(script)) = Tail(script)[1]
      /\ Len(Tail(script)) \in Nat \ {0} /\ Len(Tail(script)) = Len(script) - 1
  BY <1>1, HeadTailProperties, EmptySeq
<1>3. Tail(script)[1] = script[2] /\ 2 \in 2 .. Len(script) /\ 2 - 1 = 1
  BY <1>1, <1>2, HeadTailProperties, LenProperties
<1> QED
  BY <1>2, <1>3 DEF Program, Scripted

\* The head of a program is planned like the rest.
LEMMA ProgramHead ==
    ASSUME NEW script, script # <<>>, NEW s, Program(script, s)
    PROVE  /\ Head(script) \in Writes
           /\ Head(script) \in Rewriting => NeedsEviction(s, MaxEvents)
           /\ Head(script) = "replace_file" =>
                 \A i \in 1 .. Len(Tail(script)) : Tail(script)[i] \notin Rewriting
<1>1. script \in Seq(Writes) /\ Len(script) \in Nat \ {0}
  BY EmptySeq DEF Program
<1>2. 1 \in 1 .. Len(script) /\ Head(script) = script[1] /\ script[1] \in Writes
  BY <1>1, ElementOfSeq
<1>3. ASSUME Head(script) = "replace_file", NEW i \in 1 .. Len(Tail(script))
      PROVE  Tail(script)[i] \notin Rewriting
  <2>1. Tail(script)[i] = script[i + 1] /\ i + 1 \in 1 .. Len(script) /\ 1 < i + 1
    BY <1>1, HeadTailProperties, LenProperties
  <2>2. Rank("replace_file") < Rank(script[i + 1])
    BY <1>2, <1>3, <2>1 DEF Program, Scripted
  <2>3. script[i + 1] \in Writes
    BY <1>1, <2>1, ElementOfSeq
  <2>4. script[i + 1] \notin Rewriting
    BY <2>2, <2>3 DEF Rank, Rewriting, Writes
  <2> QED
    BY <2>1, <2>4
<1> QED
  BY <1>2, <1>3 DEF Program, Planned

\* A program that rewrites nothing is one for every state.
LEMMA ProgramQuiet ==
    ASSUME NEW script, NEW s, NEW t, Program(script, s),
           \A i \in 1 .. Len(script) : script[i] \notin Rewriting
    PROVE  Program(script, t)
BY DEF Program, Planned

persist_meta_then(last) == <<"flush_write_buf", "write_index", "write_manifest", last>>

\* The program of an operation that persists first, written out.
LEMMA PersistThen ==
    ASSUME NEW last \in {"enforce_event_cap", "clear_marker"}
    PROVE  persist_meta \o <<last>> = persist_meta_then(last)
<1> DEFINE z == <<last>>
           r == persist_meta_then(last)
<1>1. persist_meta \in Seq(Writes) /\ z \in Seq(Writes) /\ r \in Seq(Writes)
  BY DEF persist_meta, persist_meta_then, Writes
<1>2. /\ Len(persist_meta) = 3 /\ Len(z) = 1 /\ Len(r) = 4
      /\ persist_meta[1] = "flush_write_buf" /\ persist_meta[2] = "write_index"
      /\ persist_meta[3] = "write_manifest" /\ z[1] = last
      /\ r[1] = "flush_write_buf" /\ r[2] = "write_index" /\ r[3] = "write_manifest" /\ r[4] = last
  BY DEF persist_meta, persist_meta_then
<1> HIDE DEF persist_meta, z, r
<1>3. /\ persist_meta \o z \in Seq(Writes)
      /\ Len(persist_meta \o z) = Len(persist_meta) + Len(z)
      /\ \A i \in 1 .. Len(persist_meta) + Len(z) : (persist_meta \o z)[i] =
            IF i <= Len(persist_meta) THEN persist_meta[i] ELSE z[i - Len(persist_meta)]
  BY <1>1, ConcatProperties
<1>4. \A i \in 1 .. 4 : i = 1 \/ i = 2 \/ i = 3 \/ i = 4
  OBVIOUS
<1>5. ASSUME NEW i \in 1 .. 4 PROVE (persist_meta \o z)[i] = r[i]
  BY <1>2, <1>3, <1>4
<1>6. persist_meta \o z = r
  BY <1>1, <1>2, <1>3, <1>5, SeqEqual
<1> QED
  BY <1>6 DEF z, r

\* The programs that the operations start with.
LEMMA Programs ==
    ASSUME NEW s
    PROVE  /\ Program(<<>>, s)
           /\ Program(<<"flush_write_buf">>, s)
           /\ Program(<<"enforce_event_cap">>, s)
           /\ Program(<<"clear_marker">>, s)
           /\ Program(persist_meta, s)
           /\ Program(persist_meta \o <<"enforce_event_cap">>, s)
           /\ Program(persist_meta \o <<"clear_marker">>, s)
           /\ NeedsEviction(s, MaxEvents) =>
                 Program(<<"flush_write_buf", "summary_hook", "write_marker", "replace_file",
                           "write_index", "write_manifest", "clear_marker">>, s)
<1>1. Program(<<>>, s)
  BY EmptySeq DEF Program, Scripted, Planned
<1>2. ASSUME NEW w \in {"flush_write_buf", "enforce_event_cap", "clear_marker"}
      PROVE  Program(<<w>>, s)
  <2> DEFINE p == <<w>>
  <2>1. p \in Seq(Writes) /\ Len(p) = 1 /\ p[1] = w
    BY DEF Writes
  <2> HIDE DEF p
  <2>2. Program(p, s)
    BY <2>1 DEF Program, Scripted, Planned, Rewriting
  <2> QED
    BY <2>2 DEF p
<1>3. Program(persist_meta, s)
  <2>1. /\ persist_meta \in Seq(Writes) /\ Len(persist_meta) = 3
        /\ persist_meta[1] = "flush_write_buf" /\ persist_meta[2] = "write_index"
        /\ persist_meta[3] = "write_manifest"
    BY DEF persist_meta, Writes
  <2> HIDE DEF persist_meta
  <2>2. \A i \in 1 .. 3 : i = 1 \/ i = 2 \/ i = 3
    OBVIOUS
  <2> QED
    BY <2>1, <2>2 DEF Program, Scripted, Planned, Rewriting, Rank
<1>4. ASSUME NEW last \in {"enforce_event_cap", "clear_marker"}
      PROVE  Program(persist_meta \o <<last>>, s)
  <2> DEFINE p == persist_meta_then(last)
  <2>1. /\ p \in Seq(Writes) /\ Len(p) = 4
        /\ p[1] = "flush_write_buf" /\ p[2] = "write_index"
        /\ p[3] = "write_manifest" /\ p[4] = last
    BY DEF persist_meta_then, Writes
  <2> HIDE DEF p
  <2>2. \A i \in 1 .. 4 : i = 1 \/ i = 2 \/ i = 3 \/ i = 4
    OBVIOUS
  <2>3. Program(p, s)
    BY <2>1, <2>2 DEF Program, Scripted, Planned, Rewriting, Rank
  <2> QED
    BY <2>3, PersistThen DEF p
<1>5. ASSUME NeedsEviction(s, MaxEvents)
      PROVE  Program(<<"flush_write_buf", "summary_hook", "write_marker", "replace_file",
                       "write_index", "write_manifest", "clear_marker">>, s)
  <2> DEFINE p == <<"flush_write_buf", "summary_hook", "write_marker", "replace_file",
                    "write_index", "write_manifest", "clear_marker">>
  <2>1. /\ p \in Seq(Writes) /\ Len(p) = 7
        /\ p[1] = "flush_write_buf" /\ p[2] = "summary_hook" /\ p[3] = "write_marker"
        /\ p[4] = "replace_file" /\ p[5] = "write_index" /\ p[6] = "write_manifest"
        /\ p[7] = "clear_marker"
    BY DEF Writes
  <2> HIDE DEF p
  <2>2. \A i \in 1 .. 7 : i = 1 \/ i = 2 \/ i = 3 \/ i = 4 \/ i = 5 \/ i = 6 \/ i = 7
    OBVIOUS
  <2>3. Scripted(p)
    BY <2>1, <2>2 DEF Scripted, Rank
  <2>4. Program(p, s)
    BY <1>5, <2>1, <2>3 DEF Program, Planned
  <2> QED
    BY <2>4 DEF p
<1> QED
  BY <1>1, <1>2, <1>3, <1>4, <1>5

-------------------------------------------------------------------------------
(* The identities of the records *)

\* Every record in the file and in the buffer is one of the first n events that were
\* appended, in that order.
Ordered(f, b, n) ==
    /\ \A i \in 1 .. Len(f) : f[i].id \in 1 .. n
    /\ \A i \in 1 .. Len(b) : b[i].id \in 1 .. n
    /\ \A i, j \in 1 .. Len(f) : i < j => f[i].id < f[j].id
    /\ \A i, j \in 1 .. Len(b) : i < j => b[i].id < b[j].id
    /\ \A i \in 1 .. Len(f), j \in 1 .. Len(b) : f[i].id < b[j].id

\* A new event is the newest.
LEMMA OrderedAppend ==
    ASSUME NEW f \in Seq(EventRecords), NEW b \in Seq(EventRecords), NEW n \in Nat,
           Ordered(f, b, n), NEW r \in EventRecords, r.id = n + 1
    PROVE  Ordered(f, Append(b, r), n + 1)
<1> DEFINE c == Append(b, r)
<1>1. /\ Len(c) = Len(b) + 1 /\ Len(b) \in Nat /\ Len(f) \in Nat
      /\ c[Len(b) + 1] = r /\ \A i \in 1 .. Len(b) : c[i] = b[i]
  BY AppendProperties, LenProperties
<1> HIDE DEF c
<1>2. \A i \in 1 .. Len(c) : i \in 1 .. Len(b) \/ i = Len(c)
  BY <1>1
<1>3. ASSUME NEW i \in 1 .. Len(c) PROVE c[i].id \in 1 .. n + 1
  BY <1>1, <1>2 DEF Ordered
<1>4. ASSUME NEW i \in 1 .. Len(f) PROVE f[i].id \in 1 .. n + 1 /\ f[i].id < n + 1
  <2>1. f[i].id \in 1 .. n
    BY DEF Ordered
  <2> QED
    BY <2>1
<1>5. ASSUME NEW i \in 1 .. Len(b) PROVE b[i].id < n + 1
  <2>1. b[i].id \in 1 .. n
    BY DEF Ordered
  <2> QED
    BY <2>1
<1>6. ASSUME NEW i \in 1 .. Len(c), NEW j \in 1 .. Len(c), i < j PROVE c[i].id < c[j].id
  <2>1. i \in 1 .. Len(b)
    BY <1>1, <1>6
  <2>2. CASE j \in 1 .. Len(b)
    BY <1>1, <1>6, <2>1, <2>2 DEF Ordered
  <2>3. CASE j = Len(c)
    BY <1>1, <1>5, <2>1, <2>3
  <2> QED
    BY <1>2, <2>2, <2>3
<1>7. ASSUME NEW i \in 1 .. Len(f), NEW j \in 1 .. Len(c) PROVE f[i].id < c[j].id
  <2>1. CASE j \in 1 .. Len(b)
    BY <1>1, <2>1 DEF Ordered
  <2>2. CASE j = Len(c)
    BY <1>1, <1>4, <2>2
  <2> QED
    BY <1>2, <2>1, <2>2
<1>8. Ordered(f, c, n + 1)
  BY <1>3, <1>4, <1>6, <1>7 DEF Ordered
<1> QED
  BY <1>8 DEF c

\* Dropping the buffer keeps the order.
LEMMA OrderedDrop ==
    ASSUME NEW f, NEW b, NEW n, Ordered(f, b, n)
    PROVE  Ordered(f, <<>>, n)
<1>1. Len(<<>>) = 0
  BY EmptySeq
<1> QED
  BY <1>1 DEF Ordered

\* Writing the first records of the buffer, whole or not, keeps the order.
LEMMA OrderedWrite ==
    ASSUME NEW f \in Seq(EventRecords), NEW b \in Seq(EventRecords), NEW n \in Nat,
           Ordered(f, b, n), NEW part \in Seq(EventRecords), Len(part) <= Len(b),
           \A i \in 1 .. Len(part) : part[i].id = b[i].id
    PROVE  Ordered(f \o part, <<>>, n)
<1> DEFINE c == f \o part
<1>1. /\ Len(c) = Len(f) + Len(part) /\ Len(f) \in Nat /\ Len(part) \in Nat /\ Len(b) \in Nat
      /\ \A i \in 1 .. Len(c) : c[i] = IF i <= Len(f) THEN f[i] ELSE part[i - Len(f)]
  BY ConcatProperties, LenProperties
<1> HIDE DEF c
<1>2. ASSUME NEW i \in 1 .. Len(c), i > Len(f)
      PROVE  i - Len(f) \in 1 .. Len(b) /\ c[i].id = b[i - Len(f)].id
  <2>1. i - Len(f) \in 1 .. Len(part)
    BY <1>1, <1>2
  <2> QED
    BY <1>1, <1>2, <2>1
<1>3. ASSUME NEW i \in 1 .. Len(c), i <= Len(f) PROVE i \in 1 .. Len(f) /\ c[i] = f[i]
  BY <1>1, <1>3
<1>4. ASSUME NEW i \in 1 .. Len(c) PROVE c[i].id \in 1 .. n
  <2>1. CASE i <= Len(f)
    BY <1>3, <2>1 DEF Ordered
  <2>2. CASE i > Len(f)
    BY <1>2, <2>2 DEF Ordered
  <2> QED
    BY <1>1, <2>1, <2>2
<1>5. ASSUME NEW i \in 1 .. Len(c), NEW j \in 1 .. Len(c), i < j PROVE c[i].id < c[j].id
  <2>1. CASE j <= Len(f)
    <3>1. i <= Len(f)
      BY <1>1, <1>5, <2>1
    <3> QED
      BY <1>3, <1>5, <2>1, <3>1 DEF Ordered
  <2>2. CASE i <= Len(f) /\ j > Len(f)
    BY <1>2, <1>3, <2>2 DEF Ordered
  <2>3. CASE i > Len(f) /\ j > Len(f)
    <3>1. i - Len(f) < j - Len(f)
      BY <1>1, <1>5
    <3> QED
      BY <1>2, <2>3, <3>1 DEF Ordered
  <2> QED
    BY <1>1, <2>1, <2>2, <2>3
<1>6. Len(<<>>) = 0
  BY EmptySeq
<1>7. Ordered(c, <<>>, n)
  BY <1>4, <1>5, <1>6 DEF Ordered
<1> QED
  BY <1>7 DEF c

\* Cutting the oldest records off keeps the order.
LEMMA OrderedCut ==
    ASSUME NEW f \in Seq(EventRecords), NEW b, NEW n, Ordered(f, b, n), NEW c \in 0 .. Len(f)
    PROVE  Ordered(SubSeq(f, c + 1, Len(f)), b, n)
<1> DEFINE g == SubSeq(f, c + 1, Len(f))
<1>1. Len(f) \in Nat /\ \A i \in 1 .. Len(f) : f[i] \in EventRecords
  BY LenProperties, ElementOfSeq
<1>2. /\ Len(g) = Len(f) - c /\ Len(g) \in Nat
      /\ \A i \in 1 .. Len(g) : g[i] = f[i + c] /\ i + c \in 1 .. Len(f)
  <2>1. c + 1 \in Int /\ Len(f) \in Int /\ \A i \in c + 1 .. Len(f) : f[i] \in EventRecords
    BY <1>1
  <2>2. /\ Len(g) = IF c + 1 <= Len(f) THEN Len(f) - (c + 1) + 1 ELSE 0
        /\ \A i \in 1 .. Len(f) - (c + 1) + 1 : g[i] = f[(c + 1) + i - 1]
    BY <2>1, SubSeqProperties
  <2> HIDE DEF g
  <2>3. Len(g) = Len(f) - c
    BY <1>1, <2>2
  <2>4. \A i \in 1 .. Len(g) : (c + 1) + i - 1 = i + c /\ i \in 1 .. Len(f) - (c + 1) + 1
    BY <1>1, <2>3
  <2> QED
    BY <1>1, <2>2, <2>3, <2>4
<1> HIDE DEF g
<1>3. ASSUME NEW i \in 1 .. Len(g), NEW j \in 1 .. Len(g), i < j PROVE g[i].id < g[j].id
  <2>1. i + c < j + c
    BY <1>2, <1>3
  <2> QED
    BY <1>2, <2>1 DEF Ordered
<1>4. Ordered(g, b, n)
  BY <1>2, <1>3 DEF Ordered
<1> QED
  BY <1>4 DEF g

\* Of an ordered log, no event is there twice.
LEMMA OrderedIsOnce ==
    ASSUME NEW f \in Seq(EventRecords), NEW b \in Seq(EventRecords), NEW n \in Nat,
           Ordered(f, b, n)
    PROVE  \A i \in 2 .. Len(f \o b) : (f \o b)[i - 1].id < (f \o b)[i].id
<1>1. Len(b) <= Len(b) /\ \A i \in 1 .. Len(b) : b[i].id = b[i].id
  BY LenProperties
<1>2. Ordered(f \o b, <<>>, n)
  BY <1>1, OrderedWrite
<1>3. Len(f \o b) \in Nat
  BY ConcatProperties, LenProperties
<1>4. \A i \in 2 .. Len(f \o b) : i \in 1 .. Len(f \o b) /\ i - 1 \in 1 .. Len(f \o b) /\ i - 1 < i
  BY <1>3
<1> QED
  BY <1>2, <1>4 DEF Ordered

-------------------------------------------------------------------------------
(* Whole files *)

\* Every record was written to its end.
Whole(f) == \A i \in 1 .. Len(f) : f[i].nl /\ f[i].kind # "torn"

\* Every record of a whole file is readable.
LEMMA WholeIsReadable ==
    ASSUME NEW f, Len(f) \in Nat, Whole(f)
    PROVE  (\A i \in 1 .. Len(f) : Readable(f, i)) /\ ReadableIds(f) = Ids(f)
<1>1. ASSUME NEW i \in 1 .. Len(f) PROVE Readable(f, i)
  <2>1. i = 1 \/ i - 1 \in 1 .. Len(f)
    OBVIOUS
  <2> QED
    BY <2>1 DEF Readable, Whole
<1>2. {j \in 1 .. Len(f) : Readable(f, j)} = 1 .. Len(f)
  BY <1>1
<1> QED
  BY <1>1, <1>2 DEF ReadableIds, Ids

\* The records of a file after a write.
LEMMA Joined ==
    ASSUME NEW f \in Seq(EventRecords), NEW b \in Seq(EventRecords)
    PROVE  /\ f \o b \in Seq(EventRecords)
           /\ Len(f \o b) = Len(f) + Len(b)
           /\ Len(f) \in Nat /\ Len(b) \in Nat
           /\ \A i \in 1 .. Len(f) : (f \o b)[i] = f[i]
           /\ \A i \in 1 .. Len(b) : (f \o b)[i + Len(f)] = b[i]
           /\ \A i \in 1 .. Len(f \o b) :
                 \/ i \in 1 .. Len(f)
                 \/ i - Len(f) \in 1 .. Len(b) /\ (f \o b)[i] = b[i - Len(f)]
<1> DEFINE c == f \o b
<1>1. /\ c \in Seq(EventRecords) /\ Len(c) = Len(f) + Len(b)
      /\ Len(f) \in Nat /\ Len(b) \in Nat
      /\ \A i \in 1 .. Len(f) + Len(b) : c[i] = IF i <= Len(f) THEN f[i] ELSE b[i - Len(f)]
  BY ConcatProperties, LenProperties
<1> HIDE DEF c
<1>2. \A i \in 1 .. Len(f) : c[i] = f[i]
  BY <1>1
<1>3. ASSUME NEW i \in 1 .. Len(b) PROVE c[i + Len(f)] = b[i]
  <2>1. i + Len(f) \in 1 .. Len(f) + Len(b) /\ ~(i + Len(f) <= Len(f)) /\ (i + Len(f)) - Len(f) = i
    BY <1>1
  <2> QED
    BY <1>1, <2>1
<1>4. ASSUME NEW i \in 1 .. Len(c)
      PROVE  i \in 1 .. Len(f) \/ (i - Len(f) \in 1 .. Len(b) /\ c[i] = b[i - Len(f)])
  BY <1>1
<1>5. /\ c \in Seq(EventRecords) /\ Len(c) = Len(f) + Len(b) /\ Len(f) \in Nat /\ Len(b) \in Nat
      /\ \A i \in 1 .. Len(f) : c[i] = f[i]
      /\ \A i \in 1 .. Len(b) : c[i + Len(f)] = b[i]
      /\ \A i \in 1 .. Len(c) :
            i \in 1 .. Len(f) \/ (i - Len(f) \in 1 .. Len(b) /\ c[i] = b[i - Len(f)])
  BY <1>1, <1>2, <1>3, <1>4
<1> QED
  BY <1>5 DEF c

\* Writing whole records to a whole file leaves a whole file.
LEMMA WholeWrite ==
    ASSUME NEW f \in Seq(EventRecords), NEW b \in Seq(EventRecords), Whole(f), Whole(b)
    PROVE  Whole(f \o b)
<1> DEFINE c == f \o b
<1>1. /\ \A i \in 1 .. Len(f) : c[i] = f[i]
      /\ \A i \in 1 .. Len(c) :
            i \in 1 .. Len(f) \/ (i - Len(f) \in 1 .. Len(b) /\ c[i] = b[i - Len(f)])
  BY Joined
<1> HIDE DEF c
<1>2. Whole(c)
  BY <1>1 DEF Whole
<1> QED
  BY <1>2 DEF c

\* A file after a write has the events of both parts.
LEMMA IdsOfWrite ==
    ASSUME NEW f \in Seq(EventRecords), NEW b \in Seq(EventRecords)
    PROVE  Ids(f \o b) = Ids(f) \cup Ids(b)
<1> DEFINE c == f \o b
<1>1. /\ Len(c) = Len(f) + Len(b) /\ Len(f) \in Nat /\ Len(b) \in Nat
      /\ \A i \in 1 .. Len(f) : c[i] = f[i]
      /\ \A i \in 1 .. Len(b) : c[i + Len(f)] = b[i]
      /\ \A i \in 1 .. Len(c) :
            i \in 1 .. Len(f) \/ (i - Len(f) \in 1 .. Len(b) /\ c[i] = b[i - Len(f)])
  BY Joined
<1> HIDE DEF c
<1>2. ASSUME NEW i \in 1 .. Len(c) PROVE c[i].id \in Ids(f) \cup Ids(b)
  BY <1>1 DEF Ids
<1>3. ASSUME NEW i \in 1 .. Len(f) PROVE f[i].id \in Ids(c)
  <2>1. i \in 1 .. Len(c) /\ c[i] = f[i]
    BY <1>1
  <2> QED
    BY <2>1 DEF Ids
<1>4. ASSUME NEW i \in 1 .. Len(b) PROVE b[i].id \in Ids(c)
  <2>1. i + Len(f) \in 1 .. Len(c) /\ c[i + Len(f)] = b[i]
    BY <1>1
  <2> QED
    BY <2>1 DEF Ids
<1>5. Ids(c) = Ids(f) \cup Ids(b)
  BY <1>2, <1>3, <1>4 DEF Ids
<1> QED
  BY <1>5 DEF c

\* A file cut in two.
LEMMA Halves ==
    ASSUME NEW f \in Seq(EventRecords), NEW c \in 0 .. Len(f)
    PROVE  /\ SubSeq(f, 1, c) \in Seq(EventRecords)
           /\ SubSeq(f, c + 1, Len(f)) \in Seq(EventRecords)
           /\ Len(SubSeq(f, 1, c)) = c
           /\ Len(SubSeq(f, c + 1, Len(f))) = Len(f) - c
           /\ \A i \in 1 .. c : SubSeq(f, 1, c)[i] = f[i]
           /\ \A i \in 1 .. Len(f) - c : SubSeq(f, c + 1, Len(f))[i] = f[i + c]
           /\ SubSeq(f, 1, c) \o SubSeq(f, c + 1, Len(f)) = f
<1>1. Len(f) \in Nat /\ c \in Nat /\ \A i \in 1 .. Len(f) : f[i] \in EventRecords
  BY LenProperties, ElementOfSeq
<1>2. /\ SubSeq(f, 1, c) \in Seq(EventRecords) /\ Len(SubSeq(f, 1, c)) = c
      /\ \A i \in 1 .. c : SubSeq(f, 1, c)[i] = f[i]
  BY <1>1, SubSeqProperties
<1> DEFINE g == SubSeq(f, c + 1, Len(f))
<1>3. /\ g \in Seq(EventRecords)
      /\ Len(g) = IF c + 1 <= Len(f) THEN Len(f) - (c + 1) + 1 ELSE 0
      /\ \A i \in 1 .. Len(f) - (c + 1) + 1 : g[i] = f[(c + 1) + i - 1]
  <2>1. c + 1 \in Int /\ Len(f) \in Int /\ \A i \in c + 1 .. Len(f) : f[i] \in EventRecords
    BY <1>1
  <2> QED
    BY <2>1, SubSeqProperties
<1>4. SubSeq(f, 1, c) \o g = f
  <2>1. 1 \in 1 .. Len(f) + 1 /\ c \in 1 - 1 .. Len(f) /\ Len(f) \in c .. Len(f)
    BY <1>1
  <2>2. SubSeq(f, 1, c) \o g = SubSeq(f, 1, Len(f))
    BY <2>1, ConcatAdjacentSubSeq
  <2> QED
    BY <2>2, SubSeqFull
<1> HIDE DEF g
<1>5. Len(g) = Len(f) - c
  BY <1>1, <1>3
<1>6. ASSUME NEW i \in 1 .. Len(f) - c PROVE g[i] = f[i + c]
  <2>1. (c + 1) + i - 1 = i + c /\ i \in 1 .. Len(f) - (c + 1) + 1
    BY <1>1
  <2> QED
    BY <1>3, <2>1
<1>7. /\ g \in Seq(EventRecords) /\ Len(g) = Len(f) - c
      /\ \A i \in 1 .. Len(f) - c : g[i] = f[i + c]
      /\ SubSeq(f, 1, c) \o g = f
  BY <1>3, <1>4, <1>5, <1>6
<1> QED
  BY <1>2, <1>7 DEF g

\* Cutting a whole file loses no event but those of the cut part.
LEMMA WholeCut ==
    ASSUME NEW f \in Seq(EventRecords), NEW c \in 0 .. Len(f), Whole(f)
    PROVE  /\ Whole(SubSeq(f, 1, c)) /\ Whole(SubSeq(f, c + 1, Len(f)))
           /\ Ids(f) = ReadableIds(SubSeq(f, 1, c)) \cup Ids(SubSeq(f, c + 1, Len(f)))
<1> DEFINE a == SubSeq(f, 1, c)
           b == SubSeq(f, c + 1, Len(f))
<1>1. /\ a \in Seq(EventRecords) /\ b \in Seq(EventRecords) /\ Len(a) = c /\ Len(b) = Len(f) - c
      /\ \A i \in 1 .. c : a[i] = f[i]
      /\ \A i \in 1 .. Len(f) - c : b[i] = f[i + c]
      /\ a \o b = f /\ Len(f) \in Nat
  BY Halves, LenProperties
<1> HIDE DEF a, b
<1>2. Whole(a)
  <2>1. \A i \in 1 .. c : i \in 1 .. Len(f)
    BY <1>1
  <2> QED
    BY <1>1, <2>1 DEF Whole
<1>3. Whole(b)
  <2>1. \A i \in 1 .. Len(f) - c : i + c \in 1 .. Len(f)
    BY <1>1
  <2> QED
    BY <1>1, <2>1 DEF Whole
<1>4. Ids(f) = Ids(a) \cup Ids(b)
  BY <1>1, IdsOfWrite
<1>5. ReadableIds(a) = Ids(a)
  BY <1>1, <1>2, WholeIsReadable
<1> QED
  BY <1>2, <1>3, <1>4, <1>5 DEF a, b

-------------------------------------------------------------------------------
(* The inductive invariant *)

\* Between the summary and the rewrite the plan stays what it was.
CutKnown(script, s, f, handed) ==
    script # <<>> /\ Head(script) \in {"write_marker", "replace_file"} =>
        /\ CutOffset(s, MaxEvents) <= Len(f)
        /\ ReadableIds(SubSeq(f, 1, CutOffset(s, MaxEvents))) \subseteq handed

\* What was synced is in a whole file or went through the summary.
Kept(f, b, cut, syn, handed) ==
    /\ Whole(b)
    /\ ~cut => Whole(f) /\ syn \subseteq Ids(f) \cup handed

LogInv ==
    /\ TypeOK
    /\ Program(todo, st)
    /\ Ordered(file, buffer, appended)
    /\ CutKnown(todo, st, file, summarised)
    /\ Kept(file, buffer, damaged, synced, summarised)

\* The invariant implies the properties of the runs.
LEMMA LogInvImplies == LogInv => TypeOK /\ SyncedIsKeptOrSummarised /\ EachEventOnce
<1> SUFFICES ASSUME LogInv PROVE TypeOK /\ SyncedIsKeptOrSummarised /\ EachEventOnce
  OBVIOUS
<1>1. file \in Seq(EventRecords) /\ buffer \in Seq(EventRecords) /\ appended \in Nat /\ TypeOK
  BY LogAssumption DEF LogInv, TypeOK
<1>2. EachEventOnce
  BY <1>1, OrderedIsOnce DEF LogInv, EachEventOnce
<1>3. SyncedIsKeptOrSummarised
  <2>1. SUFFICES ASSUME ~damaged PROVE synced \subseteq ReadableIds(file) \cup summarised
    BY DEF SyncedIsKeptOrSummarised
  <2>2. Whole(file) /\ synced \subseteq Ids(file) \cup summarised
    BY <2>1 DEF LogInv, Kept
  <2>3. ReadableIds(file) = Ids(file)
    BY <1>1, <2>2, LenProperties, WholeIsReadable
  <2> QED
    BY <2>2, <2>3
<1> QED
  BY <1>1, <1>2, <1>3

\* The invariant holds initially.
LEMMA LogInit == Init => LogInv
<1> SUFFICES ASSUME Init PROVE LogInv
  OBVIOUS
<1>1. /\ <<>> \in Seq(EventRecords) /\ Len(<<>>) = 0
      /\ <<>> \in Seq(Writes) /\ <<>> \in Seq(1 .. 0)
  BY EmptySeq
<1>2. ScanStart(1) \in LogStates
  BY ScanStartType
<1>3. TypeOK
  <2>1. /\ opens \in 0 .. MaxOpens /\ failures \in 0 .. MaxFailures /\ appended \in 0 .. MaxAppends
        /\ synced \cup summarised \subseteq 1 .. appended
        /\ durableTurns \in Nat /\ taken \in Seq(1 .. appended)
    BY <1>1, LogAssumption DEF Init
  <2>2. /\ file \in Seq(EventRecords) /\ buffer \in Seq(EventRecords) /\ st \in LogStates
        /\ todo \in Seq(Writes) /\ todo = <<>>
    BY <1>1, <1>2 DEF Init
  <2>3. /\ manifest = Absent /\ index = Absent /\ marker = Absent /\ op = "down"
        /\ fileOpen = FALSE /\ failed = FALSE /\ damaged = FALSE
    BY DEF Init
  <2> QED
    BY <2>1, <2>2, <2>3 DEF TypeOK, Writes
<1>4. Program(<<>>, st)
  BY Programs
<1>5. Ordered(<<>>, <<>>, 0)
  BY <1>1 DEF Ordered
<1>6. CutKnown(<<>>, st, file, summarised)
  BY DEF CutKnown
<1>7. Kept(<<>>, <<>>, FALSE, {}, {})
  BY <1>1 DEF Kept, Whole
<1> QED
  BY <1>3, <1>4, <1>5, <1>6, <1>7 DEF Init, LogInv

-------------------------------------------------------------------------------
(* The steps of the log keep the invariant *)

\* The programs that start without a rewrite.
LEMMA Starts ==
    ASSUME NEW s, NEW f, NEW handed,
           NEW script \in {<<>>, <<"flush_write_buf">>, <<"enforce_event_cap">>, <<"clear_marker">>,
                           persist_meta, persist_meta \o <<"enforce_event_cap">>,
                           persist_meta \o <<"clear_marker">>}
    PROVE  Program(script, s) /\ CutKnown(script, s, f, handed)
<1>1. Program(script, s)
  BY Programs
<1>2. script # <<>> => Head(script) \in {"flush_write_buf", "enforce_event_cap", "clear_marker"}
  <2>1. /\ persist_meta \o <<"enforce_event_cap">> = persist_meta_then("enforce_event_cap")
        /\ persist_meta \o <<"clear_marker">> = persist_meta_then("clear_marker")
    BY PersistThen
  <2>2. /\ Head(persist_meta_then("enforce_event_cap")) = "flush_write_buf"
        /\ Head(persist_meta_then("clear_marker")) = "flush_write_buf"
        /\ Head(persist_meta) = "flush_write_buf"
    BY DEF persist_meta, persist_meta_then
  <2>3. /\ Head(<<"flush_write_buf">>) = "flush_write_buf"
        /\ Head(<<"enforce_event_cap">>) = "enforce_event_cap"
        /\ Head(<<"clear_marker">>) = "clear_marker"
    OBVIOUS
  <2> QED
    BY <2>1, <2>2, <2>3
<1> QED
  BY <1>1, <1>2 DEF CutKnown

\* What is left after a write that changes nothing the plan was made from.
LEMMA Continues ==
    ASSUME NEW script, script # <<>>, NEW s, Program(script, s), NEW f, NEW handed,
           CutKnown(script, s, f, handed), Head(script) # "summary_hook"
    PROVE  Program(Tail(script), s) /\ CutKnown(Tail(script), s, f, handed)
<1>1. Program(Tail(script), s)
  BY ProgramTail
<1>2. Tail(script) # <<>> /\ Head(Tail(script)) \in {"write_marker", "replace_file"} =>
        Head(script) = "write_marker"
  BY ProgramNext
<1> QED
  BY <1>1, <1>2 DEF CutKnown

\* The metadata files have these types.
LEMMA DiskTypes ==
    TypeOK => /\ file \in Seq(EventRecords) /\ buffer \in Seq(EventRecords) /\ st \in LogStates
              /\ manifest = Absent \/ manifest \in Manifests
              /\ index = Absent \/ index \in Seq(IndexEntries)
              /\ marker = Absent \/ marker \in Markers
              /\ todo \in Seq(Writes)
              /\ opens \in 0 .. MaxOpens /\ failures \in 0 .. MaxFailures
              /\ appended \in 0 .. MaxAppends /\ appended \in Nat
              /\ synced \cup summarised \subseteq 1 .. appended
              /\ taken \in Seq(1 .. appended)
BY LogAssumption DEF TypeOK, Manifests, Markers, Writes

\* Opening the log.
LEMMA LogOpen == LogInv /\ Open => LogInv'
<1> SUFFICES ASSUME LogInv, Open PROVE LogInv'
  OBVIOUS
<1>1. TypeOK /\ Ordered(file, buffer, appended) /\ Kept(file, buffer, damaged, synced, summarised)
  BY DEF LogInv
<1>2. /\ file \in Seq(EventRecords)
      /\ manifest = Absent \/ manifest \in Manifests
      /\ index = Absent \/ index \in Seq(IndexEntries)
      /\ marker = Absent \/ marker \in Markers
      /\ opens \in 0 .. MaxOpens
  BY <1>1, DiskTypes
<1>3. st' \in LogStates
  <2>1. Len(file) \in Nat /\ st' = Recovered(file, manifest, index, marker)
    BY <1>2, LenProperties DEF Open
  <2> QED
    BY <1>2, <2>1, RecoveredType
<1>4. todo' \in {<<>>, <<"clear_marker">>, persist_meta, persist_meta \o <<"clear_marker">>}
  <2>1. /\ <<>> \o <<>> = <<>> /\ <<>> \o <<"clear_marker">> = <<"clear_marker">>
        /\ persist_meta \o <<>> = persist_meta
    <3>1. <<>> \in Seq(Writes) /\ <<"clear_marker">> \in Seq(Writes) /\ persist_meta \in Seq(Writes)
      BY DEF Writes, persist_meta
    <3> QED
      BY <3>1, ConcatEmptySeq
  <2> DEFINE rest == IF marker # Absent THEN <<"clear_marker">> ELSE <<>>
  <2>2. todo' \in {<<>> \o rest, persist_meta \o rest}
    BY DEF Open
  <2>3. rest \in {<<>>, <<"clear_marker">>}
    OBVIOUS
  <2> HIDE DEF rest
  <2> QED
    BY <2>1, <2>2, <2>3
<1>5. Program(todo', st') /\ CutKnown(todo', st', file', summarised')
  BY <1>4, Starts
<1>6. /\ opens < MaxOpens /\ opens' = opens + 1 /\ op' = "open" /\ buffer' = <<>>
      /\ fileOpen' = TRUE /\ failed' = FALSE
      /\ UNCHANGED <<file, manifest, index, marker, failures, appended, synced, summarised,
                     durableTurns, taken, damaged>>
  BY DEF Open, diskVars, historyVars
<1>7. opens' \in 0 .. MaxOpens
  BY <1>2, <1>6, LogAssumption
<1>8. <<>> \in Seq(EventRecords) /\ Len(<<>>) = 0
  BY EmptySeq
<1>9. TypeOK'
  <2>1. todo' \in Seq(Writes)
    BY <1>5 DEF Program
  <2> QED
    BY <1>1, <1>3, <1>6, <1>7, <1>8, <2>1 DEF TypeOK, Writes
<1>10. Ordered(file', buffer', appended')
  BY <1>1, <1>6, OrderedDrop
<1>11. Kept(file', buffer', damaged', synced', summarised')
  BY <1>1, <1>6, <1>8 DEF Kept, Whole
<1> QED
  BY <1>5, <1>9, <1>10, <1>11 DEF LogInv

\* Appending an event.
LEMMA LogAppend ==
    ASSUME LogInv, NEW kind \in Kinds, append(kind)
    PROVE  LogInv'
<1>1. TypeOK /\ Ordered(file, buffer, appended) /\ Kept(file, buffer, damaged, synced, summarised)
  BY DEF LogInv
<1>2. /\ file \in Seq(EventRecords) /\ buffer \in Seq(EventRecords) /\ st \in LogStates
      /\ appended \in 0 .. MaxAppends /\ appended \in Nat /\ MaxAppends \in Nat
      /\ synced \cup summarised \subseteq 1 .. appended /\ taken \in Seq(1 .. appended)
  BY <1>1, DiskTypes, LogAssumption
<1> DEFINE end == st.offset + 1
           counted == [st EXCEPT !.eventCount = @ + 1, !.offset = end]
           turn == IF kind = "turnStarted" THEN st.turnCount + 1 ELSE 0
           r == [id |-> appended', kind |-> kind, turn |-> turn, nl |-> TRUE]
<1>3. /\ appended < MaxAppends /\ appended' = appended + 1
      /\ st' = apply_lifecycle_event(counted, kind, st.offset, end)
      /\ buffer' = Append(buffer, r)
      /\ todo' \in {persist_meta \o <<"enforce_event_cap">>, <<"enforce_event_cap">>}
      /\ op' = "append" /\ taken' = Append(taken, appended')
      /\ UNCHANGED <<file, manifest, index, marker, fileOpen, failed, opens, failures, synced,
                     summarised, durableTurns, damaged>>
  BY DEF append, diskVars
<1>4. st' \in LogStates
  <2>1. st.offset \in Nat /\ end \in Nat /\ st.eventCount + 1 \in Nat
    BY <1>2 DEF LogStates
  <2>2. counted \in LogStates
    BY <1>2, <2>1 DEF LogStates
  <2> QED
    BY <1>3, <2>1, <2>2, LifecycleType
<1>5. r \in EventRecords /\ r.id = appended + 1 /\ r.nl /\ r.kind # "torn"
  <2>1. turn \in Nat /\ appended' \in Nat
    BY <1>2, <1>3 DEF LogStates
  <2>2. kind \in Kinds \cup {"torn"} /\ kind # "torn"
    BY DEF Kinds
  <2> QED
    BY <1>3, <2>1, <2>2 DEF EventRecords
<1> HIDE DEF r
<1>6. Program(todo', st') /\ CutKnown(todo', st', file', summarised')
  BY <1>3, Starts
<1>7. Ordered(file', buffer', appended')
  BY <1>1, <1>2, <1>3, <1>5, OrderedAppend
<1>8. /\ buffer' \in Seq(EventRecords) /\ Len(buffer') = Len(buffer) + 1 /\ Len(buffer) \in Nat
      /\ buffer'[Len(buffer) + 1] = r /\ \A i \in 1 .. Len(buffer) : buffer'[i] = buffer[i]
  BY <1>2, <1>3, <1>5, AppendProperties, LenProperties
<1>9. Kept(file', buffer', damaged', synced', summarised')
  <2>1. \A i \in 1 .. Len(buffer') : i \in 1 .. Len(buffer) \/ buffer'[i] = r
    BY <1>8
  <2>2. Whole(buffer')
    BY <1>1, <1>5, <1>8, <2>1 DEF Kept, Whole
  <2> QED
    BY <1>1, <1>3, <2>2 DEF Kept
<1>10. TypeOK'
  <2>1. appended' \in 0 .. MaxAppends /\ 1 .. appended \subseteq 1 .. appended' /\ appended' \in 1 .. appended'
    BY <1>2, <1>3
  <2>2. taken \in Seq(1 .. appended')
    BY <1>2, <2>1, SeqMonotonic
  <2>3. taken' \in Seq(1 .. appended')
    BY <1>3, <2>1, <2>2, AppendProperties
  <2>4. synced' \cup summarised' \subseteq 1 .. appended'
    BY <1>2, <1>3, <2>1
  <2>5. todo' \in Seq(Writes)
    BY <1>6 DEF Program
  <2> QED
    BY <1>1, <1>3, <1>4, <1>8, <2>1, <2>3, <2>4, <2>5 DEF TypeOK, Writes
<1> QED
  BY <1>6, <1>7, <1>9, <1>10 DEF LogInv

\* Starting a flush or a close.
LEMMA LogFlush == LogInv /\ (flush \/ Drop) => LogInv'
<1> SUFFICES ASSUME LogInv, flush \/ Drop PROVE LogInv'
  OBVIOUS
<1>1. /\ todo' \in {persist_meta, <<"flush_write_buf">>} /\ op' \in {"flush", "close"}
      /\ UNCHANGED <<file, manifest, index, marker, st, buffer, fileOpen, failed, opens, failures,
                     appended, synced, summarised, durableTurns, taken, damaged>>
  BY DEF flush, Drop, diskVars, boundVars, historyVars
<1>2. Program(todo', st') /\ CutKnown(todo', st', file', summarised')
  BY <1>1, Starts
<1>3. TypeOK'
  <2>1. todo' \in Seq(Writes)
    BY <1>2 DEF Program
  <2> QED
    BY <1>1, <2>1 DEF LogInv, TypeOK, Writes
<1> QED
  BY <1>1, <1>2, <1>3 DEF LogInv

\* A process that ends leaves the disk, and perhaps a part of its buffer.
LEMMA LogGone ==
    ASSUME LogInv, Gone,
           file' = file \/ (\E part \in CutShort(buffer) :
                              /\ file' = file \o part
                              /\ ~damaged' => part = <<>> \/ part[Len(part)].nl),
           ~damaged' => ~damaged, damaged' \in BOOLEAN, failures' \in 0 .. MaxFailures,
           UNCHANGED <<manifest, index, marker, opens, appended, synced, summarised, durableTurns>>
    PROVE  LogInv'
<1>1. TypeOK /\ Ordered(file, buffer, appended) /\ Kept(file, buffer, damaged, synced, summarised)
  BY DEF LogInv
<1>2. /\ file \in Seq(EventRecords) /\ buffer \in Seq(EventRecords) /\ appended \in Nat
  BY <1>1, DiskTypes
<1>3. /\ op' = "down" /\ todo' = <<>> /\ st' = ScanStart(1) /\ buffer' = <<>>
      /\ fileOpen' = FALSE /\ failed' = FALSE /\ taken' = <<>>
  BY DEF Gone
<1>4. /\ <<>> \in Seq(EventRecords) /\ Len(<<>>) = 0 /\ <<>> \in Seq(Writes)
      /\ <<>> \in Seq(1 .. appended)
  BY EmptySeq
<1>5. /\ file' \in Seq(EventRecords) /\ Ordered(file', <<>>, appended)
      /\ ~damaged' => Whole(file') /\ Ids(file) \subseteq Ids(file')
  <2>1. CASE file' = file
    BY <1>1, <1>2, <2>1, OrderedDrop DEF Kept
  <2>2. ASSUME NEW part \in CutShort(buffer), file' = file \o part,
               ~damaged' => part = <<>> \/ part[Len(part)].nl
        PROVE  /\ file' \in Seq(EventRecords) /\ Ordered(file', <<>>, appended)
               /\ ~damaged' => Whole(file') /\ Ids(file) \subseteq Ids(file')
    <3>1. /\ part \in Seq(EventRecords) /\ Len(part) <= Len(buffer)
          /\ \A i \in 1 .. Len(part) : part[i].id = buffer[i].id
          /\ \A i \in 1 .. Len(part) - 1 : part[i] = buffer[i]
          /\ part # <<>> /\ part[Len(part)] # buffer[Len(part)] => ~part[Len(part)].nl
      BY <1>2, CutShortIs
    <3>2. file' \in Seq(EventRecords) /\ Ordered(file', <<>>, appended)
      BY <1>1, <1>2, <2>2, <3>1, Joined, OrderedWrite
    <3>3. ASSUME ~damaged' PROVE Whole(part)
      <4>1. SUFFICES ASSUME NEW i \in 1 .. Len(part) PROVE part[i] = buffer[i] /\ i \in 1 .. Len(buffer)
        BY <1>1 DEF Kept, Whole
      <4>2. Len(part) \in Nat /\ Len(buffer) \in Nat /\ part # <<>>
        BY <1>2, <1>4, <3>1, LenProperties
      <4>3. i \in 1 .. Len(part) - 1 \/ i = Len(part)
        BY <4>2
      <4> QED
        BY <2>2, <3>1, <3>3, <4>2, <4>3
    <3>4. ASSUME ~damaged' PROVE Whole(file') /\ Ids(file) \subseteq Ids(file')
      <4>1. Whole(file)
        BY <1>1, <3>4 DEF Kept
      <4>2. Whole(file \o part)
        BY <1>2, <3>1, <3>3, <3>4, <4>1, WholeWrite
      <4>3. Ids(file \o part) = Ids(file) \cup Ids(part)
        BY <1>2, <3>1, IdsOfWrite
      <4> QED
        BY <2>2, <4>2, <4>3
    <3> QED
      BY <3>2, <3>4
  <2> QED
    BY <2>1, <2>2
<1>6. TypeOK'
  <2>1. st' \in LogStates
    BY <1>3, ScanStartType
  <2> QED
    BY <1>1, <1>3, <1>4, <1>5, <2>1 DEF TypeOK, Writes
<1>7. Program(todo', st') /\ CutKnown(todo', st', file', summarised')
  BY <1>3, Starts
<1>8. Kept(file', buffer', damaged', synced', summarised')
  <2>1. Whole(<<>>)
    BY <1>4 DEF Whole
  <2>2. ASSUME ~damaged' PROVE Whole(file') /\ synced \subseteq Ids(file') \cup summarised
    <3>1. synced \subseteq Ids(file) \cup summarised
      BY <1>1, <2>2 DEF Kept
    <3> QED
      BY <1>5, <2>2, <3>1
  <2> QED
    BY <1>3, <2>1, <2>2 DEF Kept
<1> QED
  BY <1>3, <1>5, <1>6, <1>7, <1>8 DEF LogInv

\* A crash, also within a write.
LEMMA LogCrash == LogInv /\ Crash => LogInv'
<1> SUFFICES ASSUME LogInv, Crash PROVE LogInv'
  OBVIOUS
<1>1. /\ Gone
      /\ UNCHANGED <<manifest, index, marker, opens, failures, appended, synced, summarised, durableTurns>>
  BY DEF Crash, boundVars
<1>2. failures' \in 0 .. MaxFailures /\ damaged \in BOOLEAN
  BY <1>1 DEF LogInv, TypeOK
<1>3. CASE UNCHANGED <<file, damaged>>
  BY <1>1, <1>2, <1>3, LogGone
<1>4. ASSUME NEW part \in CutShort(buffer), file' = file \o part,
             damaged' = (damaged \/ (part # <<>> /\ ~part[Len(part)].nl))
      PROVE  LogInv'
  <2>1. /\ ~damaged' => ~damaged /\ (part = <<>> \/ part[Len(part)].nl)
        /\ damaged' \in BOOLEAN
    BY <1>4
  <2> QED
    BY <1>1, <1>2, <1>4, <2>1, LogGone
<1> QED
  BY <1>3, <1>4 DEF Crash

\* An operation returns.
LEMMA LogReturn == LogInv /\ Return => LogInv'
<1> SUFFICES ASSUME LogInv, Return PROVE LogInv'
  OBVIOUS
<1>1. UNCHANGED <<file, manifest, index, marker, opens, failures, appended, synced, summarised,
                  durableTurns, damaged>>
  BY DEF Return, diskVars, boundVars
<1>2. CASE op = "close"
  <2>1. Gone
    BY <1>2 DEF Return
  <2>2. failures' \in 0 .. MaxFailures /\ damaged' \in BOOLEAN
    BY <1>1 DEF LogInv, TypeOK
  <2> QED
    BY <1>1, <2>1, <2>2, LogGone
<1>3. CASE op # "close"
  <2>1. op' = "idle" /\ todo' = <<>> /\ UNCHANGED <<todo, st, buffer, fileOpen, failed, taken>>
    BY <1>3 DEF Return
  <2>2. TypeOK'
    BY <1>1, <2>1 DEF LogInv, TypeOK
  <2> QED
    BY <1>1, <2>1, <2>2 DEF LogInv
<1> QED
  BY <1>2, <1>3

\* A write that fails ends its operation, or the process.
LEMMA LogFail ==
    ASSUME LogInv, Fail, todo # <<>>,
           file' \in Seq(EventRecords), Ordered(file', buffer', appended),
           op' # "down" => /\ buffer' \in Seq(EventRecords) /\ Whole(buffer')
                           /\ taken' \in Seq(1 .. appended) /\ fileOpen' \in BOOLEAN /\ st' = st,
           damaged' \in BOOLEAN, ~damaged' => ~damaged /\ Whole(file') /\ synced \subseteq Ids(file') \cup summarised,
           UNCHANGED <<manifest, index, marker, synced, summarised, durableTurns>>
    PROVE  LogInv'
<1>1. TypeOK
  BY DEF LogInv
<1>2. /\ failures' \in 0 .. MaxFailures /\ UNCHANGED <<opens, appended>>
  <2>1. failures \in 0 .. MaxFailures /\ failures < MaxFailures /\ failures' = failures + 1
        /\ MaxFailures \in Nat
    BY <1>1, DiskTypes, LogAssumption DEF Fail
  <2> QED
    BY <2>1 DEF Fail
<1>3. \/ op' = "down" /\ Gone
      \/ op' = "idle" /\ todo' = <<>> /\ failed' = TRUE
  BY DEF Fail, Gone
<1>4. todo' = <<>> /\ failed' \in BOOLEAN /\ op' \in {"down", "idle"}
  BY <1>3 DEF Gone
<1>5. /\ st' \in LogStates /\ buffer' \in Seq(EventRecords) /\ Whole(buffer')
      /\ taken' \in Seq(1 .. appended) /\ fileOpen' \in BOOLEAN
  <2>1. CASE op' = "down"
    <3>1. Gone
      BY <1>3, <2>1
    <3>2. <<>> \in Seq(EventRecords) /\ Len(<<>>) = 0 /\ <<>> \in Seq(1 .. appended)
      BY EmptySeq
    <3>3. ScanStart(1) \in LogStates
      BY ScanStartType
    <3>4. st' = ScanStart(1) /\ buffer' = <<>> /\ taken' = <<>> /\ fileOpen' = FALSE
      BY <3>1 DEF Gone
    <3>5. Whole(<<>>)
      BY <3>2 DEF Whole
    <3> QED
      BY <3>2, <3>3, <3>4, <3>5
  <2>2. CASE op' # "down"
    BY <1>1, <2>2 DEF TypeOK
  <2> QED
    BY <2>1, <2>2
<1>6. Program(todo', st') /\ CutKnown(todo', st', file', summarised')
  BY <1>4, Starts
<1>7. TypeOK'
  <2>1. todo' \in Seq(Writes)
    BY <1>6 DEF Program
  <2> QED
    BY <1>1, <1>2, <1>4, <1>5, <2>1 DEF TypeOK, Writes
<1>8. Kept(file', buffer', damaged', synced', summarised')
  BY <1>5 DEF Kept
<1> QED
  BY <1>2, <1>6, <1>7, <1>8 DEF LogInv

\* A write that is done leaves the rest of the program.
LEMMA DoneLeaves ==
    ASSUME LogInv, NEW name, Step(name), Done
    PROVE  /\ todo # <<>> /\ Head(todo) = name /\ todo' = Tail(todo)
           /\ Program(todo', st) /\ (name # "summary_hook" => CutKnown(todo', st, file, summarised))
           /\ op \notin {"down", "idle"}
           /\ UNCHANGED <<op, failed, opens, failures, appended>>
<1>1. todo # <<>> /\ Head(todo) = name /\ todo' = Tail(todo)
      /\ UNCHANGED <<op, failed, opens, failures, appended>>
  BY DEF Step, Done, boundVars
<1>2. Program(todo, st) /\ CutKnown(todo, st, file, summarised) /\ op \notin {"down", "idle"}
  BY <1>1 DEF LogInv, TypeOK
<1>3. Program(todo', st)
  BY <1>1, <1>2, ProgramTail
<1>4. name # "summary_hook" => CutKnown(todo', st, file, summarised)
  BY <1>1, <1>2, Continues
<1> QED
  BY <1>1, <1>2, <1>3, <1>4

\* A write that is done and changes only the metadata files.
LEMMA LogMeta ==
    ASSUME LogInv, NEW name, Step(name), Done, name # "summary_hook",
           manifest' = Absent \/ manifest' \in Manifests,
           index' = Absent \/ index' \in Seq(IndexEntries),
           marker' = Absent \/ marker' \in Markers,
           UNCHANGED <<file, st, buffer, fileOpen, synced, summarised, durableTurns, taken, damaged>>
    PROVE  LogInv'
<1>1. /\ Program(todo', st) /\ CutKnown(todo', st, file, summarised)
      /\ op \notin {"down", "idle"}
      /\ UNCHANGED <<op, failed, opens, failures, appended>>
  BY DoneLeaves
<1>2. TypeOK'
  <2>1. todo' \in Seq(Writes)
    BY <1>1 DEF Program
  <2>2. TypeOK
    BY DEF LogInv
  <2> QED
    BY <1>1, <2>1, <2>2 DEF TypeOK, Writes, Manifests, Markers
<1> QED
  BY <1>1, <1>2 DEF LogInv

\* The buffer is written and synced.
LEMMA LogFlushWrite == LogInv /\ flush_write_buf => LogInv'
<1> SUFFICES ASSUME LogInv, flush_write_buf PROVE LogInv'
  OBVIOUS
<1>1. TypeOK /\ Ordered(file, buffer, appended) /\ Kept(file, buffer, damaged, synced, summarised)
  BY DEF LogInv
<1>2. /\ file \in Seq(EventRecords) /\ buffer \in Seq(EventRecords) /\ appended \in Nat
      /\ st \in LogStates /\ synced \cup summarised \subseteq 1 .. appended
  BY <1>1, DiskTypes
<1>3. /\ Step("flush_write_buf") /\ Done
      /\ UNCHANGED <<manifest, index, marker, st, fileOpen, summarised, taken, damaged>>
  BY DEF flush_write_buf
<1>4. /\ todo # <<>> /\ Head(todo) = "flush_write_buf" /\ todo' = Tail(todo)
      /\ Program(todo', st) /\ CutKnown(todo', st, file, summarised)
      /\ op \notin {"down", "idle"}
      /\ UNCHANGED <<op, failed, opens, failures, appended>>
  BY <1>3, DoneLeaves
<1>5. CASE buffer = <<>>
  <2>1. UNCHANGED <<file, buffer, synced, durableTurns>>
    BY <1>5 DEF flush_write_buf
  <2>2. manifest = Absent \/ manifest \in Manifests
    BY <1>1, DiskTypes
  <2>3. index = Absent \/ index \in Seq(IndexEntries)
    BY <1>1, DiskTypes
  <2>4. marker = Absent \/ marker \in Markers
    BY <1>1, DiskTypes
  <2> QED
    BY <1>3, <2>1, <2>2, <2>3, <2>4, LogMeta
<1>6. CASE buffer # <<>>
  <2>1. /\ file' = file \o buffer /\ synced' = synced \cup Ids(buffer) /\ buffer' = <<>>
        /\ durableTurns' = AtLeast(durableTurns, st.turnCount)
    BY <1>6 DEF flush_write_buf
  <2>2. /\ file' \in Seq(EventRecords) /\ Len(file') = Len(file) + Len(buffer)
        /\ Len(file) \in Nat /\ Len(buffer) \in Nat
    BY <1>2, <2>1, Joined
  <2>3. Ordered(file', buffer', appended')
    <3>1. Len(buffer) <= Len(buffer) /\ \A i \in 1 .. Len(buffer) : buffer[i].id = buffer[i].id
      BY <2>2
    <3> QED
      BY <1>1, <1>2, <1>4, <2>1, <3>1, OrderedWrite
  <2>4. Kept(file', buffer', damaged', synced', summarised')
    <3>1. Ids(file') = Ids(file) \cup Ids(buffer)
      BY <1>2, <2>1, IdsOfWrite
    <3>2. Whole(<<>>)
      BY EmptySeq DEF Whole
    <3>3. ASSUME ~damaged PROVE Whole(file')
      BY <1>1, <1>2, <2>1, <3>3, WholeWrite DEF Kept
    <3> QED
      BY <1>1, <1>3, <2>1, <3>1, <3>2, <3>3 DEF Kept
  <2>5. CutKnown(todo', st', file', summarised')
    <3>1. Head(todo') \notin {"write_marker", "replace_file"} \/ todo' = <<>>
      BY <1>4, ProgramNext DEF LogInv
    <3> QED
      BY <3>1 DEF CutKnown
  <2>6. TypeOK'
    <3>1. durableTurns' \in Nat
      <4>1. durableTurns \in Nat /\ st.turnCount \in Nat
        BY <1>1, <1>2 DEF TypeOK, LogStates
      <4> QED
        BY <2>1, <4>1 DEF AtLeast
    <3>2. Ids(buffer) \subseteq 1 .. appended
      BY <1>1 DEF Ordered, Ids
    <3>3. synced' \cup summarised' \subseteq 1 .. appended'
      BY <1>2, <1>3, <1>4, <2>1, <3>2
    <3>4. todo' \in Seq(Writes) /\ <<>> \in Seq(EventRecords)
      BY <1>4, EmptySeq DEF Program
    <3> QED
      BY <1>1, <1>3, <1>4, <2>1, <2>2, <3>1, <3>3, <3>4 DEF TypeOK, Writes
  <2> QED
    BY <1>3, <1>4, <2>3, <2>4, <2>5, <2>6 DEF LogInv
<1> QED
  BY <1>5, <1>6

\* The write of the buffer fails, in each of its three ways.
LEMMA LogWriteFails ==
    LogInv /\ (flush_write_buf_rolled_back \/ flush_write_buf_unsynced
               \/ flush_write_buf_not_rolled_back) => LogInv'
<1> SUFFICES ASSUME LogInv,
                    flush_write_buf_rolled_back \/ flush_write_buf_unsynced
                    \/ flush_write_buf_not_rolled_back
             PROVE  LogInv'
  OBVIOUS
<1>1. TypeOK /\ Ordered(file, buffer, appended) /\ Kept(file, buffer, damaged, synced, summarised)
  BY DEF LogInv
<1>2. /\ file \in Seq(EventRecords) /\ buffer \in Seq(EventRecords) /\ appended \in Nat
      /\ taken \in Seq(1 .. appended) /\ fileOpen \in BOOLEAN /\ damaged \in BOOLEAN
      /\ Len(buffer) \in Nat /\ Len(file) \in Nat
  BY <1>1, DiskTypes, LenProperties DEF TypeOK
<1>3. /\ todo # <<>> /\ Fail
      /\ UNCHANGED <<manifest, index, marker, synced, summarised, durableTurns>>
  BY DEF flush_write_buf_rolled_back, flush_write_buf_unsynced, flush_write_buf_not_rolled_back,
         Step, diskVars
<1>4. op' = "down" => buffer' = <<>>
  BY <1>3, Zenon DEF Fail, Gone
<1>5. CASE flush_write_buf_rolled_back
  <2>1. file' = file /\ damaged' = damaged
        /\ (op' # "down" => UNCHANGED <<st, buffer, fileOpen, taken>>)
    BY <1>5 DEF flush_write_buf_rolled_back, diskVars
  <2>2. Ordered(file', buffer', appended)
    BY <1>1, <1>4, <2>1, OrderedDrop
  <2>3. ~damaged' => ~damaged /\ Whole(file') /\ synced \subseteq Ids(file') \cup summarised
    BY <1>1, <2>1 DEF Kept
  <2>4. op' # "down" => /\ buffer' \in Seq(EventRecords) /\ Whole(buffer')
                        /\ taken' \in Seq(1 .. appended) /\ fileOpen' \in BOOLEAN /\ st' = st
    BY <1>1, <1>2, <2>1 DEF Kept
  <2> QED
    BY <1>2, <1>3, <2>1, <2>2, <2>3, <2>4, LogFail
<1>6. CASE flush_write_buf_unsynced
  <2>1. file' = file \o buffer /\ damaged' = damaged
        /\ (op' # "down" => buffer' = <<>> /\ UNCHANGED <<st, fileOpen, taken>>)
    BY <1>6 DEF flush_write_buf_unsynced
  <2>2. buffer' = <<>> /\ <<>> \in Seq(EventRecords) /\ Len(<<>>) = 0
    BY <1>4, <2>1, EmptySeq
  <2>3. file' \in Seq(EventRecords)
    BY <1>2, <2>1, Joined
  <2>4. Ordered(file', buffer', appended)
    <3>1. Len(buffer) <= Len(buffer) /\ \A i \in 1 .. Len(buffer) : buffer[i].id = buffer[i].id
      BY <1>2
    <3> QED
      BY <1>1, <1>2, <2>1, <2>2, <3>1, OrderedWrite
  <2>5. ~damaged' => ~damaged /\ Whole(file') /\ synced \subseteq Ids(file') \cup summarised
    <3>1. Ids(file') = Ids(file) \cup Ids(buffer)
      BY <1>2, <2>1, IdsOfWrite
    <3>2. ASSUME ~damaged PROVE Whole(file')
      BY <1>1, <1>2, <2>1, <3>2, WholeWrite DEF Kept
    <3> QED
      BY <1>1, <2>1, <3>1, <3>2 DEF Kept
  <2>6. op' # "down" => /\ buffer' \in Seq(EventRecords) /\ Whole(buffer')
                        /\ taken' \in Seq(1 .. appended) /\ fileOpen' \in BOOLEAN /\ st' = st
    BY <1>2, <2>1, <2>2 DEF Whole
  <2> QED
    BY <1>2, <1>3, <2>1, <2>3, <2>4, <2>5, <2>6, LogFail
<1>7. CASE flush_write_buf_not_rolled_back
  <2>1. damaged' = TRUE
    BY <1>7 DEF flush_write_buf_not_rolled_back
  <2>2. PICK part \in CutShort(buffer) :
          /\ file' = file \o part
          /\ op' # "down" =>
               /\ buffer' = <<>>
               /\ taken' = SubSeq(taken, 1, Len(taken) - (Len(buffer) - ReadableCount(part)))
               /\ UNCHANGED <<st, fileOpen>>
    BY <1>7 DEF flush_write_buf_not_rolled_back
  <2>3. /\ part \in Seq(EventRecords) /\ Len(part) <= Len(buffer)
        /\ \A i \in 1 .. Len(part) : part[i].id = buffer[i].id
    BY <1>2, CutShortIs
  <2>4. buffer' = <<>> /\ <<>> \in Seq(EventRecords) /\ Len(<<>>) = 0
    BY <1>4, <2>2, EmptySeq
  <2>5. file' \in Seq(EventRecords) /\ Ordered(file', buffer', appended)
    BY <1>1, <1>2, <2>2, <2>3, <2>4, Joined, OrderedWrite
  <2>6. ASSUME op' # "down" PROVE taken' \in Seq(1 .. appended)
    <3> DEFINE k == Len(taken) - (Len(buffer) - ReadableCount(part))
    <3>1. /\ Len(taken) \in Nat /\ Len(part) \in Nat
          /\ \A i \in 1 .. Len(taken) : taken[i] \in 1 .. appended
      BY <1>2, <2>3, LenProperties, ElementOfSeq
    <3>2. ReadableCount(part) \in 0 .. Len(part)
      BY <3>1, CountType
    <3>3. k \in Int /\ k <= Len(taken)
      BY <1>2, <2>3, <3>1, <3>2
    <3> HIDE DEF k
    <3>4. \A i \in 1 .. k : taken[i] \in 1 .. appended
      BY <3>1, <3>3
    <3>5. SubSeq(taken, 1, k) \in Seq(1 .. appended)
      BY <3>3, <3>4, SubSeqProperties
    <3> QED
      BY <2>2, <2>6, <3>5 DEF k
  <2>7. op' # "down" => /\ buffer' \in Seq(EventRecords) /\ Whole(buffer')
                        /\ taken' \in Seq(1 .. appended) /\ fileOpen' \in BOOLEAN /\ st' = st
    BY <1>2, <2>2, <2>4, <2>6 DEF Whole
  <2> QED
    BY <1>3, <2>1, <2>5, <2>7, LogFail
<1> QED
  BY <1>5, <1>6, <1>7

\* The writes of the metadata files.
LEMMA LogMetadata ==
    LogInv /\ (write_turn_index \/ write_manifest \/ clear_pending_cap_rewrite) => LogInv'
<1> SUFFICES ASSUME LogInv, write_turn_index \/ write_manifest \/ clear_pending_cap_rewrite
             PROVE  LogInv'
  OBVIOUS
<1>1. /\ st \in LogStates
      /\ manifest = Absent \/ manifest \in Manifests
      /\ index = Absent \/ index \in Seq(IndexEntries)
      /\ marker = Absent \/ marker \in Markers
  BY DiskTypes DEF LogInv
<1>2. st.entries \in Seq(IndexEntries) /\ st.offset \in Nat
  BY <1>1 DEF LogStates
<1>3. CASE write_turn_index
  <2>1. /\ Step("write_index") /\ Done /\ index' = st.entries
        /\ UNCHANGED <<file, manifest, marker, st, buffer, fileOpen, synced, summarised,
                       durableTurns, taken, damaged>>
    BY <1>3 DEF write_turn_index, historyVars
  <2>2. index' = Absent \/ index' \in Seq(IndexEntries)
    BY <1>2, <2>1
  <2>3. manifest' = Absent \/ manifest' \in Manifests
    BY <1>1, <2>1
  <2>4. marker' = Absent \/ marker' \in Markers
    BY <1>1, <2>1
  <2> QED
    BY <2>1, <2>2, <2>3, <2>4, LogMeta
<1>4. CASE write_manifest
  <2>1. /\ Step("write_manifest") /\ Done /\ manifest' = PersistedManifest(st, st.offset)
        /\ UNCHANGED <<file, index, marker, st, buffer, fileOpen, synced, summarised,
                       durableTurns, taken, damaged>>
    BY <1>4 DEF write_manifest, historyVars
  <2>2. manifest' = Absent \/ manifest' \in Manifests
    BY <1>1, <1>2, <2>1, PersistedManifestType
  <2>3. index' = Absent \/ index' \in Seq(IndexEntries)
    BY <1>1, <2>1
  <2>4. marker' = Absent \/ marker' \in Markers
    BY <1>1, <2>1
  <2> QED
    BY <2>1, <2>2, <2>3, <2>4, LogMeta
<1>5. CASE clear_pending_cap_rewrite
  <2>1. /\ Step("clear_marker") /\ Done /\ marker' = Absent
        /\ UNCHANGED <<file, index, manifest, st, buffer, fileOpen, synced, summarised,
                       durableTurns, taken, damaged>>
    BY <1>5 DEF clear_pending_cap_rewrite, historyVars
  <2>2. manifest' = Absent \/ manifest' \in Manifests
    BY <1>1, <2>1
  <2>3. index' = Absent \/ index' \in Seq(IndexEntries)
    BY <1>1, <2>1
  <2> QED
    BY <2>1, <2>2, <2>3, LogMeta
<1> QED
  BY <1>3, <1>4, <1>5

\* The cap is enforced, or there is nothing to enforce.
LEMMA LogPlan == LogInv /\ enforce_event_cap => LogInv'
<1> SUFFICES ASSUME LogInv, enforce_event_cap PROVE LogInv'
  OBVIOUS
<1> DEFINE rewrite == <<"flush_write_buf", "summary_hook", "write_marker", "replace_file",
                        "write_index", "write_manifest", "clear_marker">>
<1>1. /\ Step("enforce_event_cap")
      /\ todo' = IF NeedsEviction(st, MaxEvents) THEN rewrite ELSE <<>>
      /\ UNCHANGED <<file, manifest, index, marker, op, st, buffer, fileOpen, failed, opens,
                     failures, appended, synced, summarised, durableTurns, taken, damaged>>
  BY DEF enforce_event_cap, diskVars, boundVars, historyVars
<1>2. Program(todo', st)
  <2>1. CASE NeedsEviction(st, MaxEvents)
    <3>1. todo' = rewrite
      BY <1>1, <2>1
    <3> QED
      BY <2>1, <3>1, Programs
  <2>2. CASE ~NeedsEviction(st, MaxEvents)
    <3>1. todo' = <<>>
      BY <1>1, <2>2
    <3> QED
      BY <3>1, Programs
  <2> QED
    BY <2>1, <2>2
<1>3. CutKnown(todo', st, file, summarised)
  <2>1. Head(rewrite) = "flush_write_buf"
    OBVIOUS
  <2> HIDE DEF rewrite
  <2> QED
    BY <1>1, <2>1 DEF CutKnown
<1>4. TypeOK'
  <2>1. op \notin {"down", "idle"}
    BY <1>1 DEF Step, LogInv, TypeOK
  <2>2. todo' \in Seq(Writes) /\ TypeOK
    BY <1>2 DEF Program, LogInv
  <2> HIDE DEF rewrite
  <2> QED
    BY <1>1, <2>1, <2>2 DEF TypeOK, Writes
<1> HIDE DEF rewrite
<1> QED
  BY <1>1, <1>2, <1>3, <1>4 DEF LogInv

\* A plan that is being carried out cuts the file in two.
LEMMA PlannedCut ==
    ASSUME LogInv, todo # <<>>, Head(todo) \in Rewriting
    PROVE  /\ Evictable(st) > 0 /\ MaxEvents \in Nat /\ st \in LogStates
           /\ EvictedTurns(st, MaxEvents) \in 1 .. Len(st.entries)
           /\ Cut \in Nat
           /\ Head(todo) # "summary_hook" =>
                 Cut \in 0 .. Len(file) /\ ReadableIds(EvictedRecords) \subseteq summarised
<1>1. NeedsEviction(st, MaxEvents) /\ st \in LogStates /\ file \in Seq(EventRecords)
  BY ProgramHead, DiskTypes DEF LogInv
<1>2. Evictable(st) > 0 /\ MaxEvents \in Nat
  BY <1>1, LogAssumption DEF NeedsEviction
<1>3. EvictedTurns(st, MaxEvents) \in 1 .. Len(st.entries) /\ Cut \in Nat
  BY <1>1, <1>2, CutType DEF Cut
<1>4. ASSUME Head(todo) # "summary_hook"
      PROVE  Cut \in 0 .. Len(file) /\ ReadableIds(EvictedRecords) \subseteq summarised
  <2>1. Cut <= Len(file) /\ ReadableIds(EvictedRecords) \subseteq summarised
    BY <1>4 DEF LogInv, CutKnown, Rewriting, Cut, EvictedRecords
  <2>2. Len(file) \in Nat
    BY <1>1, LenProperties
  <2> QED
    BY <1>3, <2>1, <2>2
<1> QED
  BY <1>1, <1>2, <1>3, <1>4

\* The evicted part goes to the summary hook; from here on the plan is known to cut
\* the file where its records were handed over.
LEMMA LogSummary == LogInv /\ summary_hook => LogInv'
<1> SUFFICES ASSUME LogInv, summary_hook PROVE LogInv'
  OBVIOUS
<1>1. /\ Step("summary_hook") /\ Done /\ Cut <= Len(file)
      /\ summarised' = summarised \cup ReadableIds(EvictedRecords)
      /\ UNCHANGED <<file, manifest, index, marker, st, buffer, fileOpen, synced, durableTurns,
                     taken, damaged>>
  BY DEF summary_hook, diskVars
<1>2. /\ todo # <<>> /\ Head(todo) = "summary_hook" /\ Program(todo', st)
      /\ op \notin {"down", "idle"} /\ UNCHANGED <<op, failed, opens, failures, appended>>
  BY <1>1, DoneLeaves
<1>3. TypeOK /\ Ordered(file, buffer, appended) /\ Kept(file, buffer, damaged, synced, summarised)
  BY DEF LogInv
<1>4. file \in Seq(EventRecords) /\ synced \cup summarised \subseteq 1 .. appended
  BY <1>3, DiskTypes
<1>5. Cut \in 0 .. Len(file)
  <2>1. Cut \in Nat /\ Len(file) \in Nat
    BY <1>2, <1>4, PlannedCut, LenProperties DEF Rewriting
  <2> QED
    BY <1>1, <2>1
<1>6. ReadableIds(EvictedRecords) \subseteq 1 .. appended
  <2> DEFINE a == EvictedRecords
  <2>1. Len(a) = Cut /\ \A i \in 1 .. Cut : a[i] = file[i]
    BY <1>4, <1>5, Halves DEF EvictedRecords
  <2>2. \A i \in 1 .. Cut : file[i].id \in 1 .. appended
    BY <1>3, <1>4, <1>5, LenProperties DEF Ordered
  <2> HIDE DEF a
  <2>3. ReadableIds(a) \subseteq 1 .. appended
    BY <2>1, <2>2 DEF ReadableIds
  <2> QED
    BY <2>3 DEF a
<1>7. CutKnown(todo', st', file', summarised')
  BY <1>1 DEF CutKnown, Cut, EvictedRecords
<1>8. Kept(file', buffer', damaged', synced', summarised')
  BY <1>1, <1>3 DEF Kept
<1>9. TypeOK'
  <2>1. todo' \in Seq(Writes)
    BY <1>2 DEF Program
  <2>2. synced' \cup summarised' \subseteq 1 .. appended'
    BY <1>1, <1>2, <1>4, <1>6
  <2> QED
    BY <1>1, <1>2, <1>3, <2>1, <2>2 DEF TypeOK, Writes
<1> QED
  BY <1>1, <1>2, <1>3, <1>7, <1>8, <1>9 DEF LogInv

\* The marker of the rewrite is written.
LEMMA LogMarker == LogInv /\ write_pending_cap_rewrite => LogInv'
<1> SUFFICES ASSUME LogInv, write_pending_cap_rewrite PROVE LogInv'
  OBVIOUS
<1>1. /\ Step("write_marker") /\ Done
      /\ marker' = [previousLen |-> Len(file), newLen |-> Len(Remaining),
                    base |-> retained_turn_base_after_eviction(st, EvictedTurns(st, MaxEvents))]
      /\ UNCHANGED <<file, manifest, index, st, buffer, fileOpen, synced, summarised,
                     durableTurns, taken, damaged>>
  BY DEF write_pending_cap_rewrite, historyVars
<1>2. /\ file \in Seq(EventRecords)
      /\ manifest = Absent \/ manifest \in Manifests
      /\ index = Absent \/ index \in Seq(IndexEntries)
  BY DiskTypes DEF LogInv
<1>3. /\ st \in LogStates /\ EvictedTurns(st, MaxEvents) \in 1 .. Len(st.entries)
      /\ Cut \in 0 .. Len(file)
  BY <1>1, PlannedCut DEF Step, Rewriting
<1>4. Len(Remaining) \in Nat /\ Len(file) \in Nat
  BY <1>2, <1>3, Halves, LenProperties DEF Remaining
<1>5. marker' \in Markers
  BY <1>1, <1>3, <1>4, RetainedBaseType DEF Markers
<1>6. manifest' = Absent \/ manifest' \in Manifests
  BY <1>1, <1>2
<1>7. index' = Absent \/ index' \in Seq(IndexEntries)
  BY <1>1, <1>2
<1> QED
  BY <1>1, <1>5, <1>6, <1>7, LogMeta

\* The file without its evicted part.
LEMMA Rewritten ==
    ASSUME LogInv, Step("replace_file")
    PROVE  /\ Cut \in 0 .. Len(file)
           /\ Remaining \in Seq(EventRecords) /\ Ordered(Remaining, buffer, appended)
           /\ ~damaged => Whole(Remaining) /\ synced \subseteq Ids(Remaining) \cup summarised
<1>1. file \in Seq(EventRecords)
  BY DiskTypes DEF LogInv
<1>2. Cut \in 0 .. Len(file) /\ ReadableIds(EvictedRecords) \subseteq summarised
  BY PlannedCut DEF Step, Rewriting
<1>3. Remaining \in Seq(EventRecords)
  BY <1>1, <1>2, Halves DEF Remaining
<1>4. Ordered(Remaining, buffer, appended)
  BY <1>1, <1>2, OrderedCut DEF LogInv, Remaining
<1>5. ASSUME ~damaged PROVE Whole(Remaining) /\ synced \subseteq Ids(Remaining) \cup summarised
  <2>1. Whole(file) /\ synced \subseteq Ids(file) \cup summarised
    BY <1>5 DEF LogInv, Kept
  <2>2. Whole(Remaining) /\ Ids(file) = ReadableIds(EvictedRecords) \cup Ids(Remaining)
    BY <1>1, <1>2, <2>1, WholeCut DEF Remaining, EvictedRecords
  <2> QED
    BY <1>2, <2>1, <2>2
<1> QED
  BY <1>2, <1>3, <1>4, <1>5

\* The event file is replaced by its retained part.
LEMMA LogReplace == LogInv /\ replace_event_file_contents => LogInv'
<1> SUFFICES ASSUME LogInv, replace_event_file_contents PROVE LogInv'
  OBVIOUS
<1>1. /\ Step("replace_file") /\ Done /\ file' = Remaining
      /\ st' = apply_cap_eviction(st, EvictedTurns(st, MaxEvents), Cut,
                                  ReadableCount(EvictedRecords), Len(Remaining))
      /\ UNCHANGED <<manifest, index, marker, buffer, fileOpen, synced, summarised,
                     durableTurns, taken, damaged>>
  BY DEF replace_event_file_contents, historyVars
<1>2. /\ todo # <<>> /\ Head(todo) = "replace_file" /\ todo' = Tail(todo) /\ Program(todo', st)
      /\ op \notin {"down", "idle"} /\ UNCHANGED <<op, failed, opens, failures, appended>>
  BY <1>1, DoneLeaves
<1>3. /\ Remaining \in Seq(EventRecords) /\ Ordered(Remaining, buffer, appended)
      /\ ~damaged => Whole(Remaining) /\ synced \subseteq Ids(Remaining) \cup summarised
      /\ Cut \in 0 .. Len(file)
  BY <1>1, Rewritten
<1>4. /\ TypeOK /\ file \in Seq(EventRecords)
      /\ Kept(file, buffer, damaged, synced, summarised)
  BY DiskTypes DEF LogInv
<1>5. st' \in LogStates
  <2>1. /\ st \in LogStates /\ EvictedTurns(st, MaxEvents) \in 1 .. Len(st.entries)
        /\ Cut \in Nat
    BY <1>2, PlannedCut DEF Rewriting
  <2>2. Len(Remaining) \in Nat
    BY <1>3, LenProperties
  <2>3. ReadableCount(EvictedRecords) \in Nat
    <3>1. Len(EvictedRecords) \in Nat
      BY <1>3, <1>4, Halves DEF EvictedRecords
    <3>2. ReadableCount(EvictedRecords) \in 0 .. Len(EvictedRecords)
      BY <3>1, CountType
    <3> QED
      BY <3>1, <3>2
  <2> QED
    BY <1>1, <2>1, <2>2, <2>3, CapEvictionType
<1>6. Program(todo', st')
  <2>1. \A i \in 1 .. Len(todo') : todo'[i] \notin Rewriting
    BY <1>2, ProgramHead DEF LogInv
  <2> QED
    BY <1>2, <2>1, ProgramQuiet
<1>7. CutKnown(todo', st', file', summarised')
  <2>1. todo' = <<>> \/ Head(todo') \notin {"write_marker", "replace_file"}
    BY <1>2, ProgramNext DEF LogInv
  <2> QED
    BY <2>1 DEF CutKnown
<1>8. TypeOK'
  <2>1. todo' \in Seq(Writes)
    BY <1>2 DEF Program
  <2> QED
    BY <1>1, <1>2, <1>3, <1>4, <1>5, <2>1 DEF TypeOK, Writes
<1>9. Kept(file', buffer', damaged', synced', summarised')
  BY <1>1, <1>3, <1>4 DEF Kept
<1>10. Ordered(file', buffer', appended')
  BY <1>1, <1>2, <1>3
<1> QED
  BY <1>6, <1>7, <1>8, <1>9, <1>10 DEF LogInv

\* The rewrite, or the write of another file, fails.
LEMMA LogOtherFails ==
    LogInv /\ (replace_event_file_contents_fails \/ WriteFails) => LogInv'
<1> SUFFICES ASSUME LogInv, replace_event_file_contents_fails \/ WriteFails PROVE LogInv'
  OBVIOUS
<1>1. /\ TypeOK /\ Ordered(file, buffer, appended)
      /\ Kept(file, buffer, damaged, synced, summarised)
  BY DEF LogInv
<1>2. /\ file \in Seq(EventRecords) /\ buffer \in Seq(EventRecords)
      /\ taken \in Seq(1 .. appended) /\ fileOpen \in BOOLEAN /\ damaged \in BOOLEAN
  BY <1>1, DiskTypes DEF TypeOK
<1>3. CASE replace_event_file_contents_fails
  <2>1. /\ Step("replace_file") /\ todo # <<>> /\ Fail
        /\ file' \in {file, Remaining} /\ fileOpen' \in BOOLEAN
        /\ UNCHANGED <<manifest, index, marker, st, buffer, synced, summarised, durableTurns,
                       taken, damaged>>
    BY <1>3 DEF replace_event_file_contents_fails, Step, historyVars
  <2>2. /\ file' \in Seq(EventRecords) /\ Ordered(file', buffer, appended)
        /\ ~damaged => Whole(file') /\ synced \subseteq Ids(file') \cup summarised
    <3>1. CASE file' = file
      BY <1>1, <1>2, <3>1 DEF Kept
    <3>2. CASE file' = Remaining
      BY <2>1, <3>2, Rewritten
    <3> QED
      BY <2>1, <3>1, <3>2
  <2>3. buffer' \in Seq(EventRecords) /\ Whole(buffer') /\ taken' \in Seq(1 .. appended)
    BY <1>1, <1>2, <2>1 DEF Kept
  <2>4. Ordered(file', buffer', appended)
    BY <2>1, <2>2
  <2> QED
    BY <1>2, <2>1, <2>2, <2>3, <2>4, LogFail
<1>4. CASE WriteFails
  <2>1. /\ todo # <<>> /\ Fail
        /\ op' # "down" => UNCHANGED <<st, buffer, fileOpen, taken>>
        /\ UNCHANGED <<file, manifest, index, marker, synced, summarised, durableTurns, damaged>>
    BY <1>4 DEF WriteFails, Step, diskVars
  <2>2. op' = "down" => buffer' = <<>>
    BY <2>1, Zenon DEF Fail, Gone
  <2>3. Ordered(file', buffer', appended)
    BY <1>1, <2>1, <2>2, OrderedDrop
  <2>4. op' # "down" => /\ buffer' \in Seq(EventRecords) /\ Whole(buffer')
                        /\ taken' \in Seq(1 .. appended) /\ fileOpen' \in BOOLEAN /\ st' = st
    BY <1>1, <1>2, <2>1 DEF Kept
  <2>5. ~damaged' => ~damaged /\ Whole(file') /\ synced \subseteq Ids(file') \cup summarised
    BY <1>1, <2>1 DEF Kept
  <2>6. file' \in Seq(EventRecords) /\ damaged' \in BOOLEAN
    BY <1>2, <2>1
  <2> QED
    BY <2>1, <2>3, <2>4, <2>5, <2>6, LogFail
<1> QED
  BY <1>3, <1>4

\* Every step keeps the invariant.
LEMMA LogStep == LogInv /\ [Next]_vars => LogInv'
<1> SUFFICES ASSUME LogInv, [Next]_vars PROVE LogInv'
  OBVIOUS
<1>1. CASE Open
  BY <1>1, LogOpen
<1>2. ASSUME NEW kind \in Kinds, append(kind) PROVE LogInv'
  BY <1>2, LogAppend
<1>3. CASE flush \/ Drop
  BY <1>3, LogFlush
<1>4. CASE Return
  BY <1>4, LogReturn
<1>5. CASE Crash
  BY <1>5, LogCrash
<1>6. CASE Write
  <2>1. CASE flush_write_buf
    BY <2>1, LogFlushWrite
  <2>2. CASE \/ flush_write_buf_rolled_back \/ flush_write_buf_not_rolled_back
             \/ flush_write_buf_unsynced
    BY <2>2, LogWriteFails
  <2>3. CASE write_turn_index \/ write_manifest \/ clear_pending_cap_rewrite
    BY <2>3, LogMetadata
  <2>4. CASE enforce_event_cap
    BY <2>4, LogPlan
  <2>5. CASE summary_hook
    BY <2>5, LogSummary
  <2>6. CASE write_pending_cap_rewrite
    BY <2>6, LogMarker
  <2>7. CASE replace_event_file_contents
    BY <2>7, LogReplace
  <2>8. CASE replace_event_file_contents_fails \/ WriteFails
    BY <2>8, LogOtherFails
  <2> QED
    BY <1>6, <2>1, <2>2, <2>3, <2>4, <2>5, <2>6, <2>7, <2>8 DEF Write
<1>7. CASE UNCHANGED vars
  BY <1>7 DEF vars, diskVars, boundVars, historyVars, LogInv, TypeOK
<1> QED
  BY <1>1, <1>2, <1>3, <1>4, <1>5, <1>6, <1>7 DEF Next

\* The invariant holds in every reachable state.
LEMMA LogInvariant == Spec => []LogInv
BY LogInit, LogStep, PTL DEF Spec

\* The log and its files stay within their types, however writes fail and processes end.
THEOREM TypeCorrect == Spec => []TypeOK
BY LogInvariant, LogInvImplies, PTL

\* No event is in the file or the buffer twice or out of order.
THEOREM EachOnce == Spec => []EachEventOnce
BY LogInvariant, LogInvImplies, PTL

\* Unless a write was cut short, an event that was synced is in the file, readable,
\* or was handed to the summary hook before it left.
THEOREM SyncedKept == Spec => []SyncedIsKeptOrSummarised
BY LogInvariant, LogInvImplies, PTL

-------------------------------------------------------------------------------
(* Each process sees the canonical store *)

\* Where the synced events are among those that a process has handed in.
Positions(kept, syn) == {i \in 1 .. Len(kept) : kept[i] \in syn}

\* The buffer is the newest part of what the process has handed in, and not synced;
\* as long as nothing has failed, everything before it is.
Aligned(kept, b, syn, broken) ==
    /\ Len(b) <= Len(kept)
    /\ \A i \in 1 .. Len(b) : b[i].id = kept[Len(kept) - Len(b) + i]
    /\ \A i \in 1 .. Len(b) : b[i].id \notin syn
    /\ ~broken => \A i \in 1 .. Len(kept) - Len(b) : kept[i] \in syn

StoreInv ==
    /\ LogInv
    /\ Aligned(taken, buffer, synced, failed)
    /\ op = "down" => taken = <<>> /\ buffer = <<>>

\* Initially no process holds the log.
LEMMA StoreStart == Init => StoreInv
<1> SUFFICES ASSUME Init PROVE StoreInv
  OBVIOUS
<1>1. LogInv
  BY LogInit
<1>2. Len(<<>>) = 0
  BY EmptySeq
<1>3. Aligned(<<>>, <<>>, synced, failed)
  BY <1>2 DEF Aligned
<1> QED
  BY <1>1, <1>3 DEF Init, StoreInv

\* At most all of what was handed in is synced.
LEMMA PositionsCount ==
    ASSUME NEW t, Len(t) \in Nat, NEW syn
    PROVE  /\ IsFiniteSet(Positions(t, syn)) /\ Cardinality(Positions(t, syn)) \in 0 .. Len(t)
           /\ Positions(t, syn) = 1 .. Len(t) => Cardinality(Positions(t, syn)) = Len(t)
<1>1. IsFiniteSet(1 .. Len(t)) /\ Cardinality(1 .. Len(t)) = Len(t)
  <2>1. 1 \in Int /\ Len(t) \in Int
    OBVIOUS
  <2>2. /\ IsFiniteSet(1 .. Len(t))
        /\ Cardinality(1 .. Len(t)) = IF 1 > Len(t) THEN 0 ELSE Len(t) - 1 + 1
    BY <2>1, FS_Interval
  <2> QED
    BY <2>2
<1>2. Positions(t, syn) \in SUBSET (1 .. Len(t))
  BY DEF Positions
<1>3. /\ IsFiniteSet(Positions(t, syn))
      /\ Cardinality(Positions(t, syn)) <= Cardinality(1 .. Len(t))
  BY <1>1, <1>2, FS_Subset
<1>4. Cardinality(Positions(t, syn)) \in Nat
  BY <1>3, FS_CardinalityType
<1>5. Cardinality(Positions(t, syn)) \in 0 .. Len(t)
  BY <1>1, <1>3, <1>4
<1> QED
  BY <1>1, <1>3, <1>5

\* Syncing more does not lose positions.
LEMMA PositionsGrow ==
    ASSUME NEW t, Len(t) \in Nat, NEW syn, NEW more
    PROVE  Cardinality(Positions(t, syn)) <= Cardinality(Positions(t, syn \cup more))
<1>1. Positions(t, syn) \in SUBSET Positions(t, syn \cup more)
  BY DEF Positions
<1> QED
  BY <1>1, PositionsCount, FS_Subset

\* The new event is the newest of what was handed in, and is not synced.
LEMMA AlignedAppend ==
    ASSUME NEW n \in Nat, NEW t \in Seq(1 .. n), NEW b \in Seq(EventRecords), NEW syn, NEW broken,
           Aligned(t, b, syn, broken), syn \subseteq 1 .. n, NEW r \in EventRecords, r.id = n + 1
    PROVE  /\ Aligned(Append(t, n + 1), Append(b, r), syn, broken)
           /\ Positions(Append(t, n + 1), syn) = Positions(t, syn)
           /\ Len(Append(t, n + 1)) = Len(t) + 1
<1> DEFINE u == Append(t, n + 1)
           c == Append(b, r)
<1>1. /\ Len(u) = Len(t) + 1 /\ Len(t) \in Nat
      /\ u[Len(t) + 1] = n + 1 /\ \A i \in 1 .. Len(t) : u[i] = t[i]
  <2>1. t \in Seq(Nat) /\ n + 1 \in Nat
    <3>1. 1 .. n \subseteq Nat
      OBVIOUS
    <3> QED
      BY <3>1, SeqMonotonic
  <2> QED
    BY <2>1, AppendProperties, LenProperties
<1>2. /\ Len(c) = Len(b) + 1 /\ Len(b) \in Nat
      /\ c[Len(b) + 1] = r /\ \A i \in 1 .. Len(b) : c[i] = b[i]
  BY AppendProperties, LenProperties
<1>3. n + 1 \notin syn
  OBVIOUS
<1> HIDE DEF u, c
<1>4. Len(c) <= Len(u) /\ Len(u) - Len(c) = Len(t) - Len(b) /\ Len(b) <= Len(t)
  BY <1>1, <1>2 DEF Aligned
<1>5. ASSUME NEW i \in 1 .. Len(c) PROVE c[i].id = u[Len(u) - Len(c) + i] /\ c[i].id \notin syn
  <2>1. CASE i \in 1 .. Len(b)
    <3>1. Len(t) - Len(b) + i \in 1 .. Len(t)
      BY <1>1, <1>2, <1>4, <2>1
    <3>2. b[i].id = t[Len(t) - Len(b) + i] /\ b[i].id \notin syn
      BY <2>1 DEF Aligned
    <3> QED
      BY <1>1, <1>2, <1>4, <2>1, <3>1, <3>2
  <2>2. CASE i = Len(b) + 1
    <3>1. Len(u) - Len(c) + i = Len(t) + 1
      BY <1>1, <1>2, <2>2
    <3> QED
      BY <1>1, <1>2, <1>3, <2>2, <3>1
  <2> QED
    BY <1>2, <2>1, <2>2
<1>6. ASSUME ~broken, NEW i \in 1 .. Len(u) - Len(c) PROVE u[i] \in syn
  <2>1. i \in 1 .. Len(t) - Len(b) /\ i \in 1 .. Len(t)
    BY <1>1, <1>2, <1>4
  <2> QED
    BY <1>1, <1>6, <2>1 DEF Aligned
<1>7. Aligned(u, c, syn, broken)
  BY <1>4, <1>5, <1>6 DEF Aligned
<1>8. Positions(u, syn) = Positions(t, syn)
  <2>1. \A i \in 1 .. Len(u) : i \in 1 .. Len(t) \/ u[i] = n + 1
    BY <1>1
  <2>2. \A i \in 1 .. Len(t) : i \in 1 .. Len(u) /\ u[i] = t[i]
    BY <1>1
  <2> QED
    BY <1>3, <2>1, <2>2 DEF Positions
<1> QED
  BY <1>1, <1>7, <1>8 DEF u, c

\* A successful flush syncs everything, unless an earlier write has failed.
LEMMA AlignedFlush ==
    ASSUME NEW t, Len(t) \in Nat, NEW b, Len(b) \in Nat, NEW syn, NEW broken,
           Aligned(t, b, syn, broken)
    PROVE  /\ Aligned(t, <<>>, syn \cup Ids(b), broken)
           /\ ~broken => Positions(t, syn \cup Ids(b)) = 1 .. Len(t)
<1>1. Len(<<>>) = 0
  BY EmptySeq
<1>2. ASSUME ~broken, NEW i \in 1 .. Len(t) PROVE t[i] \in syn \cup Ids(b)
  <2>1. CASE i \in 1 .. Len(t) - Len(b)
    BY <1>2, <2>1 DEF Aligned
  <2>2. CASE i > Len(t) - Len(b)
    <3> DEFINE j == i - (Len(t) - Len(b))
    <3>1. j \in 1 .. Len(b) /\ Len(t) - Len(b) + j = i
      BY <2>2
    <3> HIDE DEF j
    <3>2. b[j].id = t[i]
      BY <3>1 DEF Aligned
    <3> QED
      BY <3>1, <3>2 DEF Ids
  <2> QED
    BY <2>1, <2>2
<1>3. ~broken => Positions(t, syn \cup Ids(b)) = 1 .. Len(t)
  BY <1>2 DEF Positions
<1>4. \A i \in 1 .. Len(t) - 0 : i \in 1 .. Len(t)
  OBVIOUS
<1>5. Aligned(t, <<>>, syn \cup Ids(b), broken)
  BY <1>1, <1>2, <1>4 DEF Aligned
<1> QED
  BY <1>3, <1>5

\* A log that has failed is aligned when its buffer is gone.
LEMMA AlignedBroken ==
    ASSUME NEW t, Len(t) \in Nat, NEW syn
    PROVE  Aligned(t, <<>>, syn, TRUE)
<1>1. Len(<<>>) = 0
  BY EmptySeq
<1> QED
  BY <1>1 DEF Aligned

\* Dropping events of the buffer drops nothing that was synced.
LEMMA AlignedShorter ==
    ASSUME NEW n, NEW t \in Seq(1 .. n), NEW b, Len(b) \in Nat, NEW syn, NEW broken,
           Aligned(t, b, syn, broken), NEW k \in Len(t) - Len(b) .. Len(t)
    PROVE  /\ k \in 0 .. Len(t)
           /\ Len(SubSeq(t, 1, k)) = k
           /\ Positions(SubSeq(t, 1, k), syn) = Positions(t, syn)
<1>1. Len(t) \in Nat /\ Len(b) <= Len(t) /\ \A i \in 1 .. Len(t) : t[i] \in 1 .. n
  BY LenProperties, ElementOfSeq DEF Aligned
<1>2. k \in Nat /\ k <= Len(t)
  BY <1>1
<1> DEFINE u == SubSeq(t, 1, k)
<1>3. Len(u) = k /\ \A i \in 1 .. k : u[i] = t[i]
  BY <1>1, <1>2, SubSeqProperties
<1> HIDE DEF u
<1>4. ASSUME NEW i \in 1 .. Len(t), i > k PROVE t[i] \notin syn
  <2> DEFINE j == i - (Len(t) - Len(b))
  <2>1. j \in 1 .. Len(b) /\ Len(t) - Len(b) + j = i
    BY <1>1, <1>2, <1>4
  <2> HIDE DEF j
  <2> QED
    BY <2>1 DEF Aligned
<1>5. Positions(u, syn) = Positions(t, syn)
  <2>1. \A i \in 1 .. Len(t) : i \in 1 .. k \/ i > k
    BY <1>1, <1>2
  <2>2. \A i \in 1 .. k : i \in 1 .. Len(t)
    BY <1>1, <1>2
  <2> QED
    BY <1>3, <1>4, <2>1, <2>2 DEF Positions
<1> QED
  BY <1>2, <1>3, <1>5 DEF u

\* What an append or a flush may do to the store.
StoreStep == [op # "down" /\ op' # "down" => Store!StoreNext]_(Store!storeVars)

\* Steps that neither take events in nor sync any.
LEMMA StoreQuiet ==
    ASSUME StoreInv, LogInv', UNCHANGED <<taken, buffer, synced, failed>>, op' = "down" => op = "down"
    PROVE  StoreInv' /\ StoreStep
<1>1. StoreInv'
  BY DEF StoreInv
<1>2. UNCHANGED Store!storeVars
  BY DEF Store!storeVars
<1> QED
  BY <1>1, <1>2 DEF StoreStep

\* The end of a process.
LEMMA StoreGone ==
    ASSUME StoreInv, LogInv', Gone
    PROVE  StoreInv' /\ StoreStep
<1>1. taken' = <<>> /\ buffer' = <<>> /\ failed' = FALSE /\ op' = "down"
  BY DEF Gone
<1>2. Len(<<>>) = 0
  BY EmptySeq
<1>3. Aligned(taken', buffer', synced', failed')
  BY <1>1, <1>2 DEF Aligned
<1> QED
  BY <1>1, <1>3 DEF StoreInv, StoreStep

\* A new process has handed in nothing.
LEMMA StoreOpen ==
    ASSUME StoreInv, LogInv', Open
    PROVE  StoreInv' /\ StoreStep
<1>1. /\ taken' = <<>> /\ buffer' = <<>> /\ op = "down" /\ op' = "open"
  BY DEF Open, StoreInv, historyVars
<1>2. Len(<<>>) = 0
  BY EmptySeq
<1>3. Aligned(taken', buffer', synced', failed')
  BY <1>1, <1>2 DEF Aligned
<1> QED
  BY <1>1, <1>3 DEF StoreInv, StoreStep

\* An append takes the event in.
LEMMA StoreAppend ==
    ASSUME StoreInv, LogInv', NEW kind \in Kinds, append(kind)
    PROVE  StoreInv' /\ StoreStep
<1> DEFINE turn == IF kind = "turnStarted" THEN st.turnCount + 1 ELSE 0
           r == [id |-> appended', kind |-> kind, turn |-> turn, nl |-> TRUE]
<1>1. TypeOK /\ Aligned(taken, buffer, synced, failed)
  BY DEF StoreInv, LogInv
<1>2. /\ buffer \in Seq(EventRecords) /\ st \in LogStates
      /\ appended \in Nat /\ appended \in 0 .. MaxAppends /\ MaxAppends \in Nat
      /\ synced \subseteq 1 .. appended /\ taken \in Seq(1 .. appended)
  BY <1>1, DiskTypes, LogAssumption
<1>3. /\ appended < MaxAppends /\ appended' = appended + 1
      /\ buffer' = Append(buffer, r) /\ op' = "append" /\ taken' = Append(taken, appended')
      /\ synced' = synced /\ failed' = failed
  BY DEF append
<1>4. r \in EventRecords /\ r.id = appended + 1
  <2>1. turn \in Nat /\ appended' \in Nat
    BY <1>2, <1>3 DEF LogStates
  <2>2. kind \in Kinds \cup {"torn"}
    OBVIOUS
  <2> QED
    BY <1>3, <2>1, <2>2 DEF EventRecords
<1> HIDE DEF r
<1>5. /\ Aligned(taken', buffer', synced, failed)
      /\ Positions(taken', synced) = Positions(taken, synced)
      /\ Len(taken') = Len(taken) + 1
  <2>1. buffer' = Append(buffer, r) /\ taken' = Append(taken, appended + 1)
    BY <1>3
  <2>2. /\ Aligned(Append(taken, appended + 1), Append(buffer, r), synced, failed)
        /\ Positions(Append(taken, appended + 1), synced) = Positions(taken, synced)
        /\ Len(Append(taken, appended + 1)) = Len(taken) + 1
    BY <1>1, <1>2, <1>4, AlignedAppend
  <2> QED
    BY <2>1, <2>2
<1>6. StoreInv'
  BY <1>3, <1>5 DEF StoreInv
<1>7. Store!AppendOk(appended')
  <2>1. Len(taken) \in Nat /\ Len(taken') \in Nat
    BY <1>2, <1>5, LenProperties
  <2>2. Cardinality(Positions(taken, synced)) \in 0 .. Len(taken)
    BY <2>1, PositionsCount
  <2>3. /\ Cardinality(Positions(taken', synced')) = Cardinality(Positions(taken, synced))
        /\ Cardinality(Positions(taken, synced)) <= Len(taken')
    BY <1>3, <1>5, <2>1, <2>2
  <2>4. Cardinality(Positions(taken', synced')) \in Cardinality(Positions(taken, synced)) .. Len(taken')
    BY <2>1, <2>2, <2>3
  <2> QED
    BY <1>3, <2>4 DEF Store!AppendOk, Positions
<1>8. appended' \in 1 .. MaxAppends
  BY <1>2, <1>3
<1>9. Store!StoreNext
  BY <1>7, <1>8 DEF Store!StoreNext
<1> QED
  BY <1>6, <1>9 DEF StoreStep

\* A successful write of the buffer syncs it.
LEMMA StoreFlush ==
    ASSUME StoreInv, LogInv', flush_write_buf
    PROVE  StoreInv' /\ StoreStep
<1>1. /\ TypeOK /\ Aligned(taken, buffer, synced, failed) /\ LogInv
      /\ Step("flush_write_buf") /\ Done
  BY DEF StoreInv, LogInv, flush_write_buf
<1>2. /\ buffer \in Seq(EventRecords) /\ Len(buffer) \in Nat
      /\ taken \in Seq(1 .. appended) /\ Len(taken) \in Nat
  BY <1>1, DiskTypes, LenProperties
<1>3. op' = op /\ op # "down" /\ failed' = failed /\ taken' = taken
  BY <1>1, DoneLeaves DEF flush_write_buf
<1>4. CASE buffer = <<>>
  <2>1. UNCHANGED <<buffer, synced>>
    BY <1>4 DEF flush_write_buf
  <2> QED
    BY <1>3, <2>1, StoreQuiet
<1>5. CASE buffer # <<>>
  <2>1. synced' = synced \cup Ids(buffer) /\ buffer' = <<>>
    BY <1>5 DEF flush_write_buf
  <2>2. /\ Aligned(taken, <<>>, synced \cup Ids(buffer), failed)
        /\ ~failed => Positions(taken, synced \cup Ids(buffer)) = 1 .. Len(taken)
    BY <1>1, <1>2, AlignedFlush
  <2>3. StoreInv'
    BY <1>3, <2>1, <2>2 DEF StoreInv
  <2>4. Store!FlushOk
    <3>1. /\ Cardinality(Positions(taken, synced)) \in 0 .. Len(taken)
          /\ Cardinality(Positions(taken, synced')) \in 0 .. Len(taken)
          /\ Cardinality(Positions(taken, synced)) <= Cardinality(Positions(taken, synced'))
      BY <1>2, <2>1, PositionsCount, PositionsGrow
    <3>2. Cardinality(Positions(taken, synced'))
            \in Cardinality(Positions(taken, synced)) .. Len(taken)
      BY <1>2, <3>1
    <3>3. ~failed => Cardinality(Positions(taken, synced')) = Len(taken)
      BY <1>2, <2>1, <2>2, PositionsCount
    <3> QED
      BY <1>3, <3>2, <3>3 DEF Store!FlushOk, Positions
  <2> QED
    BY <2>3, <2>4 DEF StoreStep, Store!StoreNext
<1> QED
  BY <1>4, <1>5

\* A write that fails keeps what was synced.
LEMMA StoreFailed ==
    ASSUME StoreInv, LogInv', Fail, synced' = synced,
           op' # "down" =>
              \E k \in Len(taken) - Len(buffer) .. Len(taken) :
                  /\ taken' = SubSeq(taken, 1, k)
                  /\ Aligned(taken', buffer', synced, TRUE)
    PROVE  StoreInv' /\ StoreStep
<1>1. CASE op' = "down"
  <2>1. Gone
    BY <1>1 DEF Fail
  <2> QED
    BY <2>1, StoreGone
<1>2. CASE op' # "down"
  <2>1. failed' = TRUE
    BY <1>2 DEF Fail, Gone
  <2>2. /\ TypeOK /\ Aligned(taken, buffer, synced, failed)
    BY DEF StoreInv, LogInv
  <2>3. /\ buffer \in Seq(EventRecords) /\ Len(buffer) \in Nat
        /\ taken \in Seq(1 .. appended) /\ Len(taken) \in Nat
    BY <2>2, DiskTypes, LenProperties
  <2>4. PICK k \in Len(taken) - Len(buffer) .. Len(taken) :
            /\ taken' = SubSeq(taken, 1, k)
            /\ Aligned(taken', buffer', synced, TRUE)
    BY <1>2
  <2>5. /\ k \in 0 .. Len(taken) /\ Len(taken') = k
        /\ Positions(taken', synced) = Positions(taken, synced)
    BY <2>2, <2>3, <2>4, AlignedShorter
  <2>6. StoreInv'
    BY <1>2, <2>1, <2>4 DEF StoreInv
  <2>7. Store!FlushErr
    <3>1. /\ Cardinality(Positions(taken', synced)) \in 0 .. k
      BY <2>5, PositionsCount
    <3>2. k \in Cardinality(Positions(taken, synced)) .. Len(taken)
      BY <2>3, <2>5, <3>1
    <3>3. Cardinality(Positions(taken', synced'))
            \in Cardinality(Positions(taken, synced)) .. Len(taken')
      BY <2>5, <3>1, <3>2
    <3> QED
      BY <2>1, <2>4, <3>2, <3>3 DEF Store!FlushErr, Positions
  <2> QED
    BY <2>6, <2>7 DEF StoreStep, Store!StoreNext
<1> QED
  BY <1>1, <1>2

\* Each failing write is a failed flush of the store.
LEMMA StoreWriteFails ==
    ASSUME StoreInv, LogInv',
           \/ flush_write_buf_rolled_back \/ flush_write_buf_unsynced
           \/ flush_write_buf_not_rolled_back
           \/ replace_event_file_contents_fails \/ WriteFails
    PROVE  StoreInv' /\ StoreStep
<1>1. /\ TypeOK /\ Aligned(taken, buffer, synced, failed)
      /\ Fail /\ synced' = synced
  BY DEF StoreInv, LogInv, flush_write_buf_rolled_back, flush_write_buf_unsynced,
         flush_write_buf_not_rolled_back, replace_event_file_contents_fails, WriteFails, historyVars
<1>2. /\ buffer \in Seq(EventRecords) /\ Len(buffer) \in Nat
      /\ taken \in Seq(1 .. appended) /\ Len(taken) \in Nat
  BY <1>1, DiskTypes, LenProperties
<1>3. Len(taken) \in Len(taken) - Len(buffer) .. Len(taken) /\ SubSeq(taken, 1, Len(taken)) = taken
  BY <1>2, SubSeqFull
<1>4. Aligned(taken, buffer, synced, TRUE) /\ Aligned(taken, <<>>, synced, TRUE)
  BY <1>1, <1>2, AlignedBroken DEF Aligned
<1>5. CASE flush_write_buf_rolled_back \/ replace_event_file_contents_fails \/ WriteFails
  <2>1. op' # "down" => taken' = taken /\ buffer' = buffer
    BY <1>5 DEF flush_write_buf_rolled_back, replace_event_file_contents_fails, WriteFails, historyVars
  <2>2. op' # "down" => taken' = SubSeq(taken, 1, Len(taken)) /\ Aligned(taken', buffer', synced, TRUE)
    BY <1>3, <1>4, <2>1
  <2> QED
    BY <1>1, <1>3, <2>2, StoreFailed
<1>6. CASE flush_write_buf_unsynced
  <2>1. op' # "down" => taken' = taken /\ buffer' = <<>>
    BY <1>6 DEF flush_write_buf_unsynced
  <2>2. op' # "down" => taken' = SubSeq(taken, 1, Len(taken)) /\ Aligned(taken', buffer', synced, TRUE)
    BY <1>3, <1>4, <2>1
  <2> QED
    BY <1>1, <1>3, <2>2, StoreFailed
<1>7. CASE flush_write_buf_not_rolled_back
  <2>1. PICK part \in CutShort(buffer) :
          op' # "down" =>
             /\ buffer' = <<>>
             /\ taken' = SubSeq(taken, 1, Len(taken) - (Len(buffer) - ReadableCount(part)))
    BY <1>7 DEF flush_write_buf_not_rolled_back
  <2>2. ReadableCount(part) \in 0 .. Len(buffer)
    <3>1. part \in Seq(EventRecords) /\ Len(part) <= Len(buffer)
      BY <1>2, CutShortIs
    <3>2. Len(part) \in Nat
      BY <3>1, LenProperties
    <3>3. ReadableCount(part) \in 0 .. Len(part)
      BY <3>2, CountType
    <3> QED
      BY <1>2, <3>1, <3>2, <3>3
  <2> DEFINE k == Len(taken) - (Len(buffer) - ReadableCount(part))
  <2>3. k \in Len(taken) - Len(buffer) .. Len(taken)
    BY <1>2, <2>2
  <2>4. op' # "down" => taken' = SubSeq(taken, 1, k) /\ buffer' = <<>>
    BY <2>1
  <2> HIDE DEF k
  <2>5. /\ k \in 0 .. Len(taken) /\ Len(SubSeq(taken, 1, k)) = k
    BY <1>1, <1>2, <2>3, AlignedShorter
  <2>6. op' # "down" => Aligned(taken', buffer', synced, TRUE)
    <3>1. Len(SubSeq(taken, 1, k)) \in Nat
      BY <1>2, <2>5
    <3>2. Aligned(SubSeq(taken, 1, k), <<>>, synced, TRUE)
      BY <3>1, AlignedBroken
    <3> QED
      BY <2>4, <3>2
  <2> QED
    BY <1>1, <2>3, <2>4, <2>6, StoreFailed
<1> QED
  BY <1>5, <1>6, <1>7

\* Every step keeps the invariant and is one the store allows.
LEMMA StoreNextStep == StoreInv /\ [Next]_vars => StoreInv' /\ StoreStep
<1> SUFFICES ASSUME StoreInv, [Next]_vars PROVE StoreInv' /\ StoreStep
  OBVIOUS
<1>1. LogInv'
  BY LogStep DEF StoreInv
<1>2. CASE Open
  BY <1>1, <1>2, StoreOpen
<1>3. ASSUME NEW kind \in Kinds, append(kind) PROVE StoreInv' /\ StoreStep
  BY <1>1, <1>3, StoreAppend
<1>4. CASE flush \/ Drop
  <2>1. UNCHANGED <<taken, buffer, synced, failed>> /\ op' # "down"
    BY <1>4 DEF flush, Drop, historyVars
  <2> QED
    BY <1>1, <2>1, StoreQuiet
<1>5. CASE Return
  <2>1. CASE op = "close"
    BY <1>1, <1>5, <2>1, StoreGone DEF Return
  <2>2. CASE op # "close"
    <3>1. UNCHANGED <<taken, buffer, synced, failed>> /\ op' # "down"
      BY <1>5, <2>2 DEF Return
    <3> QED
      BY <1>1, <3>1, StoreQuiet
  <2> QED
    BY <2>1, <2>2
<1>6. CASE Crash
  <2>1. Gone
    BY <1>6 DEF Crash
  <2> QED
    BY <1>1, <2>1, StoreGone
<1>7. CASE Write
  <2>1. CASE flush_write_buf
    BY <1>1, <2>1, StoreFlush
  <2>2. CASE \/ flush_write_buf_rolled_back \/ flush_write_buf_unsynced
             \/ flush_write_buf_not_rolled_back
             \/ replace_event_file_contents_fails \/ WriteFails
    BY <1>1, <2>2, StoreWriteFails
  <2>3. CASE \/ write_turn_index \/ write_manifest \/ clear_pending_cap_rewrite
             \/ enforce_event_cap \/ summary_hook \/ write_pending_cap_rewrite
             \/ replace_event_file_contents
    <3>1. UNCHANGED <<taken, buffer, synced, failed, op>>
      BY <2>3 DEF write_turn_index, write_manifest, clear_pending_cap_rewrite, enforce_event_cap,
                  summary_hook, write_pending_cap_rewrite, replace_event_file_contents, Done,
                  historyVars
    <3> QED
      BY <1>1, <3>1, StoreQuiet
  <2> QED
    BY <1>7, <2>1, <2>2, <2>3 DEF Write
<1>8. CASE UNCHANGED vars
  <2>1. UNCHANGED <<taken, buffer, synced, failed, op>>
    BY <1>8 DEF vars, historyVars
  <2> QED
    BY <1>1, <2>1, StoreQuiet
<1> QED
  BY <1>2, <1>3, <1>4, <1>5, <1>6, <1>7, <1>8 DEF Next

\* Every step of a process that holds the log open is a step of the canonical store,
\* or changes nothing that the store shows.
THEOREM ImplementsStore == Spec => ImplementsCanonicalStore
<1>1. Init => StoreInv
  BY StoreStart
<1>2. StoreInv /\ [Next]_vars =>
        StoreInv' /\ [op # "down" /\ op' # "down" => Store!StoreNext]_(Store!storeVars)
  BY StoreNextStep DEF StoreStep
<1> QED
  BY <1>1, <1>2, PTL DEF Spec, ImplementsCanonicalStore

-------------------------------------------------------------------------------
(* What an event does to the state *)

\* The entries of a state.
LEMMA EntriesType ==
    ASSUME NEW s \in LogStates
    PROVE  /\ s.entries \in Seq(IndexEntries)
           /\ Len(s.entries) \in Nat
           /\ (s.entries # <<>> <=> Len(s.entries) # 0)
           /\ \A j \in 1 .. Len(s.entries) :
                 /\ s.entries[j] \in IndexEntries
                 /\ s.entries[j].turn \in Nat \ {0} /\ s.entries[j].start \in Nat
                 /\ s.entries[j].end \in Nat /\ s.entries[j].events \in Nat
<1>1. s.entries \in Seq(IndexEntries)
  BY DEF LogStates
<1>2. \A j \in 1 .. Len(s.entries) : s.entries[j] \in IndexEntries
  BY <1>1, ElementOfSeq
<1> QED
  BY <1>1, <1>2, LenProperties, EmptySeq DEF IndexEntries

\* The event goes on with the open turn.
Working(s, kind) ==
    /\ s.inTurn /\ s.entries # <<>>
    /\ kind \notin {"threadStarted", "threadCompleted", "turnStarted"}

Begun(s, start, end) == [turn |-> s.turnCount + 1, start |-> start, end |-> end, events |-> 1]
Extended(e, end) == [e EXCEPT !.end = end, !.events = @ + 1]

\* apply_lifecycle_event, field by field.
Applied(s, kind, start, end) ==
    [turnCount  |-> IF Working(s, kind) /\ kind = "turnEnded"
                      THEN AtLeast(s.turnCount, LastEntry(s).turn) ELSE s.turnCount,
     eventCount |-> s.eventCount,
     inTurn     |-> kind = "turnStarted" \/ (s.inTurn /\ kind # "turnEnded"),
     base       |-> s.base,
     status     |-> IF kind = "threadCompleted" THEN "completed"
                    ELSE IF kind \in {"threadStarted", "turnStarted"} THEN "active" ELSE s.status,
     offset     |-> s.offset,
     entries    |-> IF kind = "turnStarted" THEN Append(s.entries, Begun(s, start, end))
                    ELSE IF Working(s, kind)
                      THEN [s.entries EXCEPT ![Len(s.entries)] = Extended(LastEntry(s), end)]
                      ELSE s.entries]

\* A state is the record of its fields.
LEMMA StateIs ==
    ASSUME NEW s \in LogStates
    PROVE  s = [turnCount |-> s.turnCount, eventCount |-> s.eventCount, inTurn |-> s.inTurn,
                base |-> s.base, status |-> s.status, offset |-> s.offset, entries |-> s.entries]
BY DEF LogStates

LEMMA ExtendTurnIs ==
    ASSUME NEW s \in LogStates, NEW end
    PROVE  ExtendTurn(s, end) =
             [s EXCEPT !.entries = IF s.inTurn /\ s.entries # <<>>
                THEN [s.entries EXCEPT ![Len(s.entries)] = Extended(LastEntry(s), end)]
                ELSE s.entries]
<1>1. CASE s.inTurn /\ s.entries # <<>>
  <2> DEFINE n == Len(s.entries)
  <2>1. n \in 1 .. n /\ s.entries \in Seq(IndexEntries) /\ s.entries[n] \in IndexEntries
    BY <1>1, EntriesType
  <2> QED
    BY <1>1, <2>1, ExtendedTurn DEF Extended, LastEntry
<1>2. CASE ~(s.inTurn /\ s.entries # <<>>)
  BY <1>2 DEF ExtendTurn, LogStates
<1> QED
  BY <1>1, <1>2

\* The lifecycle state machine does what the fields say.
LEMMA LifecycleIs ==
    ASSUME NEW s \in LogStates, NEW kind, NEW start, NEW end
    PROVE  apply_lifecycle_event(s, kind, start, end) = Applied(s, kind, start, end)
<1> DEFINE grown == [s.entries EXCEPT ![Len(s.entries)] = Extended(LastEntry(s), end)]
           kept == IF s.inTurn /\ s.entries # <<>> THEN grown ELSE s.entries
<1>1. ExtendTurn(s, end) = [s EXCEPT !.entries = kept]
  BY ExtendTurnIs
<1>2. s.inTurn \in BOOLEAN
  BY DEF LogStates
<1>3. CASE kind = "threadStarted"
  BY <1>2, <1>3 DEF apply_lifecycle_event, Applied, Working, LogStates
<1>4. CASE kind = "threadCompleted"
  BY <1>2, <1>4 DEF apply_lifecycle_event, Applied, Working, LogStates
<1>5. CASE kind = "turnStarted"
  <2> DEFINE longer == Append(s.entries, Begun(s, start, end))
  <2>1. OpenTurn(s, start, end) = [s EXCEPT !.status = "active", !.inTurn = TRUE, !.entries = longer]
    BY DEF OpenTurn, Begun, LogStates
  <2>2. Applied(s, kind, start, end) =
          [turnCount |-> s.turnCount, eventCount |-> s.eventCount, inTurn |-> TRUE, base |-> s.base,
           status |-> "active", offset |-> s.offset, entries |-> longer]
    BY <1>5 DEF Applied, Working
  <2>3. apply_lifecycle_event(s, kind, start, end) = OpenTurn(s, start, end)
    BY <1>5 DEF apply_lifecycle_event
  <2> HIDE DEF longer
  <2> QED
    BY <2>1, <2>2, <2>3 DEF LogStates
<1>6. CASE kind = "turnEnded"
  <2> DEFINE count == IF s.entries = <<>> THEN s.turnCount ELSE AtLeast(s.turnCount, LastEntry(s).turn)
  <2>1. apply_lifecycle_event(s, kind, start, end) = EndTurn(s, end)
    BY <1>6 DEF apply_lifecycle_event
  <2> HIDE DEF kept
  <2>2. EndTurn(s, end) = IF s.inTurn
           THEN [s EXCEPT !.entries = kept, !.inTurn = FALSE, !.turnCount = count] ELSE s
    BY <1>1 DEF EndTurn, LogStates
  <2>3. Applied(s, kind, start, end) =
          [turnCount |-> IF s.inTurn THEN count ELSE s.turnCount, eventCount |-> s.eventCount,
           inTurn |-> FALSE, base |-> s.base, status |-> s.status, offset |-> s.offset,
           entries |-> kept]
    BY <1>2, <1>6 DEF Applied, Working, kept
  <2>4. ~s.inTurn => kept = s.entries
    BY DEF kept
  <2> HIDE DEF count
  <2> QED
    BY <1>2, <2>1, <2>2, <2>3, <2>4 DEF LogStates
<1>7. CASE kind \notin {"threadStarted", "threadCompleted", "turnStarted", "turnEnded"}
  <2>1. apply_lifecycle_event(s, kind, start, end) = ExtendTurn(s, end)
    BY <1>7 DEF apply_lifecycle_event
  <2> HIDE DEF kept
  <2>2. Applied(s, kind, start, end) =
          [turnCount |-> s.turnCount, eventCount |-> s.eventCount,
           inTurn |-> s.inTurn, base |-> s.base, status |-> s.status, offset |-> s.offset,
           entries |-> kept]
    BY <1>2, <1>7 DEF Applied, Working, kept
  <2> QED
    BY <1>1, <2>1, <2>2 DEF LogStates
<1> QED
  BY <1>3, <1>4, <1>5, <1>6, <1>7

\* The entries after an event: a new one, a longer last one, or those before.
EntriesAfter(s, kind, start, end, es, n) ==
    /\ kind = "turnStarted" =>
          /\ Len(es) = n + 1
          /\ es[n + 1] = Begun(s, start, end)
          /\ \A j \in 1 .. n : es[j] = s.entries[j]
    /\ Working(s, kind) =>
          /\ Len(es) = n /\ n > 0
          /\ es[n] = Extended(s.entries[n], end)
          /\ \A j \in 1 .. n - 1 : es[j] = s.entries[j]
    /\ kind # "turnStarted" /\ ~Working(s, kind) => es = s.entries
    /\ n \in Nat

LEMMA AppliedEntries ==
    ASSUME NEW s \in LogStates, NEW kind, NEW start, NEW end
    PROVE  EntriesAfter(s, kind, start, end, Applied(s, kind, start, end).entries, Len(s.entries))
<1> DEFINE n == Len(s.entries)
           es == Applied(s, kind, start, end).entries
<1>1. s.entries \in Seq(IndexEntries) /\ n \in Nat
  BY EntriesType
<1>2. ASSUME kind = "turnStarted"
      PROVE  /\ Len(es) = n + 1 /\ es[n + 1] = Begun(s, start, end)
             /\ \A j \in 1 .. n : es[j] = s.entries[j]
  <2> DEFINE new == Begun(s, start, end)
  <2>1. es = Append(s.entries, new)
    BY <1>2 DEF Applied
  <2> HIDE DEF new
  <2>2. s.entries \in Seq(IndexEntries \cup {new}) /\ new \in IndexEntries \cup {new}
    BY <1>1
  <2>3. /\ Len(Append(s.entries, new)) = n + 1
        /\ \A j \in 1 .. n : Append(s.entries, new)[j] = s.entries[j]
        /\ Append(s.entries, new)[n + 1] = new
    BY <1>1, <2>2, AppendProperties
  <2>4. new = Begun(s, start, end)
    BY DEF new
  <2> QED
    BY <2>1, <2>3, <2>4
<1>3. ASSUME Working(s, kind)
      PROVE  /\ Len(es) = n /\ n > 0 /\ es[n] = Extended(s.entries[n], end)
             /\ \A j \in 1 .. n - 1 : es[j] = s.entries[j]
  <2>1. n > 0 /\ n \in 1 .. n
    BY <1>1, <1>3, EntriesType DEF Working
  <2>2. es = [s.entries EXCEPT ![n] = Extended(s.entries[n], end)]
    BY <1>3 DEF Applied, Working, LastEntry
  <2> DEFINE new == Extended(s.entries[n], end)
  <2> HIDE DEF new
  <2>3. /\ Len([s.entries EXCEPT ![n] = new]) = n
        /\ [s.entries EXCEPT ![n] = new][n] = new
        /\ \A j \in 1 .. n - 1 : [s.entries EXCEPT ![n] = new][j] = s.entries[j]
    <3>1. DOMAIN s.entries = 1 .. n
      BY <1>1, LenProperties
    <3>2. DOMAIN [s.entries EXCEPT ![n] = new] = 1 .. n
      BY <3>1
    <3>3. s.entries \in Seq(IndexEntries \cup {new}) /\ new \in IndexEntries \cup {new}
      BY <1>1
    <3>4. Len([s.entries EXCEPT ![n] = new]) = n
      BY <1>1, <2>1, <3>3, ExceptSeq
    <3> QED
      BY <1>1, <2>1, <3>1, <3>4
  <2>4. new = Extended(s.entries[n], end)
    BY DEF new
  <2> QED
    BY <2>1, <2>2, <2>3, <2>4
<1>4. kind # "turnStarted" /\ ~Working(s, kind) => es = s.entries
  BY DEF Applied
<1>5. EntriesAfter(s, kind, start, end, es, n)
  <2> HIDE DEF es, n
  <2> QED
    BY <1>1, <1>2, <1>3, <1>4 DEF EntriesAfter
<1> QED
  BY <1>5

\* A scan visits a record by applying its event behind the records before it.
LEMMA VisitIs ==
    ASSUME NEW s \in LogStates, NEW kind, NEW i \in Nat
    PROVE  /\ Visit(s, kind, i + 1) = [Applied(s, kind, i, i + 1) EXCEPT !.eventCount = s.eventCount + 1]
           /\ Visit(s, kind, i + 1) \in LogStates
<1> DEFINE t == [s EXCEPT !.eventCount = @ + 1]
<1>1. t \in LogStates /\ s.eventCount + 1 \in Nat
  BY DEF LogStates
<1>2. /\ t.turnCount = s.turnCount /\ t.inTurn = s.inTurn /\ t.base = s.base /\ t.status = s.status
      /\ t.offset = s.offset /\ t.entries = s.entries /\ t.eventCount = s.eventCount + 1
  BY DEF LogStates
<1>3. (i + 1) - 1 = i /\ i + 1 \in Nat \ {0}
  OBVIOUS
<1>4. Visit(s, kind, i + 1) = apply_lifecycle_event(t, kind, i, i + 1)
  BY <1>3 DEF Visit
<1> HIDE DEF t
<1>5. Visit(s, kind, i + 1) = Applied(t, kind, i, i + 1)
  BY <1>1, <1>4, LifecycleIs
<1>6. /\ Working(t, kind) = Working(s, kind) /\ LastEntry(t) = LastEntry(s)
      /\ Begun(t, i, i + 1) = Begun(s, i, i + 1)
  BY <1>2 DEF Working, LastEntry, Begun
<1>7. Applied(t, kind, i, i + 1) = [Applied(s, kind, i, i + 1) EXCEPT !.eventCount = s.eventCount + 1]
  BY <1>2, <1>6 DEF Applied
<1>8. Visit(s, kind, i + 1) \in LogStates
  BY <1>3, VisitType
<1> QED
  BY <1>5, <1>7, <1>8

-------------------------------------------------------------------------------
(* What holds behind every record of a scan *)

\* The state after i whole records, scanned with this first turn number.
Sound(s, i, from) ==
    /\ s \in LogStates
    /\ s.base = from /\ s.eventCount = i /\ s.offset = 0 /\ s.turnCount >= from - 1
    /\ s.inTurn => s.entries # <<>> /\ LastEntry(s).turn = s.turnCount + 1
    /\ \A j \in 1 .. Len(s.entries) :
          /\ s.entries[j].start < s.entries[j].end /\ s.entries[j].end <= i
          /\ s.entries[j].events <= s.entries[j].end - s.entries[j].start
    /\ \A j \in 2 .. Len(s.entries) : s.entries[j].start >= s.entries[j - 1].end

LEMMA SoundStart ==
    ASSUME NEW from \in Nat \ {0}
    PROVE  Sound(ScanStart(from), 0, from)
<1>1. Len(<<>>) = 0
  OBVIOUS
<1> QED
  BY <1>1, ScanStartType DEF Sound, ScanStart

\* One more record leaves a sound state.
LEMMA SoundVisit ==
    ASSUME NEW s, NEW i \in Nat, NEW from \in Nat \ {0}, Sound(s, i, from), NEW kind
    PROVE  Sound(Visit(s, kind, i + 1), i + 1, from)
<1> DEFINE v == Visit(s, kind, i + 1)
           n == Len(s.entries)
           es == Applied(s, kind, i, i + 1).entries
<1>1. s \in LogStates
  BY DEF Sound
<1>2. v = [Applied(s, kind, i, i + 1) EXCEPT !.eventCount = s.eventCount + 1] /\ v \in LogStates
  BY <1>1, VisitIs
<1>3. /\ v.entries = es /\ v.eventCount = s.eventCount + 1 /\ v.base = s.base /\ v.offset = s.offset
      /\ v.turnCount = (IF Working(s, kind) /\ kind = "turnEnded"
                          THEN AtLeast(s.turnCount, LastEntry(s).turn) ELSE s.turnCount)
      /\ v.inTurn = (kind = "turnStarted" \/ (s.inTurn /\ kind # "turnEnded"))
  BY <1>2 DEF Applied
<1>4. /\ kind = "turnStarted" => /\ Len(es) = n + 1 /\ es[n + 1] = Begun(s, i, i + 1)
                                 /\ \A j \in 1 .. n : es[j] = s.entries[j]
      /\ Working(s, kind) => /\ Len(es) = n /\ n > 0 /\ es[n] = Extended(s.entries[n], i + 1)
                             /\ \A j \in 1 .. n - 1 : es[j] = s.entries[j]
      /\ kind # "turnStarted" /\ ~Working(s, kind) => es = s.entries
      /\ n \in Nat
  <2>1. EntriesAfter(s, kind, i, i + 1, es, n)
    BY <1>1, AppliedEntries
  <2> HIDE DEF es, n
  <2> QED
    BY <2>1 DEF EntriesAfter
<1>5. \A j \in 1 .. n : /\ s.entries[j] \in IndexEntries
                        /\ s.entries[j].start \in Nat /\ s.entries[j].end \in Nat
                        /\ s.entries[j].events \in Nat /\ s.entries[j].turn \in Nat
  BY <1>1, EntriesType
<1>6. /\ s.turnCount \in Nat /\ s.eventCount = i /\ s.base = from /\ s.turnCount >= from - 1
      /\ s.inTurn \in BOOLEAN /\ s.offset = 0
  BY DEF Sound, LogStates
<1> HIDE DEF v, es
<1>7. v.base = from /\ v.eventCount = i + 1 /\ v.offset = 0
  BY <1>3, <1>6
<1>8. v.entries \in Seq(IndexEntries) /\ (v.entries # <<>> <=> Len(v.entries) # 0)
  BY <1>2, EntriesType
<1>9. /\ v.turnCount >= from - 1
      /\ v.inTurn => v.entries # <<>> /\ LastEntry(v).turn = v.turnCount + 1
      /\ \A j \in 1 .. Len(v.entries) :
            /\ v.entries[j].start < v.entries[j].end /\ v.entries[j].end <= i + 1
            /\ v.entries[j].events <= v.entries[j].end - v.entries[j].start
      /\ \A j \in 2 .. Len(v.entries) : v.entries[j].start >= v.entries[j - 1].end
  <2>1. /\ \A j \in 1 .. n :
             /\ s.entries[j].start < s.entries[j].end /\ s.entries[j].end <= i
             /\ s.entries[j].events <= s.entries[j].end - s.entries[j].start
        /\ \A j \in 2 .. n : s.entries[j].start >= s.entries[j - 1].end
        /\ s.inTurn => n > 0 /\ s.entries[n].turn = s.turnCount + 1
    BY <1>1, <1>4, EntriesType DEF Sound, LastEntry
  <2>2. CASE kind = "turnStarted"
    <3>1. /\ es[n + 1].start = i /\ es[n + 1].end = i + 1 /\ es[n + 1].events = 1
          /\ es[n + 1].turn = s.turnCount + 1
      BY <1>4, <2>2 DEF Begun
    <3>2. v.turnCount = s.turnCount
      BY <1>3, <2>2 DEF Working
    <3>3. Len(es) = n + 1 /\ \A j \in 1 .. n : es[j] = s.entries[j]
      BY <1>4, <2>2
    <3>4. ASSUME NEW j \in 1 .. n + 1
          PROVE  es[j].start < es[j].end /\ es[j].end <= i + 1 /\ es[j].events <= es[j].end - es[j].start
      <4>1. CASE j = n + 1
        BY <3>1, <4>1
      <4>2. CASE j \in 1 .. n
        BY <1>5, <2>1, <3>3, <4>2
      <4> QED
        BY <1>4, <4>1, <4>2
    <3>5. ASSUME NEW j \in 2 .. n + 1 PROVE es[j].start >= es[j - 1].end
      <4>1. CASE j = n + 1
        <5>1. j - 1 = n /\ n \in 1 .. n
          BY <1>4, <4>1
        <5> QED
          BY <1>4, <2>1, <3>1, <3>3, <4>1, <5>1
      <4>2. CASE j # n + 1
        <5>1. j \in 2 .. n /\ j \in 1 .. n /\ j - 1 \in 1 .. n
          BY <1>4, <4>2
        <5> QED
          BY <2>1, <3>3, <5>1
      <4> QED
        BY <4>1, <4>2
    <3> QED
      BY <1>3, <1>4, <1>6, <1>8, <3>1, <3>2, <3>3, <3>4, <3>5 DEF LastEntry
  <2>3. CASE Working(s, kind)
    <3>1. n \in 1 .. n /\ Len(es) = n /\ \A j \in 1 .. n - 1 : es[j] = s.entries[j]
      BY <1>4, <2>3
    <3>2. /\ es[n].start = s.entries[n].start /\ es[n].end = i + 1
          /\ es[n].events = s.entries[n].events + 1 /\ es[n].turn = s.entries[n].turn
      BY <1>4, <1>5, <2>3, <3>1 DEF Extended, IndexEntries
    <3>3. kind # "turnStarted" /\ s.inTurn
      BY <2>3 DEF Working
    <3>4. ASSUME NEW j \in 1 .. n
          PROVE  es[j].start < es[j].end /\ es[j].end <= i + 1 /\ es[j].events <= es[j].end - es[j].start
      <4>1. CASE j = n
        <5>1. /\ s.entries[n].start < s.entries[n].end /\ s.entries[n].end <= i
              /\ s.entries[n].events <= s.entries[n].end - s.entries[n].start
              /\ s.entries[n].start \in Nat /\ s.entries[n].end \in Nat
              /\ s.entries[n].events \in Nat
          BY <1>5, <2>1, <3>1
        <5>2. /\ s.entries[n].start < i + 1
              /\ s.entries[n].events + 1 <= (i + 1) - s.entries[n].start
          <6>1. \A a, b, c \in Nat : a < b /\ b <= i /\ c <= b - a => a < i + 1 /\ c + 1 <= (i + 1) - a
            OBVIOUS
          <6> QED
            BY <5>1, <6>1
        <5> QED
          BY <3>2, <4>1, <5>2
      <4>2. CASE j # n
        <5>1. j \in 1 .. n - 1
          BY <1>4, <4>2
        <5> QED
          BY <1>5, <2>1, <3>1, <5>1
      <4> QED
        BY <4>1, <4>2
    <3>5. ASSUME NEW j \in 2 .. n PROVE es[j].start >= es[j - 1].end
      <4>1. j - 1 \in 1 .. n - 1 /\ es[j - 1] = s.entries[j - 1] /\ es[j].start = s.entries[j].start
        <5>1. CASE j = n
          BY <1>4, <3>1, <3>2, <5>1
        <5>2. CASE j # n
          BY <1>4, <3>1, <5>2
        <5> QED
          BY <5>1, <5>2
      <4> QED
        BY <2>1, <4>1
    <3>6. v.turnCount \in {s.turnCount, s.entries[n].turn}
      BY <1>3 DEF AtLeast, LastEntry
    <3>7. v.turnCount >= from - 1
      BY <1>5, <1>6, <2>1, <3>1, <3>3, <3>6
    <3>8. v.inTurn => kind # "turnEnded" /\ v.turnCount = s.turnCount
      BY <1>3, <3>3
    <3> QED
      BY <1>3, <1>4, <1>8, <2>1, <3>1, <3>2, <3>3, <3>4, <3>5, <3>7, <3>8 DEF LastEntry
  <2>4. CASE kind # "turnStarted" /\ ~Working(s, kind)
    <3>1. es = s.entries /\ v.turnCount = s.turnCount
      BY <1>3, <1>4, <2>4
    <3>2. v.inTurn => s.inTurn
      BY <1>3, <2>4
    <3>3. \A j \in 1 .. n : s.entries[j].end <= i + 1
      BY <1>5, <2>1
    <3> QED
      BY <1>3, <1>4, <1>6, <1>8, <2>1, <3>1, <3>2, <3>3 DEF LastEntry
  <2> QED
    BY <2>2, <2>3, <2>4
<1>10. Sound(v, i + 1, from)
  BY <1>2, <1>7, <1>9 DEF Sound
<1> QED
  BY <1>10 DEF v

\* t is a later state of a scan than s, the one after i records: no entry is
\* renumbered or moved, none becomes shorter, and new ones start behind.
Grown(s, t, i) ==
    /\ Len(s.entries) <= Len(t.entries)
    /\ s.turnCount <= t.turnCount
    /\ \A j \in 1 .. Len(s.entries) :
          /\ t.entries[j].turn = s.entries[j].turn
          /\ t.entries[j].start = s.entries[j].start
          /\ t.entries[j].end >= s.entries[j].end
    /\ \A j \in Len(s.entries) + 1 .. Len(t.entries) : t.entries[j].start >= i

LEMMA GrownSelf ==
    ASSUME NEW s \in LogStates, NEW i \in Nat
    PROVE  Grown(s, s, i)
<1>1. Len(s.entries) \in Nat /\ s.turnCount \in Nat /\ \A j \in 1 .. Len(s.entries) : s.entries[j].end \in Nat
  BY EntriesType DEF LogStates
<1> QED
  BY <1>1 DEF Grown

\* One more record leaves the earlier state an earlier one.
LEMMA GrownVisit ==
    ASSUME NEW s \in LogStates, NEW i \in Nat, NEW t, NEW m \in Nat, m >= i, NEW from \in Nat \ {0},
           Sound(t, m, from), Grown(s, t, i), NEW kind
    PROVE  Grown(s, Visit(t, kind, m + 1), i)
<1> DEFINE v == Visit(t, kind, m + 1)
           n == Len(t.entries)
           es == Applied(t, kind, m, m + 1).entries
           k == Len(s.entries)
<1>1. t \in LogStates /\ k \in Nat
  BY EntriesType DEF Sound
<1>2. v = [Applied(t, kind, m, m + 1) EXCEPT !.eventCount = t.eventCount + 1] /\ v \in LogStates
  BY <1>1, VisitIs
<1>3. /\ v.entries = es
      /\ v.turnCount = (IF Working(t, kind) /\ kind = "turnEnded"
                          THEN AtLeast(t.turnCount, LastEntry(t).turn) ELSE t.turnCount)
  BY <1>2 DEF Applied
<1>4. EntriesAfter(t, kind, m, m + 1, es, n)
  BY <1>1, AppliedEntries
<1>5. \A j \in 1 .. n : /\ t.entries[j] \in IndexEntries
                        /\ t.entries[j].start \in Nat /\ t.entries[j].end \in Nat
                        /\ t.entries[j].events \in Nat /\ t.entries[j].turn \in Nat
                        /\ t.entries[j].end <= m
  BY <1>1, EntriesType DEF Sound
<1>6. /\ k <= n /\ s.turnCount <= t.turnCount
      /\ \A j \in 1 .. k : /\ t.entries[j].turn = s.entries[j].turn
                           /\ t.entries[j].start = s.entries[j].start
                           /\ t.entries[j].end >= s.entries[j].end
      /\ \A j \in k + 1 .. n : t.entries[j].start >= i
  BY DEF Grown
<1>7. n \in Nat /\ t.turnCount \in Nat /\ s.turnCount \in Nat /\ \A j \in 1 .. k : s.entries[j].end \in Nat
  BY <1>1, EntriesType DEF LogStates
<1> HIDE DEF v, es, n, k
<1>8. s.turnCount <= v.turnCount
  <2>1. CASE Working(t, kind)
    <3>1. n \in 1 .. n /\ LastEntry(t) = t.entries[n]
      BY <1>4, <1>7, <2>1 DEF EntriesAfter, LastEntry, n
    <3>2. LastEntry(t).turn \in Int /\ t.turnCount \in Int
      BY <1>5, <1>7, <3>1
    <3>3. AtLeast(t.turnCount, LastEntry(t).turn) \in Int /\ AtLeast(t.turnCount, LastEntry(t).turn) >= t.turnCount
      BY <3>2 DEF AtLeast
    <3>4. v.turnCount \in {t.turnCount, AtLeast(t.turnCount, LastEntry(t).turn)}
      BY <1>3
    <3> QED
      BY <1>6, <1>7, <3>3, <3>4
  <2>2. CASE ~Working(t, kind)
    BY <1>3, <1>6, <2>2
  <2> QED
    BY <2>1, <2>2
<1>9. /\ k <= Len(es)
      /\ \A j \in 1 .. n : /\ es[j].turn = t.entries[j].turn /\ es[j].start = t.entries[j].start
                           /\ es[j].end >= t.entries[j].end /\ es[j].end \in Nat
      /\ n <= Len(es) /\ Len(es) <= n + 1
      /\ Len(es) = n + 1 => es[n + 1].start = m
  <2>1. CASE kind = "turnStarted"
    <3>1. Len(es) = n + 1 /\ es[n + 1] = Begun(t, m, m + 1) /\ \A j \in 1 .. n : es[j] = t.entries[j]
      BY <1>4, <2>1 DEF EntriesAfter
    <3>2. es[n + 1].start = m
      BY <3>1 DEF Begun
    <3> QED
      BY <1>1, <1>5, <1>6, <1>7, <3>1, <3>2 DEF k
  <2>2. CASE Working(t, kind)
    <3>1. /\ Len(es) = n /\ n \in 1 .. n /\ es[n] = Extended(t.entries[n], m + 1)
          /\ \A j \in 1 .. n - 1 : es[j] = t.entries[j]
      BY <1>4, <1>7, <2>2 DEF EntriesAfter
    <3>2. es[n].turn = t.entries[n].turn /\ es[n].start = t.entries[n].start /\ es[n].end = m + 1
      BY <1>5, <3>1 DEF Extended, IndexEntries
    <3>3. es[n].end >= t.entries[n].end /\ es[n].end \in Nat
      BY <1>5, <3>1, <3>2
    <3>4. ASSUME NEW j \in 1 .. n
          PROVE  /\ es[j].turn = t.entries[j].turn /\ es[j].start = t.entries[j].start
                 /\ es[j].end >= t.entries[j].end /\ es[j].end \in Nat
      <4>1. CASE j = n
        BY <3>2, <3>3, <4>1
      <4>2. CASE j # n
        <5>1. j \in 1 .. n - 1
          BY <1>7, <4>2
        <5> QED
          BY <1>5, <3>1, <5>1
      <4> QED
        BY <4>1, <4>2
    <3> QED
      BY <1>1, <1>6, <1>7, <3>1, <3>4 DEF k
  <2>3. CASE kind # "turnStarted" /\ ~Working(t, kind)
    <3>1. es = t.entries /\ Len(es) = n
      BY <1>4, <2>3 DEF EntriesAfter, n
    <3> QED
      BY <1>1, <1>5, <1>6, <1>7, <3>1 DEF k
  <2> QED
    BY <2>1, <2>2, <2>3
<1>10. ASSUME NEW j \in 1 .. k
       PROVE  /\ es[j].turn = s.entries[j].turn /\ es[j].start = s.entries[j].start
              /\ es[j].end >= s.entries[j].end
  <2>1. j \in 1 .. n /\ k \in Nat
    BY <1>1, <1>6, <1>7 DEF k
  <2> QED
    <3>1. /\ es[j].turn = t.entries[j].turn /\ es[j].start = t.entries[j].start
          /\ es[j].end >= t.entries[j].end /\ es[j].end \in Nat
      BY <1>9, <2>1
    <3>2. /\ t.entries[j].turn = s.entries[j].turn /\ t.entries[j].start = s.entries[j].start
          /\ t.entries[j].end >= s.entries[j].end
      BY <1>6
    <3>3. t.entries[j].end \in Nat /\ s.entries[j].end \in Nat
      BY <1>5, <1>7, <2>1
    <3> QED
      BY <3>1, <3>2, <3>3
<1>11. ASSUME NEW j \in k + 1 .. Len(es) PROVE es[j].start >= i
  <2>1. k \in Nat /\ Len(es) \in {n, n + 1}
    <3>1. Len(es) \in Nat
      BY <1>2, <1>3, EntriesType
    <3> QED
      BY <1>1, <1>7, <1>9, <3>1 DEF k
  <2>2. CASE j \in k + 1 .. n
    <3>1. j \in 1 .. n
      BY <1>7, <2>1, <2>2
    <3> QED
      BY <1>6, <1>9, <2>2, <3>1
  <2>3. CASE j = n + 1 /\ Len(es) = n + 1
    BY <1>9, <2>3
  <2> QED
    BY <1>7, <2>1, <2>2, <2>3
<1>12. Grown(s, v, i)
  BY <1>3, <1>8, <1>9, <1>10, <1>11 DEF Grown, k
<1> QED
  BY <1>12 DEF v

\* The states of a scan of a whole file.
Visited(f, from, a) ==
    /\ a \in [0 .. Len(f) -> LogStates]
    /\ a[0] = ScanStart(from)
    /\ \A i \in 0 .. Len(f) - 1 : a[i + 1] = Visit(a[i], f[i + 1].kind, i + 1)

LEMMA WholeVisited ==
    ASSUME NEW f, Len(f) \in Nat, Whole(f), NEW from, NEW a
    PROVE  Scanned(f, from, a) <=> Visited(f, from, a)
<1>1. \A i \in 1 .. Len(f) : Readable(f, i)
  BY WholeIsReadable
<1>2. ASSUME Scanned(f, from, a) PROVE Visited(f, from, a)
  <2>1. ASSUME NEW i \in 0 .. Len(f) - 1 PROVE a[i + 1] = Visit(a[i], f[i + 1].kind, i + 1)
    <3>1. i + 1 \in 1 .. Len(f) /\ (i + 1) - 1 = i
      OBVIOUS
    <3> QED
      BY <1>1, <1>2, <3>1 DEF Scanned
  <2> QED
    BY <1>2, <2>1 DEF Scanned, Visited
<1>3. ASSUME Visited(f, from, a) PROVE Scanned(f, from, a)
  <2>1. ASSUME NEW i \in 1 .. Len(f) PROVE a[i] = Visit(a[i - 1], f[i].kind, i)
    <3>1. i - 1 \in 0 .. Len(f) - 1 /\ (i - 1) + 1 = i
      OBVIOUS
    <3> QED
      BY <1>3, <3>1 DEF Visited
  <2> QED
    BY <1>1, <1>3, <2>1 DEF Scanned, Visited
<1> QED
  BY <1>2, <1>3

\* A whole file has such states, and Scan is the last of them.
LEMMA VisitedExists ==
    ASSUME NEW f, Len(f) \in Nat, Whole(f), NEW from \in Nat \ {0}
    PROVE  \E a : Visited(f, from, a)
<1>1. PICK a : Scanned(f, from, a)
  BY ScannedExists
<1> QED
  BY <1>1, WholeVisited

LEMMA ScanIsVisited ==
    ASSUME NEW f, Len(f) \in Nat, Whole(f), NEW from \in Nat \ {0}, NEW a, Visited(f, from, a)
    PROVE  Scan(f, from) = [a[Len(f)] EXCEPT !.offset = Len(f)]
<1>1. Scanned(f, from, a)
  BY WholeVisited
<1> QED
  BY <1>1, ScanIsScanned

\* Every one of them is sound.
LEMMA VisitedSound ==
    ASSUME NEW f, Len(f) \in Nat, NEW from \in Nat \ {0}, NEW a, Visited(f, from, a)
    PROVE  \A i \in 0 .. Len(f) : Sound(a[i], i, from)
<1> DEFINE S == {k \in Nat : k <= Len(f) => Sound(a[k], k, from)}
<1>1. 0 \in S
  BY SoundStart DEF Visited
<1>2. ASSUME NEW k \in S PROVE k + 1 \in S
  <2>1. SUFFICES ASSUME k + 1 <= Len(f) PROVE Sound(a[k + 1], k + 1, from)
    OBVIOUS
  <2>2. k \in 0 .. Len(f) - 1 /\ Sound(a[k], k, from) /\ k \in Nat
    BY <2>1
  <2>3. a[k + 1] = Visit(a[k], f[k + 1].kind, k + 1)
    BY <2>2 DEF Visited
  <2>4. Sound(Visit(a[k], f[k + 1].kind, k + 1), k + 1, from)
    BY <2>2, SoundVisit
  <2> QED
    BY <2>3, <2>4
<1>3. S = Nat
  <2> HIDE DEF S
  <2>1. S \in SUBSET Nat
    BY DEF S
  <2> QED
    BY <1>1, <1>2, <2>1, EveryNatural
<1> QED
  BY <1>3

\* Each is an earlier one of those that follow.
LEMMA VisitedGrown ==
    ASSUME NEW f, Len(f) \in Nat, NEW from \in Nat \ {0}, NEW a, Visited(f, from, a),
           NEW i \in 0 .. Len(f)
    PROVE  \A m \in i .. Len(f) : Grown(a[i], a[m], i)
<1> DEFINE S == {k \in Nat : i + k <= Len(f) => Grown(a[i], a[i + k], i)}
<1>0. i \in Nat /\ a[i] \in LogStates
  BY DEF Visited
<1>1. 0 \in S
  <2>1. i + 0 = i /\ Grown(a[i], a[i], i)
    BY <1>0, GrownSelf
  <2> QED
    BY <2>1
<1>2. ASSUME NEW k \in S PROVE k + 1 \in S
  <2> DEFINE m == i + k
  <2>1. SUFFICES ASSUME m + 1 <= Len(f) PROVE Grown(a[i], a[m + 1], i)
    <3>1. i + (k + 1) = m + 1
      BY <1>0
    <3> QED
      BY <3>1
  <2>2. m \in 0 .. Len(f) - 1 /\ m \in Nat /\ m >= i /\ Grown(a[i], a[m], i) /\ m \in 0 .. Len(f)
    BY <1>0, <2>1
  <2> HIDE DEF m
  <2>3. a[m + 1] = Visit(a[m], f[m + 1].kind, m + 1)
    BY <2>2 DEF Visited
  <2>4. Sound(a[m], m, from)
    BY <2>2, VisitedSound
  <2>5. Grown(a[i], Visit(a[m], f[m + 1].kind, m + 1), i)
    BY <1>0, <2>2, <2>4, GrownVisit
  <2> QED
    BY <2>3, <2>5
<1>3. S = Nat
  <2> HIDE DEF S
  <2>1. S \in SUBSET Nat
    BY DEF S
  <2> QED
    BY <1>1, <1>2, <2>1, EveryNatural
<1>4. ASSUME NEW m \in i .. Len(f) PROVE Grown(a[i], a[m], i)
  <2>1. m - i \in Nat /\ i + (m - i) = m /\ m <= Len(f)
    BY <1>0
  <2> QED
    BY <1>3, <2>1
<1> QED
  BY <1>4

\* What a scan of a whole file tells.
Told(s, m, from) ==
    /\ s \in LogStates
    /\ s.base = from /\ s.eventCount = m /\ s.offset = m
    /\ \A j \in 1 .. Len(s.entries) :
          /\ s.entries[j].start < s.entries[j].end /\ s.entries[j].end <= m
          /\ s.entries[j].events <= s.entries[j].end - s.entries[j].start
    /\ \A j \in 2 .. Len(s.entries) : s.entries[j].start >= s.entries[j - 1].end

LEMMA ScanTold ==
    ASSUME NEW f, Len(f) \in Nat, Whole(f), NEW from \in Nat \ {0}
    PROVE  Told(Scan(f, from), Len(f), from)
<1>1. PICK a : Visited(f, from, a)
  BY VisitedExists
<1>2. Scan(f, from) = [a[Len(f)] EXCEPT !.offset = Len(f)]
  BY <1>1, ScanIsVisited
<1>3. Sound(a[Len(f)], Len(f), from)
  <2>1. Len(f) \in 0 .. Len(f)
    OBVIOUS
  <2> QED
    BY <1>1, <2>1, VisitedSound
<1> DEFINE s == a[Len(f)]
           t == [s EXCEPT !.offset = Len(f)]
<1>4. s \in LogStates
  BY <1>3 DEF Sound
<1> HIDE DEF s
<1>5. t \in LogStates /\ t.entries = s.entries /\ t.base = s.base /\ t.eventCount = s.eventCount /\ t.offset = Len(f)
  BY <1>4 DEF LogStates
<1> HIDE DEF t
<1>6. Told(t, Len(f), from)
  BY <1>3, <1>5 DEF Sound, Told, s
<1> QED
  BY <1>2, <1>6 DEF s, t

\* f is the beginning of g.
Begins(f, g) ==
    /\ Len(f) \in Nat /\ Len(g) \in Nat /\ Len(f) <= Len(g)
    /\ \A i \in 1 .. Len(f) : f[i] = g[i]

\* A scan of the beginning of a file passes through the same states.
LEMMA VisitedBeginning ==
    ASSUME NEW f, NEW g, Begins(f, g), NEW from, NEW a, Visited(g, from, a)
    PROVE  Visited(f, from, [i \in 0 .. Len(f) |-> a[i]])
<1> DEFINE b == [i \in 0 .. Len(f) |-> a[i]]
<1>1. Len(f) \in Nat /\ Len(g) \in Nat /\ Len(f) <= Len(g) /\ \A i \in 1 .. Len(f) : f[i] = g[i]
  BY DEF Begins
<1>2. \A i \in 0 .. Len(f) : b[i] = a[i] /\ a[i] \in LogStates
  BY <1>1 DEF Visited
<1>3. b \in [0 .. Len(f) -> LogStates] /\ b[0] = a[0]
  BY <1>1, <1>2
<1> HIDE DEF b
<1>4. ASSUME NEW i \in 0 .. Len(f) - 1 PROVE b[i + 1] = Visit(b[i], f[i + 1].kind, i + 1)
  <2>1. i \in 0 .. Len(f) /\ i + 1 \in 0 .. Len(f) /\ i + 1 \in 1 .. Len(f) /\ i \in 0 .. Len(g) - 1
    BY <1>1
  <2>2. a[i + 1] = Visit(a[i], g[i + 1].kind, i + 1)
    BY <2>1 DEF Visited
  <2> QED
    BY <1>1, <1>2, <2>1, <2>2
<1>5. Visited(f, from, b)
  BY <1>3, <1>4 DEF Visited
<1> QED
  BY <1>5 DEF b

LEMMA WholeBeginning ==
    ASSUME NEW f, NEW g, Begins(f, g), Whole(g)
    PROVE  Whole(f)
<1>1. \A i \in 1 .. Len(f) : i \in 1 .. Len(g)
  BY DEF Begins
<1> QED
  BY <1>1 DEF Begins, Whole

\* So the turns that it ends are not fewer later, and the entries keep their places.
LEMMA ScanBeginning ==
    ASSUME NEW f, NEW g, Begins(f, g), Whole(g), NEW from \in Nat \ {0}, NEW a, Visited(g, from, a)
    PROVE  /\ Scan(f, from) = [a[Len(f)] EXCEPT !.offset = Len(f)]
           /\ Scan(g, from) = [a[Len(g)] EXCEPT !.offset = Len(g)]
           /\ a[Len(f)] \in LogStates /\ a[Len(g)] \in LogStates
           /\ Sound(a[Len(f)], Len(f), from)
           /\ Grown(a[Len(f)], a[Len(g)], Len(f))
<1> DEFINE b == [i \in 0 .. Len(f) |-> a[i]]
<1>1. Len(f) \in Nat /\ Len(g) \in Nat /\ Len(f) <= Len(g)
  BY DEF Begins
<1>2. Visited(f, from, b)
  BY VisitedBeginning
<1>3. b[Len(f)] = a[Len(f)]
  BY <1>1
<1> HIDE DEF b
<1>4. Whole(f)
  BY WholeBeginning
<1>5. Scan(f, from) = [a[Len(f)] EXCEPT !.offset = Len(f)]
  BY <1>1, <1>2, <1>3, <1>4, ScanIsVisited
<1>6. Scan(g, from) = [a[Len(g)] EXCEPT !.offset = Len(g)]
  BY <1>1, ScanIsVisited
<1>7. Len(f) \in 0 .. Len(g) /\ Len(g) \in 0 .. Len(g) /\ Len(g) \in Len(f) .. Len(g)
  BY <1>1
<1>8. a[Len(f)] \in LogStates /\ a[Len(g)] \in LogStates
  BY <1>7 DEF Visited
<1>9. Grown(a[Len(f)], a[Len(g)], Len(f))
  BY <1>1, <1>7, VisitedGrown
<1>10. Sound(a[Len(f)], Len(f), from)
  BY <1>1, <1>7, VisitedSound
<1> QED
  BY <1>5, <1>6, <1>8, <1>9, <1>10

\* Every turn has the number that the record of its start was given.
Numbered(f, s) ==
    \A j \in 1 .. Len(s.entries) : f[s.entries[j].start + 1].turn = s.entries[j].turn

LEMMA NumberedBeginning ==
    ASSUME NEW f, NEW g, Begins(f, g), Whole(g), NEW from \in Nat \ {0}
    PROVE  /\ Scan(f, from).turnCount <= Scan(g, from).turnCount
           /\ Numbered(g, Scan(g, from)) => Numbered(f, Scan(f, from))
<1>1. Len(f) \in Nat /\ Len(g) \in Nat /\ Len(f) <= Len(g) /\ \A i \in 1 .. Len(f) : f[i] = g[i]
  BY DEF Begins
<1>2. PICK a : Visited(g, from, a)
  BY <1>1, VisitedExists
<1> DEFINE s == a[Len(f)]
           t == a[Len(g)]
<1>3. /\ Scan(f, from) = [s EXCEPT !.offset = Len(f)]
      /\ Scan(g, from) = [t EXCEPT !.offset = Len(g)]
      /\ s \in LogStates /\ t \in LogStates /\ Sound(s, Len(f), from) /\ Grown(s, t, Len(f))
  BY <1>2, ScanBeginning
<1> HIDE DEF s, t
<1>4. /\ Scan(f, from).turnCount = s.turnCount /\ Scan(g, from).turnCount = t.turnCount
      /\ Scan(f, from).entries = s.entries /\ Scan(g, from).entries = t.entries
  BY <1>3 DEF LogStates
<1>5. ASSUME Numbered(g, Scan(g, from)), NEW j \in 1 .. Len(s.entries)
      PROVE  f[s.entries[j].start + 1].turn = s.entries[j].turn
  <2>1. /\ s.entries[j].start \in Nat /\ s.entries[j].end \in Nat
        /\ Len(s.entries) \in Nat /\ Len(t.entries) \in Nat
    BY <1>3, EntriesType
  <2>2. /\ s.entries[j].start < s.entries[j].end /\ s.entries[j].end <= Len(f)
    BY <1>3 DEF Sound
  <2>3. s.entries[j].start + 1 \in 1 .. Len(f)
    BY <1>1, <2>1, <2>2
  <2>4. /\ j \in 1 .. Len(t.entries) /\ t.entries[j].turn = s.entries[j].turn
        /\ t.entries[j].start = s.entries[j].start
    BY <1>3, <2>1 DEF Grown
  <2>5. g[t.entries[j].start + 1].turn = t.entries[j].turn
    BY <1>4, <1>5, <2>4 DEF Numbered
  <2> QED
    BY <1>1, <2>3, <2>4, <2>5
<1>6. s.turnCount <= t.turnCount
  BY <1>3 DEF Grown
<1> QED
  BY <1>4, <1>5, <1>6 DEF Numbered

\* append does what a scan would do at the new record.
After(s, kind) ==
    apply_lifecycle_event([s EXCEPT !.eventCount = @ + 1, !.offset = s.offset + 1], kind,
                          s.offset, s.offset + 1)

LEMMA ScanAppend ==
    ASSUME NEW f \in Seq(EventRecords), Whole(f), NEW r \in EventRecords, r.nl, r.kind # "torn",
           NEW from \in Nat \ {0}, NEW s, s = Scan(f, from)
    PROVE  Scan(Append(f, r), from) = After(s, r.kind)
<1> DEFINE g == Append(f, r)
           m == Len(f)
<1>1. /\ m \in Nat /\ g \in Seq(EventRecords) /\ Len(g) = m + 1
      /\ \A i \in 1 .. m : g[i] = f[i]
      /\ g[m + 1] = r
  BY AppendProperties, LenProperties
<1> HIDE DEF g
<1>2. Whole(g)
  <2>1. ASSUME NEW i \in 1 .. m + 1 PROVE g[i].nl /\ g[i].kind # "torn"
    <3>1. CASE i = m + 1
      BY <1>1, <3>1
    <3>2. CASE i \in 1 .. m
      BY <1>1, <3>2 DEF Whole
    <3> QED
      BY <1>1, <3>1, <3>2
  <2> QED
    BY <1>1, <2>1 DEF Whole
<1>3. Begins(f, g)
  BY <1>1 DEF Begins
<1>4. PICK a : Visited(g, from, a)
  BY <1>1, <1>2, VisitedExists
<1> DEFINE t == a[m]
<1>5. /\ s = [t EXCEPT !.offset = m] /\ Scan(g, from) = [a[Len(g)] EXCEPT !.offset = Len(g)]
      /\ t \in LogStates
  BY <1>2, <1>3, <1>4, ScanBeginning
<1>6. a[m + 1] = Visit(t, r.kind, m + 1)
  <2>1. m \in 0 .. Len(g) - 1
    BY <1>1
  <2> QED
    BY <1>1, <1>4, <2>1 DEF Visited
<1> HIDE DEF t
<1> DEFINE counted == [s EXCEPT !.eventCount = @ + 1, !.offset = s.offset + 1]
<1> HIDE DEF m
<1>7. /\ s.offset = m /\ s \in LogStates /\ s.eventCount = t.eventCount /\ s.turnCount = t.turnCount
      /\ s.inTurn = t.inTurn /\ s.base = t.base /\ s.status = t.status /\ s.entries = t.entries
      /\ t.eventCount \in Nat
  BY <1>1, <1>5 DEF LogStates
<1>8. /\ counted \in LogStates /\ counted.offset = m + 1 /\ counted.eventCount = t.eventCount + 1
      /\ counted.turnCount = t.turnCount /\ counted.inTurn = t.inTurn /\ counted.base = t.base
      /\ counted.status = t.status /\ counted.entries = t.entries
  <2>1. m + 1 \in Nat /\ s.eventCount + 1 \in Nat /\ s.offset + 1 = m + 1
    BY <1>1, <1>7
  <2>2. counted \in LogStates
    BY <1>7, <2>1 DEF LogStates
  <2>3. /\ counted.offset = s.offset + 1 /\ counted.eventCount = s.eventCount + 1
        /\ counted.turnCount = s.turnCount /\ counted.inTurn = s.inTurn /\ counted.base = s.base
        /\ counted.status = s.status /\ counted.entries = s.entries
    BY <1>7 DEF LogStates
  <2> HIDE DEF counted
  <2> QED
    BY <1>7, <2>1, <2>2, <2>3
<1> HIDE DEF counted
<1>9. apply_lifecycle_event(counted, r.kind, m, m + 1) = Applied(counted, r.kind, m, m + 1)
  BY <1>8, LifecycleIs
<1>10. Visit(t, r.kind, m + 1) = [Applied(t, r.kind, m, m + 1) EXCEPT !.eventCount = t.eventCount + 1]
  <2> DEFINE kind == r.kind
  <2>1. kind = r.kind
    OBVIOUS
  <2> HIDE DEF kind
  <2>2. Visit(t, kind, m + 1) = [Applied(t, kind, m, m + 1) EXCEPT !.eventCount = t.eventCount + 1]
    BY <1>1, <1>5, VisitIs
  <2> QED
    BY <2>1, <2>2
<1>11. /\ Working(counted, r.kind) = Working(t, r.kind) /\ LastEntry(counted) = LastEntry(t)
       /\ Begun(counted, m, m + 1) = Begun(t, m, m + 1)
  BY <1>8 DEF Working, LastEntry, Begun
<1>12. Applied(counted, r.kind, m, m + 1) =
         [[Applied(t, r.kind, m, m + 1) EXCEPT !.eventCount = t.eventCount + 1] EXCEPT !.offset = m + 1]
  <2> DEFINE p == Applied(t, r.kind, m, m + 1)
             q == Applied(counted, r.kind, m, m + 1)
  <2>1. /\ q.turnCount = p.turnCount /\ q.inTurn = p.inTurn /\ q.base = p.base
        /\ q.status = p.status /\ q.entries = p.entries
        /\ q.eventCount = t.eventCount + 1 /\ q.offset = m + 1
    <3>1. q.turnCount = p.turnCount
      BY <1>8, <1>11 DEF Applied
    <3>2. q.inTurn = p.inTurn
      BY <1>8, <1>11 DEF Applied
    <3>3. q.status = p.status /\ q.base = p.base
      BY <1>8, <1>11 DEF Applied
    <3>4. q.entries = p.entries
      BY <1>8, <1>11 DEF Applied
    <3>5. q.eventCount = t.eventCount + 1 /\ q.offset = m + 1
      BY <1>8 DEF Applied
    <3> QED
      BY <3>1, <3>2, <3>3, <3>4, <3>5
  <2>2. /\ q = [turnCount |-> q.turnCount, eventCount |-> q.eventCount, inTurn |-> q.inTurn, base |-> q.base,
                status |-> q.status, offset |-> q.offset, entries |-> q.entries]
        /\ p = [turnCount |-> p.turnCount, eventCount |-> p.eventCount, inTurn |-> p.inTurn, base |-> p.base,
                status |-> p.status, offset |-> p.offset, entries |-> p.entries]
    BY DEF Applied
  <2> HIDE DEF p, q
  <2>3. q = [[p EXCEPT !.eventCount = t.eventCount + 1] EXCEPT !.offset = m + 1]
    BY <2>1, <2>2
  <2> QED
    BY <2>3 DEF p, q
<1>13. Scan(g, from) = apply_lifecycle_event(counted, r.kind, s.offset, s.offset + 1)
  <2>1. Scan(g, from) = [a[m + 1] EXCEPT !.offset = m + 1]
    BY <1>1, <1>5
  <2>2. Scan(g, from) = Applied(counted, r.kind, m, m + 1)
    BY <1>6, <1>10, <1>12, <2>1
  <2> QED
    BY <1>7, <1>9, <2>2
<1> QED
  BY <1>13 DEF counted, g, After

-------------------------------------------------------------------------------
(* What is left after an eviction *)

StatusKinds == {"threadStarted", "threadCompleted", "turnStarted"}

\* r is the state of a scan of what is left when the first cut records are gone, s
\* that of the scan of the whole file at the same record i; k turns were evicted.
Left(r, s, i, f, k, cut, base) ==
    /\ Len(r.entries) = Len(s.entries) - k
    /\ \A j \in 1 .. Len(r.entries) : r.entries[j] = Shifted(s.entries[j + k], cut)
    /\ r.base = base /\ r.eventCount = i - cut
    /\ Len(s.entries) > k => r.inTurn = s.inTurn /\ r.turnCount = s.turnCount
    /\ Len(s.entries) = k => ~r.inTurn /\ r.turnCount = base - 1
    /\ \/ r.status = s.status
       \/ /\ r.status = "active" /\ s.status = "completed" /\ Len(s.entries) = k
          /\ \A j \in cut + 1 .. i : f[j].kind \notin StatusKinds

\* Entries with the same fields are the same.
LEMMA EntryIs ==
    ASSUME NEW d \in IndexEntries, NEW e \in IndexEntries,
           d.turn = e.turn, d.start = e.start, d.end = e.end, d.events = e.events
    PROVE  d = e
BY DEF IndexEntries

LEMMA ExtendedIs ==
    ASSUME NEW e \in IndexEntries, NEW end \in Nat
    PROVE  /\ Extended(e, end) \in IndexEntries
           /\ Extended(e, end).turn = e.turn /\ Extended(e, end).start = e.start
           /\ Extended(e, end).end = end /\ Extended(e, end).events = e.events + 1
<1>1. e.events + 1 \in Nat
  BY DEF IndexEntries
<1>2. [e EXCEPT !.end = end] \in IndexEntries /\ [e EXCEPT !.end = end].events = e.events
  BY DEF IndexEntries
<1>3. Extended(e, end) \in IndexEntries
  BY <1>1 DEF Extended, IndexEntries
<1> QED
  BY <1>3 DEF Extended, IndexEntries

LEMMA ShiftedEntry ==
    ASSUME NEW e \in IndexEntries, NEW cut \in Nat
    PROVE  /\ Shifted(e, cut) \in IndexEntries
           /\ Shifted(e, cut).turn = e.turn /\ Shifted(e, cut).start = Minus(e.start, cut)
           /\ Shifted(e, cut).end = Minus(e.end, cut) /\ Shifted(e, cut).events = e.events
<1>1. e.start \in Int /\ e.end \in Int /\ cut \in Int
  BY DEF IndexEntries
<1>2. Minus(e.start, cut) \in Nat /\ Minus(e.end, cut) \in Nat
  BY <1>1, MinusType
<1> QED
  BY <1>2 DEF Shifted, IndexEntries

LEMMA BegunIs ==
    ASSUME NEW s \in LogStates, NEW start \in Nat, NEW end \in Nat
    PROVE  /\ Begun(s, start, end) \in IndexEntries
           /\ Begun(s, start, end).turn = s.turnCount + 1 /\ Begun(s, start, end).start = start
           /\ Begun(s, start, end).end = end /\ Begun(s, start, end).events = 1
BY DEF Begun, IndexEntries, LogStates

\* Entries are shifted alike, whenever they are made or extended.
LEMMA ShiftedIs ==
    ASSUME NEW i \in Nat, NEW cut \in Nat, cut <= i
    PROVE  /\ \A e \in IndexEntries :
                 Shifted(Extended(e, i + 1), cut) = Extended(Shifted(e, cut), (i - cut) + 1)
           /\ \A s, r \in LogStates : r.turnCount = s.turnCount =>
                 Shifted(Begun(s, i, i + 1), cut) = Begun(r, i - cut, (i - cut) + 1)
<1> DEFINE p == i + 1
           q == (i - cut) + 1
           d == i - cut
<1>1. Minus(p, cut) = q /\ Minus(i, cut) = d /\ p \in Nat /\ q \in Nat /\ d \in Nat
  BY DEF Minus, AtLeast
<1> HIDE DEF p, q, d
<1>2. ASSUME NEW e \in IndexEntries
      PROVE  Shifted(Extended(e, p), cut) = Extended(Shifted(e, cut), q)
  <2>1. /\ Extended(e, p) \in IndexEntries
        /\ Extended(e, p).turn = e.turn /\ Extended(e, p).start = e.start
        /\ Extended(e, p).end = p /\ Extended(e, p).events = e.events + 1
    BY <1>1, ExtendedIs
  <2>2. /\ Shifted(Extended(e, p), cut) \in IndexEntries
        /\ Shifted(Extended(e, p), cut).turn = Extended(e, p).turn
        /\ Shifted(Extended(e, p), cut).start = Minus(Extended(e, p).start, cut)
        /\ Shifted(Extended(e, p), cut).end = Minus(Extended(e, p).end, cut)
        /\ Shifted(Extended(e, p), cut).events = Extended(e, p).events
    BY <2>1, ShiftedEntry
  <2>3. /\ Shifted(e, cut) \in IndexEntries
        /\ Shifted(e, cut).turn = e.turn /\ Shifted(e, cut).start = Minus(e.start, cut)
        /\ Shifted(e, cut).events = e.events
    BY ShiftedEntry
  <2>4. /\ Extended(Shifted(e, cut), q) \in IndexEntries
        /\ Extended(Shifted(e, cut), q).turn = Shifted(e, cut).turn
        /\ Extended(Shifted(e, cut), q).start = Shifted(e, cut).start
        /\ Extended(Shifted(e, cut), q).end = q
        /\ Extended(Shifted(e, cut), q).events = Shifted(e, cut).events + 1
    BY <1>1, <2>3, ExtendedIs
  <2> QED
    BY <1>1, <2>1, <2>2, <2>3, <2>4, EntryIs
<1>3. ASSUME NEW s \in LogStates, NEW r \in LogStates, r.turnCount = s.turnCount
      PROVE  Shifted(Begun(s, i, p), cut) = Begun(r, d, q)
  <2>1. /\ Begun(s, i, p) \in IndexEntries
        /\ Begun(s, i, p).turn = s.turnCount + 1 /\ Begun(s, i, p).start = i
        /\ Begun(s, i, p).end = p /\ Begun(s, i, p).events = 1
    BY <1>1, BegunIs
  <2>2. /\ Begun(r, d, q) \in IndexEntries
        /\ Begun(r, d, q).turn = r.turnCount + 1 /\ Begun(r, d, q).start = d
        /\ Begun(r, d, q).end = q /\ Begun(r, d, q).events = 1
    BY <1>1, BegunIs
  <2>3. /\ Shifted(Begun(s, i, p), cut) \in IndexEntries
        /\ Shifted(Begun(s, i, p), cut).turn = Begun(s, i, p).turn
        /\ Shifted(Begun(s, i, p), cut).start = Minus(Begun(s, i, p).start, cut)
        /\ Shifted(Begun(s, i, p), cut).end = Minus(Begun(s, i, p).end, cut)
        /\ Shifted(Begun(s, i, p), cut).events = Begun(s, i, p).events
    BY <2>1, ShiftedEntry
  <2> QED
    BY <1>1, <1>3, <2>1, <2>2, <2>3, EntryIs
<1> QED
  BY <1>2, <1>3 DEF p, q, d

\* Both scans are at the next record, of this kind, and v and w are the states behind it.
LeftNext(r, s, i, f, k, cut, base, kind, v, w) ==
    /\ k \in Nat \ {0} /\ cut \in Nat /\ base \in Nat \ {0} /\ i \in Nat /\ cut <= i
    /\ s \in LogStates /\ r \in LogStates /\ Len(s.entries) >= k
    /\ Left(r, s, i, f, k, cut, base)
    /\ kind = f[i + 1].kind /\ v = Visit(s, kind, i + 1) /\ w = Visit(r, kind, (i - cut) + 1)
    /\ v.entries[k].end <= cut
    /\ Len(s.entries) = k /\ Len(v.entries) > k => v.entries[k + 1].turn = base
    /\ s.inTurn => s.entries # <<>>

\* One more record keeps the two scans in step.
LEMMA LeftVisit ==
    ASSUME NEW r, NEW s, NEW i, NEW f, NEW k, NEW cut, NEW base, NEW kind, NEW v, NEW w,
           LeftNext(r, s, i, f, k, cut, base, kind, v, w)
    PROVE  Left(w, v, i + 1, f, k, cut, base) /\ Len(v.entries) >= k
<1>0. /\ k \in Nat \ {0} /\ cut \in Nat /\ base \in Nat \ {0} /\ i \in Nat /\ cut <= i
      /\ s \in LogStates /\ r \in LogStates /\ Len(s.entries) >= k
      /\ Left(r, s, i, f, k, cut, base)
      /\ kind = f[i + 1].kind /\ v = Visit(s, kind, i + 1) /\ w = Visit(r, kind, (i - cut) + 1)
      /\ v.entries[k].end <= cut
      /\ Len(s.entries) = k /\ Len(v.entries) > k => v.entries[k + 1].turn = base
      /\ s.inTurn => s.entries # <<>>
  BY Zenon DEF LeftNext
<1> USE <1>0
<1> DEFINE n == Len(s.entries)
           m == Len(r.entries)
           es == Applied(s, kind, i, i + 1).entries
           ds == Applied(r, kind, i - cut, (i - cut) + 1).entries
<1>1. i - cut \in Nat
  OBVIOUS
<1>2. /\ v = [Applied(s, kind, i, i + 1) EXCEPT !.eventCount = s.eventCount + 1]
      /\ w = [Applied(r, kind, i - cut, (i - cut) + 1) EXCEPT !.eventCount = r.eventCount + 1]
  <2>1. Visit(s, kind, i + 1) = [Applied(s, kind, i, i + 1) EXCEPT !.eventCount = s.eventCount + 1]
    BY VisitIs
  <2> DEFINE d == i - cut
  <2>2. d \in Nat
    OBVIOUS
  <2> HIDE DEF d
  <2>3. Visit(r, kind, d + 1) = [Applied(r, kind, d, d + 1) EXCEPT !.eventCount = r.eventCount + 1]
    BY <2>2, VisitIs
  <2> QED
    BY <2>1, <2>3 DEF d
<1>3. /\ v.entries = es /\ v.eventCount = s.eventCount + 1 /\ v.base = s.base
      /\ v.turnCount = (IF Working(s, kind) /\ kind = "turnEnded"
                          THEN AtLeast(s.turnCount, LastEntry(s).turn) ELSE s.turnCount)
      /\ v.inTurn = (kind = "turnStarted" \/ (s.inTurn /\ kind # "turnEnded"))
      /\ v.status = (IF kind = "threadCompleted" THEN "completed"
                     ELSE IF kind \in {"threadStarted", "turnStarted"} THEN "active" ELSE s.status)
  BY <1>2 DEF Applied
<1>4. /\ w.entries = ds /\ w.eventCount = r.eventCount + 1 /\ w.base = r.base
      /\ w.turnCount = (IF Working(r, kind) /\ kind = "turnEnded"
                          THEN AtLeast(r.turnCount, LastEntry(r).turn) ELSE r.turnCount)
      /\ w.inTurn = (kind = "turnStarted" \/ (r.inTurn /\ kind # "turnEnded"))
      /\ w.status = (IF kind = "threadCompleted" THEN "completed"
                     ELSE IF kind \in {"threadStarted", "turnStarted"} THEN "active" ELSE r.status)
  BY <1>2 DEF Applied
<1>5. EntriesAfter(s, kind, i, i + 1, es, n) /\ EntriesAfter(r, kind, i - cut, (i - cut) + 1, ds, m)
  BY AppliedEntries
<1>6. /\ m = n - k /\ n >= k /\ \A j \in 1 .. m : r.entries[j] = Shifted(s.entries[j + k], cut)
      /\ r.base = base /\ r.eventCount = i - cut
      /\ n > k => r.inTurn = s.inTurn /\ r.turnCount = s.turnCount
      /\ n = k => ~r.inTurn /\ r.turnCount = base - 1
      /\ \/ r.status = s.status
         \/ /\ r.status = "active" /\ s.status = "completed" /\ n = k
            /\ \A j \in cut + 1 .. i : f[j].kind \notin StatusKinds
  BY DEF Left
<1>7. /\ n \in Nat /\ m \in Nat /\ (s.entries # <<>> <=> n # 0) /\ (r.entries # <<>> <=> m # 0)
      /\ s.turnCount \in Nat /\ r.turnCount \in Nat /\ s.inTurn \in BOOLEAN /\ r.inTurn \in BOOLEAN
  BY EntriesType DEF LogStates
<1>8. \A j \in 1 .. n : /\ s.entries[j] \in IndexEntries
                        /\ s.entries[j].end \in Nat /\ s.entries[j].turn \in Nat
  BY EntriesType
<1> HIDE DEF n, m, es, ds
<1>9. \/ w.status = v.status
      \/ /\ w.status = "active" /\ v.status = "completed" /\ Len(v.entries) = k
         /\ \A j \in cut + 1 .. i + 1 : f[j].kind \notin StatusKinds
  <2>1. CASE kind \in StatusKinds
    BY <1>3, <1>4, <2>1 DEF StatusKinds
  <2>2. CASE kind \notin StatusKinds
    <3>1. v.status = s.status /\ w.status = r.status
      BY <1>3, <1>4, <2>2 DEF StatusKinds
    <3>2. \A j \in cut + 1 .. i + 1 : j \in cut + 1 .. i \/ j = i + 1
      OBVIOUS
    <3>3. kind # "turnStarted"
      BY <2>2 DEF StatusKinds
    <3>4. Len(es) = n
      BY <1>5, <3>3 DEF EntriesAfter, n
    <3> QED
      BY <1>3, <1>6, <2>2, <3>1, <3>2, <3>4
  <2> QED
    BY <2>1, <2>2
<1>10. w.base = base /\ w.eventCount = (i + 1) - cut
  BY <1>4, <1>6
<1>11. CASE kind = "turnStarted"
  <2>1. /\ Len(es) = n + 1 /\ es[n + 1] = Begun(s, i, i + 1) /\ \A j \in 1 .. n : es[j] = s.entries[j]
        /\ Len(ds) = m + 1 /\ ds[m + 1] = Begun(r, i - cut, (i - cut) + 1)
        /\ \A j \in 1 .. m : ds[j] = r.entries[j]
    BY <1>5, <1>11 DEF EntriesAfter
  <2>2. /\ v.turnCount = s.turnCount /\ w.turnCount = r.turnCount /\ v.inTurn = TRUE /\ w.inTurn = TRUE
    BY <1>3, <1>4, <1>11 DEF Working
  <2>3. r.turnCount = s.turnCount
    <3>1. CASE n = k
      <4>1. es[k + 1].turn = base
        BY <1>3, <1>7, <2>1, <3>1 DEF n
      <4>2. es[k + 1].turn = s.turnCount + 1
        BY <2>1, <3>1 DEF Begun
      <4> QED
        BY <1>6, <1>7, <3>1, <4>1, <4>2
    <3>2. CASE n > k
      BY <1>6, <3>2
    <3> QED
      BY <1>6, <1>7, <3>1, <3>2
  <2>4. ASSUME NEW j \in 1 .. m + 1 PROVE ds[j] = Shifted(es[j + k], cut)
    <3>1. CASE j = m + 1
      <4>1. j + k = n + 1
        BY <1>6, <1>7, <3>1
      <4>2. Shifted(Begun(s, i, i + 1), cut) = Begun(r, i - cut, (i - cut) + 1)
        BY <2>3, ShiftedIs
      <4> QED
        BY <2>1, <3>1, <4>1, <4>2
    <3>2. CASE j \in 1 .. m
      <4>1. j + k \in 1 .. n
        BY ONLY <1>6, <1>7, <3>2, k \in Nat
      <4> QED
        BY <1>6, <2>1, <3>2, <4>1
    <3> QED
      BY <1>7, <3>1, <3>2
  <2>5. Len(ds) = Len(es) - k /\ Len(es) > k
    BY <1>6, <1>7, <2>1
  <2> QED
    <3>1. Len(w.entries) = Len(v.entries) - k /\ Len(v.entries) > k /\ Len(w.entries) = m + 1
      BY <1>3, <1>4, <2>1, <2>5
    <3>2. \A j \in 1 .. Len(w.entries) : w.entries[j] = Shifted(v.entries[j + k], cut)
      BY <1>3, <1>4, <2>4, <3>1
    <3>3. Len(v.entries) # k /\ Len(v.entries) >= k
      BY <3>1
    <3>4. w.inTurn = v.inTurn /\ w.turnCount = v.turnCount
      BY <2>2, <2>3
    <3> QED
      BY <1>9, <1>10, <3>1, <3>2, <3>3, <3>4 DEF Left
<1>12. CASE Working(s, kind)
  <2>1. /\ Len(es) = n /\ n > 0 /\ es[n] = Extended(s.entries[n], i + 1)
        /\ \A j \in 1 .. n - 1 : es[j] = s.entries[j]
    BY <1>5, <1>12 DEF EntriesAfter
  <2>2. s.inTurn /\ kind # "turnStarted"
    BY <1>12 DEF Working
  <2>3. n > k
    <3>1. CASE n = k
      <4>1. es[n].end = i + 1
        BY <1>7, <1>8, <2>1 DEF Extended, IndexEntries
      <4>2. es[n].end <= cut
        BY <1>3, <3>1
      <4> QED
        BY <4>1, <4>2
    <3> QED
      BY <1>6, <1>7, <3>1
  <2>4. r.inTurn = s.inTurn /\ r.turnCount = s.turnCount /\ m > 0 /\ m + k = n
    BY <1>6, <1>7, <2>3
  <2>5. Working(r, kind)
    BY <1>7, <1>12, <2>4 DEF Working
  <2>6. /\ Len(ds) = m /\ ds[m] = Extended(r.entries[m], (i - cut) + 1)
        /\ \A j \in 1 .. m - 1 : ds[j] = r.entries[j]
    BY <1>5, <2>5 DEF EntriesAfter
  <2>7. m \in 1 .. m /\ n \in 1 .. n /\ r.entries[m] = Shifted(s.entries[n], cut)
    <3>1. m \in 1 .. m /\ n \in 1 .. n
      BY <1>7, <2>1, <2>4
    <3>2. r.entries[m] = Shifted(s.entries[m + k], cut)
      BY <1>6, <3>1
    <3> QED
      BY <2>4, <3>1, <3>2
  <2>8. ASSUME NEW j \in 1 .. m PROVE ds[j] = Shifted(es[j + k], cut)
    <3>1. CASE j = m
      <4>1. Shifted(Extended(s.entries[n], i + 1), cut) = Extended(Shifted(s.entries[n], cut), (i - cut) + 1)
        BY <1>8, <2>7, ShiftedIs
      <4> QED
        BY <2>1, <2>4, <2>6, <2>7, <3>1, <4>1
    <3>2. CASE j \in 1 .. m - 1
      <4>1. j + k \in 1 .. n - 1
        BY <1>7, <2>4, <3>2
      <4>2. j \in 1 .. m
        OBVIOUS
      <4> QED
        BY <1>6, <2>1, <2>6, <3>2, <4>1, <4>2
    <3> QED
      BY <1>7, <3>1, <3>2
  <2>9. w.turnCount = v.turnCount /\ w.inTurn = v.inTurn
    <3>1. LastEntry(r).turn = LastEntry(s).turn
      <4>1. LastEntry(s) = s.entries[n] /\ LastEntry(r) = r.entries[m]
        BY DEF LastEntry, n, m
      <4>2. Shifted(s.entries[n], cut).turn = s.entries[n].turn
        BY <1>8, <2>7 DEF Shifted, IndexEntries
      <4> QED
        BY <2>7, <4>1, <4>2
    <3> QED
      BY <1>3, <1>4, <1>12, <2>4, <2>5, <3>1
  <2>10. Len(ds) = Len(es) - k /\ Len(es) > k
    BY <1>6, <2>1, <2>3, <2>6
  <2> QED
    <3>1. Len(w.entries) = Len(v.entries) - k /\ Len(v.entries) > k /\ Len(w.entries) = m
      BY <1>3, <1>4, <2>6, <2>10
    <3>2. \A j \in 1 .. Len(w.entries) : w.entries[j] = Shifted(v.entries[j + k], cut)
      BY <1>3, <1>4, <2>8, <3>1
    <3>3. Len(v.entries) # k /\ Len(v.entries) >= k
      BY <3>1
    <3> QED
      BY <1>9, <1>10, <2>9, <3>1, <3>2, <3>3 DEF Left
<1>13. CASE kind # "turnStarted" /\ ~Working(s, kind)
  <2>1. es = s.entries
    BY <1>5, <1>13 DEF EntriesAfter
  <2>2. ~Working(r, kind)
    <3>1. CASE n = k
      BY <1>6, <3>1 DEF Working
    <3>2. CASE n > k
      BY <1>6, <1>7, <1>13, <3>2 DEF Working
    <3> QED
      BY <1>6, <1>7, <3>1, <3>2
  <2>3. ds = r.entries
    BY <1>5, <1>13, <2>2 DEF EntriesAfter
  <2>4. v.turnCount = s.turnCount /\ w.turnCount = r.turnCount
    BY <1>3, <1>4, <1>13, <2>2
  <2>5. n > k => w.inTurn = v.inTurn
    BY <1>3, <1>4, <1>6
  <2>6. n = k => ~w.inTurn
    BY <1>4, <1>6, <1>13
  <2> QED
    <3>1. Len(v.entries) = n /\ Len(w.entries) = m
      BY <1>3, <1>4, <2>1, <2>3 DEF n, m
    <3>2. Len(w.entries) = Len(v.entries) - k /\ Len(v.entries) >= k
      BY <1>6, <3>1
    <3>3. \A j \in 1 .. Len(w.entries) : w.entries[j] = Shifted(v.entries[j + k], cut)
      <4>1. ASSUME NEW j \in 1 .. m PROVE r.entries[j] = Shifted(s.entries[j + k], cut)
        BY <1>6, <4>1
      <4>2. w.entries = r.entries /\ v.entries = s.entries
        BY <1>3, <1>4, <2>1, <2>3
      <4> QED
        BY <3>1, <4>1, <4>2
    <3>4. /\ n > k => w.inTurn = v.inTurn /\ w.turnCount = v.turnCount
          /\ n = k => ~w.inTurn /\ w.turnCount = base - 1
      BY <1>6, <2>4, <2>5, <2>6
    <3> QED
      BY <1>9, <1>10, <3>1, <3>2, <3>3, <3>4 DEF Left
<1> QED
  BY <1>11, <1>12, <1>13

\* After a completed thread come events of the session, or a new thread.
Polite(f) ==
    \A i, j \in 1 .. Len(f) :
        i < j /\ f[i].kind = "threadCompleted" /\ f[j].kind \notin {"threadStarted", "other"} =>
            \E k \in i + 1 .. j - 1 : f[k].kind = "threadStarted"

\* A scan that ends completed has found thread.completed behind all its turns, and
\* nothing but events of the session behind that.
CompletedBy(f, s, m) ==
    s.status = "completed" =>
        \E p \in 1 .. m :
            /\ f[p].kind = "threadCompleted"
            /\ \A j \in p + 1 .. m : f[j].kind = "other"
            /\ ~s.inTurn => \A j \in 1 .. Len(s.entries) : s.entries[j].end < p

LEMMA VisitedCompleted ==
    ASSUME NEW f, Len(f) \in Nat, Polite(f), NEW from \in Nat \ {0}, NEW a, Visited(f, from, a)
    PROVE  \A m \in 0 .. Len(f) : CompletedBy(f, a[m], m)
<1> DEFINE S == {m \in Nat : m <= Len(f) => CompletedBy(f, a[m], m)}
<1>1. 0 \in S
  <2>1. a[0].status = "active"
    BY DEF Visited, ScanStart
  <2> QED
    BY <2>1 DEF CompletedBy
<1>2. ASSUME NEW m \in S PROVE m + 1 \in S
  <2> DEFINE s == a[m]
             v == a[m + 1]
             kind == f[m + 1].kind
             es == Applied(s, kind, m, m + 1).entries
             n == Len(s.entries)
  <2>1. SUFFICES ASSUME m + 1 <= Len(f), v.status = "completed" PROVE CompletedBy(f, v, m + 1)
    BY DEF CompletedBy
  <2>2. m \in 0 .. Len(f) - 1 /\ m \in 0 .. Len(f) /\ m \in Nat /\ CompletedBy(f, s, m) /\ m + 1 \in 1 .. Len(f)
    BY <2>1
  <2>3. v = Visit(s, kind, m + 1)
    BY <2>2 DEF Visited
  <2>4. Sound(s, m, from)
    BY <2>2, VisitedSound
  <2>5. s \in LogStates /\ n \in Nat /\ \A j \in 1 .. n : s.entries[j].end \in Nat /\ s.entries[j].end <= m
    BY <2>4, EntriesType DEF Sound
  <2>6. v = [Applied(s, kind, m, m + 1) EXCEPT !.eventCount = s.eventCount + 1]
    <3> HIDE DEF kind, s
    <3> QED
      BY <2>2, <2>3, <2>5, VisitIs
  <2>7. /\ v.entries = es
        /\ v.inTurn = (kind = "turnStarted" \/ (s.inTurn /\ kind # "turnEnded"))
        /\ v.status = (IF kind = "threadCompleted" THEN "completed"
                       ELSE IF kind \in {"threadStarted", "turnStarted"} THEN "active" ELSE s.status)
    BY <2>6 DEF Applied
  <2>8. EntriesAfter(s, kind, m, m + 1, es, n)
    BY <2>5, AppliedEntries
  <2> HIDE DEF s, v, kind, es, n, S
  <2>9. CASE kind = "threadCompleted"
    <3>1. es = s.entries
      BY <2>8, <2>9 DEF EntriesAfter, Working
    <3>2. \A j \in 1 .. Len(v.entries) : v.entries[j].end < m + 1
      BY <2>2, <2>5, <2>7, <3>1 DEF n
    <3>3. m + 1 \in 1 .. m + 1 /\ f[m + 1].kind = "threadCompleted" /\ \A j \in (m + 1) + 1 .. m + 1 : f[j].kind = "other"
      BY <2>2, <2>9 DEF kind
    <3> QED
      BY <3>2, <3>3 DEF CompletedBy
  <2>10. CASE kind # "threadCompleted"
    <3>1. kind \notin {"threadStarted", "turnStarted"} /\ s.status = "completed"
      BY <2>1, <2>7, <2>10
    <3>2. PICK p \in 1 .. m : /\ f[p].kind = "threadCompleted"
                              /\ \A j \in p + 1 .. m : f[j].kind = "other"
                              /\ ~s.inTurn => \A j \in 1 .. Len(s.entries) : s.entries[j].end < p
      BY <2>2, <3>1 DEF CompletedBy
    <3>3. kind = "other"
      <4>1. SUFFICES ASSUME kind # "other" PROVE FALSE
        OBVIOUS
      <4>2. p \in 1 .. Len(f) /\ m + 1 \in 1 .. Len(f) /\ p < m + 1 /\ (m + 1) - 1 = m
        BY <2>2
      <4>3. \E k \in p + 1 .. m : f[k].kind = "threadStarted"
        BY <3>1, <3>2, <4>1, <4>2 DEF Polite, kind
      <4> QED
        BY <3>2, <4>3
    <3>4. v.inTurn = s.inTurn
      BY <2>5, <2>7, <3>3 DEF LogStates
    <3>5. ~s.inTurn => v.entries = s.entries
      BY <2>7, <2>8, <3>3 DEF EntriesAfter, Working
    <3>6. p \in 1 .. m + 1 /\ \A j \in p + 1 .. m + 1 : f[j].kind = "other"
      <4>1. \A j \in p + 1 .. m + 1 : j \in p + 1 .. m \/ j = m + 1
        BY <2>2
      <4> QED
        BY <2>2, <3>2, <3>3, <4>1 DEF kind
    <3> QED
      BY <3>2, <3>4, <3>5, <3>6 DEF CompletedBy
  <2> QED
    BY <2>9, <2>10
<1>3. S = Nat
  <2> HIDE DEF S
  <2>1. S \in SUBSET Nat
    BY DEF S
  <2> QED
    BY <1>1, <1>2, <2>1, EveryNatural
<1> QED
  BY <1>3

\* States with the same fields are the same.
LEMMA SameState ==
    ASSUME NEW r \in LogStates, NEW s \in LogStates,
           r.turnCount = s.turnCount, r.eventCount = s.eventCount, r.inTurn = s.inTurn,
           r.base = s.base, r.status = s.status, r.offset = s.offset, r.entries = s.entries
    PROVE  r = s
BY DEF LogStates

\* Where an evicted turn ends, exactly the evicted turns have started.
LEMMA TurnsAtCut ==
    ASSUME NEW f, Len(f) \in Nat, NEW from \in Nat \ {0}, NEW a, Visited(f, from, a),
           NEW k \in 1 .. Len(a[Len(f)].entries), NEW cut, cut = a[Len(f)].entries[k].end
    PROVE  cut \in 1 .. Len(f) /\ Len(a[cut].entries) = k
<1> DEFINE t == a[Len(f)]
           s == a[cut]
           n == Len(t.entries)
           m == Len(s.entries)
<1>1. Sound(t, Len(f), from)
  <2>1. Len(f) \in 0 .. Len(f)
    OBVIOUS
  <2> QED
    BY <2>1, VisitedSound
<1>2. t \in LogStates /\ n \in Nat
      /\ \A j \in 1 .. n : t.entries[j].start \in Nat /\ t.entries[j].end \in Nat
  BY <1>1, EntriesType DEF Sound
<1> HIDE DEF t
<1>3. /\ \A j \in 1 .. n : t.entries[j].start < t.entries[j].end /\ t.entries[j].end <= Len(f)
      /\ \A j \in 2 .. n : t.entries[j].start >= t.entries[j - 1].end
  BY <1>1 DEF Sound
<1>4. cut \in 1 .. Len(f) /\ cut = t.entries[k].end /\ k \in 1 .. n
  <2>1. cut = t.entries[k].end /\ k \in 1 .. n
    BY DEF t
  <2>2. t.entries[k].end \in Nat /\ t.entries[k].start \in Nat /\ t.entries[k].start < t.entries[k].end
        /\ t.entries[k].end <= Len(f)
    BY <1>2, <1>3, <2>1
  <2> QED
    BY <2>1, <2>2
<1>5. Sound(s, cut, from) /\ Grown(s, t, cut)
  <2>1. cut \in 0 .. Len(f) /\ Len(f) \in cut .. Len(f)
    BY <1>4
  <2>2. Sound(a[cut], cut, from)
    BY <2>1, VisitedSound
  <2>3. Grown(a[cut], a[Len(f)], cut)
    BY <2>1, VisitedGrown
  <2> QED
    BY <2>2, <2>3 DEF t
<1> HIDE DEF s
<1>6. /\ m \in Nat
      /\ \A j \in 1 .. m : /\ s.entries[j].start \in Nat /\ s.entries[j].end \in Nat
                           /\ s.entries[j].start < s.entries[j].end /\ s.entries[j].end <= cut
  <2>1. s \in LogStates
    BY <1>5 DEF Sound
  <2> QED
    BY <1>5, <2>1, EntriesType DEF Sound
<1>7. /\ m <= n
      /\ \A j \in 1 .. m : t.entries[j].start = s.entries[j].start
      /\ \A j \in m + 1 .. n : t.entries[j].start >= cut
  BY <1>5 DEF Grown
<1>8. m >= k
  <2>1. SUFFICES ASSUME m < k PROVE FALSE
    BY <1>4, <1>6
  <2>2. k \in m + 1 .. n
    BY <1>2, <1>4, <1>6, <2>1
  <2> QED
    <3>1. t.entries[k].start >= cut
      BY <1>7, <2>2
    <3>2. t.entries[k].start < t.entries[k].end /\ cut = t.entries[k].end
      BY <1>3, <1>4
    <3>3. t.entries[k].start \in Nat /\ t.entries[k].end \in Nat
      BY <1>2, <1>4
    <3> QED
      BY <3>1, <3>2, <3>3
<1>9. m <= k
  <2>1. SUFFICES ASSUME m > k PROVE FALSE
    BY <1>4, <1>6
  <2>2. k + 1 \in 1 .. m /\ k + 1 \in 2 .. n /\ (k + 1) - 1 = k
    BY <1>2, <1>4, <1>6, <1>7, <2>1
  <2>3. t.entries[k + 1].start >= cut
    BY <1>3, <1>4, <2>2
  <2>4. /\ s.entries[k + 1].start = t.entries[k + 1].start
        /\ s.entries[k + 1].start < s.entries[k + 1].end /\ s.entries[k + 1].end <= cut
        /\ s.entries[k + 1].start \in Nat /\ s.entries[k + 1].end \in Nat
    BY <1>6, <1>7, <2>2
  <2> QED
    BY <1>4, <2>3, <2>4
<1>10. cut \in 1 .. Len(f) /\ m = k
  BY <1>4, <1>6, <1>8, <1>9
<1> QED
  BY <1>10 DEF s

\* g is left of the file f when its first k turns are evicted.
Evicted(f, from, s, k, cut, g) ==
    /\ f \in Seq(EventRecords) /\ Whole(f) /\ Polite(f) /\ from \in Nat \ {0}
    /\ s = Scan(f, from) /\ k \in 1 .. Evictable(s)
    /\ cut = s.entries[k].end /\ g = SubSeq(f, cut + 1, Len(f))

\* What append keeps of the index after an eviction is what a scan of the
\* remaining records finds.
LEMMA EvictionIsScan ==
    ASSUME NEW f, NEW from, NEW s, NEW k, NEW cut, NEW g, Evicted(f, from, s, k, cut, g)
    PROVE  /\ cut \in 1 .. Len(f) /\ Len(g) = Len(f) - cut
           /\ Scan(g, retained_turn_base_after_eviction(s, k)) = apply_cap_eviction(s, k, cut, cut, Len(g))
<1>0. /\ f \in Seq(EventRecords) /\ Whole(f) /\ Polite(f) /\ from \in Nat \ {0}
      /\ s = Scan(f, from) /\ k \in 1 .. Evictable(s)
      /\ cut = s.entries[k].end /\ g = SubSeq(f, cut + 1, Len(f))
  BY Zenon DEF Evicted
<1> USE <1>0
<1> DEFINE N == Len(f)
           base == retained_turn_base_after_eviction(s, k)
<1>1. N \in Nat
  BY LenProperties
<1>2. PICK a : Visited(f, from, a)
  BY <1>1, VisitedExists
<1> DEFINE t == a[N]
<1>3. s = [t EXCEPT !.offset = N] /\ t \in LogStates
  <2>1. N \in 0 .. N
    BY <1>1
  <2> QED
    BY <1>1, <1>2, <2>1, ScanIsVisited DEF Visited
<1>4. s \in LogStates /\ s.entries = t.entries /\ s.turnCount = t.turnCount /\ s.inTurn = t.inTurn
      /\ s.status = t.status /\ s.offset = N /\ s.eventCount = t.eventCount
  BY <1>1, <1>3 DEF LogStates
<1>5. /\ k \in 1 .. Len(t.entries) /\ k \in Nat \ {0} /\ Len(t.entries) \in Nat
      /\ t.inTurn \in BOOLEAN /\ (k = Len(t.entries) => ~t.inTurn)
  <2>1. Evictable(s) \in Int /\ Evictable(s) <= Len(t.entries) /\ Len(t.entries) \in Nat /\ t.inTurn \in BOOLEAN
    BY <1>3, <1>4, EvictableType DEF LogStates
  <2>2. t.inTurn => Evictable(s) = Len(t.entries) - 1
    BY <1>4 DEF Evictable
  <2> QED
    BY <2>1, <2>2
<1>6. base \in Nat \ {0}
  BY <1>4, <1>5, RetainedBaseType
<1>7. cut = t.entries[k].end
  BY <1>4
<1>8. cut \in 1 .. N /\ cut \in Nat /\ Len(a[cut].entries) = k
  <2>1. cut \in 1 .. N /\ Len(a[cut].entries) = k
    BY <1>1, <1>2, <1>5, <1>7, TurnsAtCut
  <2> QED
    BY <2>1
<1>9. /\ g \in Seq(EventRecords) /\ Len(g) = N - cut /\ N - cut \in Nat
      /\ \A i \in 1 .. N - cut : g[i] = f[i + cut]
  <2>1. cut \in 0 .. Len(f)
    BY <1>8
  <2>2. /\ SubSeq(f, cut + 1, Len(f)) \in Seq(EventRecords)
        /\ Len(SubSeq(f, cut + 1, Len(f))) = Len(f) - cut
        /\ \A i \in 1 .. Len(f) - cut : SubSeq(f, cut + 1, Len(f))[i] = f[i + cut]
    BY <2>1, Halves
  <2>3. N - cut \in Nat
    BY <1>1, <1>8
  <2> QED
    BY <2>2, <2>3
<1>10. Whole(g)
  <2>1. cut \in 0 .. Len(f)
    BY <1>8
  <2> QED
    BY <2>1, WholeCut
<1> HIDE DEF N, base
<1>11. PICK b : Visited(g, base, b)
  BY <1>6, <1>9, <1>10, VisitedExists
<1> DEFINE S == {n \in Nat : cut + n <= N =>
                   Left(b[n], a[cut + n], cut + n, f, k, cut, base) /\ Len(a[cut + n].entries) >= k}
<1>12. \A i \in 0 .. N : a[i] \in LogStates /\ Sound(a[i], i, from)
  BY <1>1, <1>2, VisitedSound DEF Visited, N
<1>13. \A i \in 0 .. N : \A m \in i .. N : Grown(a[i], a[m], i)
  BY <1>1, <1>2, VisitedGrown DEF N
<1>14. \A n \in 0 .. N - cut : b[n] \in LogStates
  BY <1>9, <1>11 DEF Visited
<1>15. 0 \in S
  <2>1. cut + 0 = cut /\ b[0] = ScanStart(base)
    BY <1>8, <1>11 DEF Visited
  <2>2. cut \in 0 .. N /\ a[cut] \in LogStates
    BY <1>8, <1>12
  <2>3. a[cut].status \in {"active", "completed"}
    BY <2>2 DEF LogStates
  <2>4. /\ b[0].entries = <<>> /\ Len(b[0].entries) = 0 /\ b[0].base = base /\ b[0].eventCount = 0
        /\ b[0].inTurn = FALSE /\ b[0].turnCount = base - 1 /\ b[0].status = "active"
    BY <2>1 DEF ScanStart
  <2>5. Left(b[0], a[cut], cut, f, k, cut, base)
    <3>1. \A j \in cut + 1 .. cut : f[j].kind \notin StatusKinds
      BY <1>8
    <3>2. Len(b[0].entries) = Len(a[cut].entries) - k /\ b[0].eventCount = cut - cut
      BY <1>5, <1>8, <2>4
    <3>3. \A j \in 1 .. Len(b[0].entries) : b[0].entries[j] = Shifted(a[cut].entries[j + k], cut)
      BY <2>4
    <3>4. ~(Len(a[cut].entries) > k)
      BY <1>5, <1>8
    <3> QED
      BY <1>8, <2>3, <2>4, <3>1, <3>2, <3>3, <3>4 DEF Left
  <2>6. Len(a[cut].entries) >= k
    BY <1>5, <1>8
  <2> QED
    BY <2>1, <2>5, <2>6
<1>16. ASSUME NEW n \in S PROVE n + 1 \in S
  <2> DEFINE i == cut + n
             u == a[i]
             v == a[i + 1]
             kind == f[i + 1].kind
  <2>1. SUFFICES ASSUME i + 1 <= N
                 PROVE  Left(b[n + 1], v, i + 1, f, k, cut, base) /\ Len(v.entries) >= k
    <3>1. n \in Nat /\ cut \in Nat
      BY <1>8
    <3>2. cut + (n + 1) = i + 1
      <4>1. \A p, q \in Nat : p + (q + 1) = (p + q) + 1
        OBVIOUS
      <4> QED
        BY <3>1, <4>1, Zenon
    <3>3. /\ Left(b[n + 1], a[i + 1], i + 1, f, k, cut, base) /\ Len(a[i + 1].entries) >= k
          /\ n + 1 \in Nat
      => n + 1 \in S
      <4> HIDE DEF i
      <4> QED
        BY <3>2
    <3>4. n + 1 \in Nat /\ cut + (n + 1) \in Nat /\ N \in Nat
      <4>1. n + 1 \in Nat /\ N \in Nat
        BY <1>1, <3>1
      <4>2. \A p, q \in Nat : p + q \in Nat
        OBVIOUS
      <4> QED
        BY <3>1, <4>1, <4>2
    <3>5. ~(cut + (n + 1) <= N) => n + 1 \in S
      BY <3>4
    <3> HIDE DEF i, S
    <3> QED
      BY <3>2, <3>3, <3>4, <3>5 DEF v
  <2>2. /\ n \in Nat /\ i \in Nat /\ cut <= i /\ i \in 0 .. N - 1 /\ i \in 0 .. N /\ i + 1 \in 0 .. N
        /\ n \in 0 .. N - cut /\ n \in 0 .. (N - cut) - 1 /\ i - cut = n /\ n + 1 \in 1 .. N - cut
        /\ cut + (n + 1) = i + 1 /\ (n + 1) + cut = i + 1 /\ cut + n <= N
    <3>1. n \in Nat /\ cut \in Nat /\ N \in Nat /\ cut + n + 1 <= N
      BY <1>1, <1>8, <2>1
    <3> QED
      BY ONLY <3>1
  <2>3. Left(b[n], u, i, f, k, cut, base) /\ Len(u.entries) >= k
    BY <2>2 DEF S
  <2> HIDE DEF i, S
  <2>4. v = Visit(u, kind, i + 1)
    BY <1>2, <2>2 DEF Visited, N
  <2>5. b[n + 1] = Visit(b[n], kind, (i - cut) + 1)
    <3>1. b[n + 1] = Visit(b[n], g[n + 1].kind, n + 1)
      BY <1>9, <1>11, <2>2 DEF Visited
    <3>2. g[n + 1] = f[i + 1]
      BY <1>9, <2>2
    <3> QED
      BY <2>2, <3>1, <3>2
  <2>6. Grown(a[cut], v, cut) /\ Grown(v, t, i + 1)
    <3>1. cut \in 0 .. N /\ i + 1 \in cut .. N /\ N \in i + 1 .. N
      <4>1. cut \in Nat /\ N \in Nat /\ i \in Nat /\ cut <= i /\ i + 1 <= N
        BY <1>1, <1>8, <2>2
      <4> HIDE DEF N
      <4> QED
        BY ONLY <4>1
    <3> QED
      BY <1>13, <2>2, <3>1
  <2>7. v \in LogStates /\ u \in LogStates /\ b[n] \in LogStates /\ Sound(u, i, from)
    BY <1>12, <1>14, <2>2
  <2>8. Len(v.entries) \in Nat /\ \A j \in 1 .. Len(v.entries) : v.entries[j].end \in Nat
    BY <2>7, EntriesType
  <2> HIDE DEF u, v, kind, t
  <2>9. Len(v.entries) >= k /\ Len(v.entries) <= Len(t.entries)
    BY <1>8, <2>6 DEF Grown
  <2>10. v.entries[k].end <= cut
    <3>1. k \in 1 .. Len(v.entries)
      BY <1>5, <2>8, <2>9
    <3>2. t.entries[k].end >= v.entries[k].end /\ v.entries[k].end \in Nat
      BY <2>6, <2>8, <3>1 DEF Grown
    <3> QED
      BY <1>7, <1>8, <3>2
  <2>11. ASSUME Len(v.entries) > k PROVE v.entries[k + 1].turn = base
    <3>1. k + 1 \in 1 .. Len(v.entries) /\ k < Len(t.entries)
      BY <1>5, <2>8, <2>9, <2>11
    <3>2. t.entries[k + 1].turn = v.entries[k + 1].turn
      BY <2>6, <3>1 DEF Grown
    <3> QED
      BY <1>4, <3>1, <3>2 DEF base, retained_turn_base_after_eviction
  <2>12. u.inTurn => u.entries # <<>>
    BY <2>7 DEF Sound
  <2>13. kind = f[i + 1].kind
    BY DEF kind
  <2>14. Left(b[n + 1], v, i + 1, f, k, cut, base) /\ Len(v.entries) >= k
    <3> DEFINE w == b[n + 1]
               q == b[n]
    <3>1. /\ w = Visit(q, kind, (i - cut) + 1) /\ q \in LogStates /\ Left(q, u, i, f, k, cut, base)
      BY <2>3, <2>5, <2>7
    <3> HIDE DEF w, q
    <3>2. k \in Nat \ {0} /\ cut \in Nat /\ base \in Nat \ {0} /\ i \in Nat /\ cut <= i
      BY <1>5, <1>6, <1>8, <2>2
    <3>3. /\ v.entries[k].end <= cut
          /\ Len(u.entries) = k /\ Len(v.entries) > k => v.entries[k + 1].turn = base
          /\ u.inTurn => u.entries # <<>>
          /\ v = Visit(u, kind, i + 1) /\ kind = f[i + 1].kind
          /\ u \in LogStates /\ Len(u.entries) >= k
      BY <2>3, <2>4, <2>7, <2>10, <2>11, <2>12, <2>13
    <3>4. LeftNext(q, u, i, f, k, cut, base, kind, v, w)
      BY <3>1, <3>2, <3>3, Zenon DEF LeftNext
    <3>5. Left(w, v, i + 1, f, k, cut, base) /\ Len(v.entries) >= k
      BY ONLY <3>4, LeftVisit
    <3> QED
      BY <3>5 DEF w
  <2> QED
    BY <2>14
<1>17. S = Nat
  <2> HIDE DEF S
  <2>1. S \in SUBSET Nat
    BY DEF S
  <2> QED
    BY <1>15, <1>16, <2>1, EveryNatural
<1> DEFINE r == b[N - cut]
<1>18. Left(r, t, N, f, k, cut, base)
  <2> DEFINE d == N - cut
  <2>1. d \in Nat /\ cut + d = N /\ N <= N
    BY <1>1, <1>8
  <2> HIDE DEF d
  <2>2. d \in S
    BY <1>17, <2>1
  <2>3. Left(b[d], a[cut + d], cut + d, f, k, cut, base)
    BY <2>1, <2>2
  <2> QED
    BY <2>1, <2>3 DEF d
<1>19. r \in LogStates
  <2>1. N - cut \in 0 .. N - cut
    BY <1>9
  <2> QED
    BY <1>14, <2>1
<1>20. Scan(g, base) = [r EXCEPT !.offset = N - cut]
  <2>1. Len(g) \in Nat
    BY <1>9
  <2>2. Scan(g, base) = [b[Len(g)] EXCEPT !.offset = Len(g)]
    BY <1>6, <1>10, <1>11, <2>1, ScanIsVisited
  <2> QED
    BY <1>9, <2>2
<1>21. CompletedBy(f, t, N)
  <2>1. N \in 0 .. N
    BY <1>1
  <2> QED
    BY <1>1, <1>2, <2>1, VisitedCompleted DEF N
<1> HIDE DEF r, t, S
<1>22. r.status = t.status
  <2>1. SUFFICES ASSUME /\ t.status = "completed" /\ Len(t.entries) = k
                        /\ \A j \in cut + 1 .. N : f[j].kind \notin StatusKinds
                 PROVE  FALSE
    BY <1>18 DEF Left
  <2>2. PICK p \in 1 .. N : /\ f[p].kind = "threadCompleted"
                            /\ ~t.inTurn => \A j \in 1 .. Len(t.entries) : t.entries[j].end < p
    BY <1>21, <2>1 DEF CompletedBy
  <2>3. t.entries[k].end < p
    BY <1>5, <2>1, <2>2
  <2>4. p \in cut + 1 .. N
    BY <1>1, <1>7, <1>8, <2>3
  <2> QED
    BY <2>1, <2>2, <2>4 DEF StatusKinds
<1>23. /\ Len(r.entries) = Len(t.entries) - k
       /\ \A j \in 1 .. Len(r.entries) : r.entries[j] = Shifted(t.entries[j + k], cut)
       /\ r.base = base /\ r.eventCount = N - cut
       /\ Len(t.entries) > k => r.inTurn = t.inTurn /\ r.turnCount = t.turnCount
       /\ Len(t.entries) = k => ~r.inTurn /\ r.turnCount = base - 1
  BY <1>18 DEF Left
<1>24. r.inTurn = t.inTurn /\ r.turnCount = t.turnCount
  <2>1. CASE Len(t.entries) > k
    BY <1>23, <2>1
  <2>2. CASE Len(t.entries) = k
    <3>1. base = t.turnCount + 1
      BY <1>4, <1>5, <2>2 DEF base, retained_turn_base_after_eviction
    <3>2. t.turnCount \in Nat /\ r.inTurn \in BOOLEAN
      BY <1>3, <1>19 DEF LogStates
    <3> QED
      BY <1>5, <1>23, <2>2, <3>1, <3>2
  <2> QED
    BY <1>5, <2>1, <2>2
<1> DEFINE rest == [i \in 1 .. Len(s.entries) - k |-> Shifted(s.entries[i + k], cut)]
           x == Scan(g, base)
           y == apply_cap_eviction(s, k, cut, cut, Len(g))
<1>25. r.entries = rest
  <2>1. r.entries \in Seq(IndexEntries)
    BY <1>19, EntriesType
  <2>2. r.entries = [i \in 1 .. Len(r.entries) |-> r.entries[i]]
    BY <2>1, LenProperties
  <2>3. Len(r.entries) = Len(s.entries) - k
    BY <1>4, <1>23
  <2>4. \A i \in 1 .. Len(s.entries) - k : r.entries[i] = Shifted(s.entries[i + k], cut)
    BY <1>4, <1>23, <2>3
  <2> QED
    BY <2>2, <2>3, <2>4
<1>26. /\ x \in LogStates /\ x.turnCount = r.turnCount /\ x.eventCount = r.eventCount
       /\ x.inTurn = r.inTurn /\ x.base = r.base /\ x.status = r.status
       /\ x.offset = N - cut /\ x.entries = r.entries
  BY <1>9, <1>19, <1>20 DEF LogStates
<1>27. y = [s EXCEPT !.entries = rest, !.offset = Len(g), !.eventCount = Minus(s.eventCount, cut),
                     !.base = base]
  BY Zenon DEF apply_cap_eviction, base
<1>28. y \in LogStates
  <2>1. k \in 1 .. Len(s.entries) /\ cut \in Nat /\ Len(g) \in Nat
    BY <1>4, <1>5, <1>8, <1>9
  <2> QED
    BY <1>4, <2>1, CapEvictionType
<1>29. s.eventCount = N
  <2>1. N \in 0 .. N
    BY <1>1
  <2> QED
    BY <1>4, <1>12, <2>1 DEF Sound, t
<1>30. Minus(s.eventCount, cut) = N - cut
  BY <1>1, <1>8, <1>29 DEF Minus, AtLeast
<1> HIDE DEF rest, x, y
<1>31. /\ y.turnCount = s.turnCount /\ y.eventCount = N - cut /\ y.inTurn = s.inTurn
       /\ y.base = base /\ y.status = s.status /\ y.offset = N - cut /\ y.entries = rest
  BY <1>4, <1>9, <1>27, <1>30 DEF LogStates
<1>32. x = y
  BY <1>4, <1>22, <1>23, <1>24, <1>25, <1>26, <1>28, <1>31, SameState
<1> QED
  BY <1>8, <1>9, <1>32 DEF x, y, N, base

-------------------------------------------------------------------------------
(* The cap *)

\* Later turns start behind the end of earlier ones.
LEMMA LaterStarts ==
    ASSUME NEW s, NEW m, NEW from, Told(s, m, from), NEW i \in 1 .. Len(s.entries)
    PROVE  \A j \in i + 1 .. Len(s.entries) : s.entries[i].end <= s.entries[j].start
<1> DEFINE n == Len(s.entries)
           S == {k \in Nat : i + k + 1 <= n => s.entries[i].end <= s.entries[i + k + 1].start}
<1>1. /\ n \in Nat /\ i \in Nat /\ i >= 1
      /\ \A j \in 1 .. n : s.entries[j].start \in Nat /\ s.entries[j].end \in Nat
  BY EntriesType DEF Told
<1>2. /\ \A j \in 1 .. n : s.entries[j].start < s.entries[j].end
      /\ \A j \in 2 .. n : s.entries[j].start >= s.entries[j - 1].end
  BY DEF Told
<1>3. 0 \in S
  <2>1. SUFFICES ASSUME i + 1 <= n PROVE s.entries[i].end <= s.entries[i + 1].start
    <3>1. i + 0 + 1 = i + 1
      BY <1>1
    <3> QED
      BY <3>1
  <2>2. i + 1 \in 2 .. n /\ (i + 1) - 1 = i
    BY <1>1, <2>1
  <2> QED
    BY <1>2, <2>2
<1>4. ASSUME NEW k \in S PROVE k + 1 \in S
  <2> DEFINE j == i + k + 1
  <2>1. SUFFICES ASSUME j + 1 <= n PROVE s.entries[i].end <= s.entries[j + 1].start
    <3>1. i + (k + 1) + 1 = j + 1 /\ k + 1 \in Nat
      BY <1>1
    <3> QED
      BY <3>1
  <2>2. /\ j \in 1 .. n /\ j + 1 \in 2 .. n /\ j + 1 \in 1 .. n /\ (j + 1) - 1 = j /\ j <= n
    BY <1>1, <2>1
  <2>3. s.entries[i].end <= s.entries[j].start
    BY <2>2
  <2> HIDE DEF j
  <2>4. s.entries[j].start < s.entries[j].end /\ s.entries[j + 1].start >= s.entries[j].end
    BY <1>2, <2>2
  <2> QED
    BY <1>1, <2>2, <2>3, <2>4
<1>5. S = Nat
  <2> HIDE DEF S
  <2>1. S \in SUBSET Nat
    BY DEF S
  <2> QED
    BY <1>3, <1>4, <2>1, EveryNatural
<1>6. ASSUME NEW j \in i + 1 .. n PROVE s.entries[i].end <= s.entries[j].start
  <2> DEFINE k == j - i - 1
  <2>1. k \in Nat /\ i + k + 1 = j /\ j <= n
    BY <1>1
  <2>2. k \in S
    BY <1>5, <2>1
  <2> QED
    BY <2>1, <2>2
<1> QED
  BY <1>6

\* The events of the first turns are not more than the records up to their end.
LEMMA IndexedWithin ==
    ASSUME NEW s, NEW m, NEW from, Told(s, m, from), NEW k \in 1 .. Len(s.entries)
    PROVE  IndexedEvents(s, k) <= s.entries[k].end /\ IndexedEvents(s, k) \in Nat
<1> DEFINE n == Len(s.entries)
<1>1. /\ n \in Nat /\ s \in LogStates /\ k \in 0 .. n /\ k \in Nat
      /\ \A j \in 1 .. n : /\ s.entries[j].start \in Nat /\ s.entries[j].end \in Nat
                           /\ s.entries[j].events \in Nat
  BY EntriesType DEF Told
<1>2. /\ \A j \in 1 .. n : s.entries[j].events <= s.entries[j].end - s.entries[j].start
      /\ \A j \in 2 .. n : s.entries[j].start >= s.entries[j - 1].end
  BY DEF Told
<1>3. PICK c : Indexed(s, k, c)
  BY <1>1, IndexedExists
<1>4. c \in [0 .. k -> Nat] /\ c[0] = 0 /\ \A i \in 1 .. k : c[i] = c[i - 1] + s.entries[i].events
  BY <1>3 DEF Indexed
<1> DEFINE S == {i \in Nat : i + 1 <= k => c[i + 1] <= s.entries[i + 1].end}
<1>5. 0 \in S
  <2>1. 1 \in 1 .. n /\ 1 \in 1 .. k /\ 1 - 1 = 0 /\ 0 + 1 = 1
    BY <1>1
  <2>2. c[1] = 0 + s.entries[1].events
    BY <1>4, <2>1
  <2>3. s.entries[1].events <= s.entries[1].end - s.entries[1].start
    BY <1>2, <2>1
  <2>4. c[1] <= s.entries[1].end
    BY <1>1, <2>1, <2>2, <2>3
  <2> QED
    BY <2>1, <2>4
<1>6. ASSUME NEW i \in S PROVE i + 1 \in S
  <2> DEFINE j == i + 1
  <2>1. SUFFICES ASSUME j + 1 <= k PROVE c[j + 1] <= s.entries[j + 1].end
    OBVIOUS
  <2>2. /\ j \in 1 .. k /\ j + 1 \in 1 .. k /\ j + 1 \in 2 .. n /\ j + 1 \in 1 .. n /\ j \in 1 .. n
        /\ (j + 1) - 1 = j /\ j <= k /\ j \in 0 .. k
    BY <1>1, <2>1
  <2>3. c[j] <= s.entries[j].end
    BY <2>2
  <2> HIDE DEF j
  <2>4. c[j + 1] = c[j] + s.entries[j + 1].events /\ c[j] \in Nat
    BY <1>4, <2>2
  <2>5. /\ s.entries[j + 1].events <= s.entries[j + 1].end - s.entries[j + 1].start
        /\ s.entries[j + 1].start >= s.entries[j].end
    BY <1>2, <2>2
  <2> DEFINE e == s.entries[j + 1].events
             x == s.entries[j + 1].start
             y == s.entries[j + 1].end
             z == s.entries[j].end
  <2>6. e \in Nat /\ x \in Nat /\ y \in Nat /\ z \in Nat
    BY <1>1, <2>2
  <2>7. c[j + 1] = c[j] + e /\ c[j] <= z /\ e <= y - x /\ x >= z
    BY <2>3, <2>4, <2>5
  <2> HIDE DEF e, x, y, z
  <2>8. c[j + 1] <= y
    BY <2>4, <2>6, <2>7
  <2> QED
    BY <2>8 DEF y
<1>7. S = Nat
  <2> HIDE DEF S
  <2>1. S \in SUBSET Nat
    BY DEF S
  <2> QED
    BY <1>5, <1>6, <2>1, EveryNatural
<1>8. c[k] <= s.entries[k].end
  <2>1. k - 1 \in Nat /\ (k - 1) + 1 = k /\ k <= k
    BY <1>1
  <2> DEFINE i == k - 1
  <2>2. i \in S
    BY <1>7, <2>1
  <2>3. i + 1 <= k => c[i + 1] <= s.entries[i + 1].end
    BY <2>2
  <2> QED
    BY <2>1, <2>3
<1>9. IndexedEvents(s, k) = c[k] /\ c[k] \in Nat
  BY <1>1, <1>3, <1>4, IndexedIsSum
<1> QED
  BY <1>8, <1>9

\* All records of a whole file are readable.
LEMMA CountWhole ==
    ASSUME NEW f, Len(f) \in Nat, Whole(f)
    PROVE  ReadableCount(f) = Len(f)
<1>1. PICK c : Counted(f, c)
  BY CountedExists
<1>2. \A i \in 1 .. Len(f) : Readable(f, i)
  BY WholeIsReadable
<1> DEFINE S == {i \in Nat : i <= Len(f) => c[i] = i}
<1>3. 0 \in S
  BY <1>1 DEF Counted
<1>4. ASSUME NEW i \in S PROVE i + 1 \in S
  <2>1. SUFFICES ASSUME i + 1 <= Len(f) PROVE c[i + 1] = i + 1
    OBVIOUS
  <2>2. i + 1 \in 1 .. Len(f) /\ (i + 1) - 1 = i /\ c[i] = i
    BY <2>1
  <2>3. c[i + 1] = c[(i + 1) - 1] + 1
    BY <1>1, <1>2, <2>2 DEF Counted
  <2> QED
    BY <2>2, <2>3
<1>5. S = Nat
  <2> HIDE DEF S
  <2>1. S \in SUBSET Nat
    BY DEF S
  <2> QED
    BY <1>3, <1>4, <2>1, EveryNatural
<1>6. c[Len(f)] = Len(f)
  BY <1>5
<1> QED
  BY <1>1, <1>6, CountIsCounted

\* Behind an eviction the log is within its cap, or nothing more can be evicted.
LEMMA EvictionCaps ==
    ASSUME NEW s, NEW m \in Nat, NEW from, Told(s, m, from), NEW max \in Nat, NeedsEviction(s, max),
           NEW len \in Nat, NEW t,
           t = apply_cap_eviction(s, EvictedTurns(s, max), CutOffset(s, max), CutOffset(s, max), len)
    PROVE  t.eventCount <= max \/ Evictable(t) = 0
<1> DEFINE k == EvictedTurns(s, max)
           cut == CutOffset(s, max)
           n == Len(s.entries)
<1>1. s \in LogStates /\ s.eventCount = m /\ Evictable(s) > 0
  BY DEF Told, NeedsEviction
<1>2. /\ k \in 1 .. Evictable(s)
      /\ k = Evictable(s) \/ s.eventCount - IndexedEvents(s, k) <= max
  BY <1>1, EvictedTurnsExist
<1>3. Evictable(s) \in Int /\ Evictable(s) <= n /\ n \in Nat
  BY <1>1, EvictableType
<1>4. k \in 1 .. n /\ k \in Nat
  BY <1>2, <1>3
<1>5. cut = s.entries[k].end /\ cut \in Nat
  BY <1>1, <1>4, EntriesType DEF CutOffset
<1> HIDE DEF k, cut
<1>6. IndexedEvents(s, k) <= cut /\ IndexedEvents(s, k) \in Nat
  BY <1>4, <1>5, IndexedWithin
<1>7. /\ t.eventCount = Minus(m, cut) /\ t.inTurn = s.inTurn
      /\ t.entries = [i \in 1 .. n - k |-> Shifted(s.entries[i + k], cut)]
  BY <1>1 DEF apply_cap_eviction, LogStates, k, cut
<1>8. t \in LogStates
  BY <1>1, <1>4, <1>5, CapEvictionType DEF k, cut
<1>9. CASE k = Evictable(s)
  <2>1. Len(t.entries) = n - k
    <3>1. Len(t.entries) \in Nat /\ t.entries \in Seq(IndexEntries)
      BY <1>8, EntriesType
    <3>2. DOMAIN t.entries = 1 .. n - k
      BY <1>7
    <3>3. n - k \in Nat
      BY <1>3, <1>4
    <3> HIDE DEF n
    <3>4. DOMAIN t.entries = 1 .. Len(t.entries)
      BY <3>1, LenProperties
    <3> QED
      BY <3>1, <3>2, <3>3, <3>4
  <2> DEFINE open == IF s.inTurn THEN 1 ELSE 0
  <2>2. Evictable(s) = n - open /\ Evictable(t) = Len(t.entries) - open /\ open \in Nat
    BY <1>7, Zenon DEF Evictable
  <2> HIDE DEF open
  <2> QED
    BY <1>3, <1>4, <1>9, <2>1, <2>2
<1>10. CASE s.eventCount - IndexedEvents(s, k) <= max
  <2> DEFINE e == IndexedEvents(s, k)
  <2>1. e \in Nat /\ e <= cut /\ m - e <= max
    BY <1>1, <1>6, <1>10
  <2> HIDE DEF e
  <2>2. Minus(m, cut) <= max
    BY <1>5, <2>1 DEF Minus, AtLeast
  <2> QED
    BY <1>7, <2>2
<1> QED
  BY <1>2, <1>9, <1>10

-------------------------------------------------------------------------------
(* The order of the events in a file *)

\* A scan that ends active has found a new start behind every completed thread.
Restarted(f, m) ==
    \A i \in 1 .. m : f[i].kind = "threadCompleted" =>
        \E k \in i + 1 .. m : f[k].kind \in {"threadStarted", "turnStarted"}

LEMMA VisitedActive ==
    ASSUME NEW f, Len(f) \in Nat, NEW from \in Nat \ {0}, NEW a, Visited(f, from, a)
    PROVE  \A m \in 0 .. Len(f) : a[m].status = "active" => Restarted(f, m)
<1> DEFINE S == {m \in Nat : m <= Len(f) => (a[m].status = "active" => Restarted(f, m))}
<1>1. 0 \in S
  BY DEF Restarted
<1>2. ASSUME NEW m \in S PROVE m + 1 \in S
  <2> DEFINE s == a[m]
             v == a[m + 1]
             kind == f[m + 1].kind
  <2>1. SUFFICES ASSUME m + 1 <= Len(f), v.status = "active" PROVE Restarted(f, m + 1)
    OBVIOUS
  <2>2. m \in 0 .. Len(f) - 1 /\ m \in 0 .. Len(f) /\ m \in Nat /\ m + 1 \in 1 .. Len(f)
        /\ (s.status = "active" => Restarted(f, m))
    BY <2>1
  <2>3. v = Visit(s, kind, m + 1) /\ s \in LogStates
    BY <2>2 DEF Visited
  <2>4. v = [Applied(s, kind, m, m + 1) EXCEPT !.eventCount = s.eventCount + 1]
    <3> HIDE DEF kind, s
    <3> QED
      BY <2>2, <2>3, VisitIs
  <2>5. v.status = (IF kind = "threadCompleted" THEN "completed"
                    ELSE IF kind \in {"threadStarted", "turnStarted"} THEN "active" ELSE s.status)
    BY <2>4 DEF Applied
  <2> HIDE DEF s, v, S
  <2>6. CASE kind \in {"threadStarted", "turnStarted"}
    <3>1. ASSUME NEW i \in 1 .. m + 1, f[i].kind = "threadCompleted"
          PROVE  \E k \in i + 1 .. m + 1 : f[k].kind \in {"threadStarted", "turnStarted"}
      <4>1. i # m + 1
        BY <2>6, <3>1
      <4>2. m + 1 \in i + 1 .. m + 1
        BY <2>2, <4>1
      <4> QED
        BY <2>6, <4>2
    <3> QED
      BY <3>1 DEF Restarted
  <2>7. CASE kind \notin {"threadStarted", "turnStarted"}
    <3>1. kind # "threadCompleted" /\ s.status = "active"
      BY <2>1, <2>5, <2>7
    <3>2. Restarted(f, m)
      BY <2>2, <3>1
    <3>3. ASSUME NEW i \in 1 .. m + 1, f[i].kind = "threadCompleted"
          PROVE  \E k \in i + 1 .. m + 1 : f[k].kind \in {"threadStarted", "turnStarted"}
      <4>1. i # m + 1
        BY <3>1, <3>3
      <4>2. i \in 1 .. m
        BY <2>2, <4>1
      <4>3. PICK k \in i + 1 .. m : f[k].kind \in {"threadStarted", "turnStarted"}
        BY <3>2, <3>3, <4>2 DEF Restarted
      <4>4. k \in i + 1 .. m + 1
        BY <2>2
      <4> QED
        BY <4>3, <4>4
    <3> QED
      BY <3>3 DEF Restarted
  <2> QED
    BY <2>6, <2>7
<1>3. S = Nat
  <2> HIDE DEF S
  <2>1. S \in SUBSET Nat
    BY DEF S
  <2> QED
    BY <1>1, <1>2, <2>1, EveryNatural
<1> QED
  BY <1>3

\* The beginning of an orderly file is orderly, and so is its rest.
LEMMA PoliteBeginning ==
    ASSUME NEW f, NEW g, Begins(f, g), Polite(g)
    PROVE  Polite(f)
<1>1. Len(f) \in Nat /\ Len(g) \in Nat /\ Len(f) <= Len(g) /\ \A i \in 1 .. Len(f) : f[i] = g[i]
  BY DEF Begins
<1>2. ASSUME NEW i \in 1 .. Len(f), NEW j \in 1 .. Len(f), i < j, f[i].kind = "threadCompleted",
             f[j].kind \notin {"threadStarted", "other"}
      PROVE  \E k \in i + 1 .. j - 1 : f[k].kind = "threadStarted"
  <2>1. i \in 1 .. Len(g) /\ j \in 1 .. Len(g) /\ f[i] = g[i] /\ f[j] = g[j]
    BY <1>1
  <2>2. PICK k \in i + 1 .. j - 1 : g[k].kind = "threadStarted"
    BY <1>2, <2>1 DEF Polite
  <2>3. k \in 1 .. Len(f)
    OBVIOUS
  <2> QED
    BY <1>1, <2>2, <2>3
<1> QED
  BY <1>2 DEF Polite

LEMMA PoliteRest ==
    ASSUME NEW f, NEW g, NEW cut \in Nat, Len(f) \in Nat, Len(g) = Len(f) - cut, Len(g) \in Nat,
           \A i \in 1 .. Len(g) : g[i] = f[i + cut], Polite(f)
    PROVE  Polite(g)
<1>1. ASSUME NEW i \in 1 .. Len(g), NEW j \in 1 .. Len(g), i < j, g[i].kind = "threadCompleted",
             g[j].kind \notin {"threadStarted", "other"}
      PROVE  \E k \in i + 1 .. j - 1 : g[k].kind = "threadStarted"
  <2> DEFINE p == i + cut
             q == j + cut
  <2>1. p \in 1 .. Len(f) /\ q \in 1 .. Len(f) /\ p < q /\ g[i] = f[p] /\ g[j] = f[q]
    BY <1>1
  <2> HIDE DEF p, q
  <2>2. PICK k \in p + 1 .. q - 1 : f[k].kind = "threadStarted"
    BY <1>1, <2>1 DEF Polite
  <2>3. k - cut \in i + 1 .. j - 1 /\ k - cut \in 1 .. Len(g) /\ (k - cut) + cut = k
    BY DEF p, q
  <2> DEFINE d == k - cut
  <2>4. d \in i + 1 .. j - 1 /\ d \in 1 .. Len(g) /\ d + cut = k
    BY <2>3
  <2> HIDE DEF d
  <2>5. g[d] = f[d + cut]
    BY <2>4
  <2> QED
    BY <2>2, <2>4, <2>5
<1> QED
  BY <1>1 DEF Polite

\* An event that the status allows goes to the end of an orderly file.
LEMMA PoliteAppend ==
    ASSUME NEW f \in Seq(EventRecords), Whole(f), Polite(f), NEW from \in Nat \ {0}, NEW r \in EventRecords,
           Scan(f, from).status = "completed" => r.kind \in {"threadStarted", "other"}
    PROVE  Polite(Append(f, r))
<1> DEFINE g == Append(f, r)
           m == Len(f)
<1>1. /\ m \in Nat /\ Len(g) = m + 1
      /\ \A i \in 1 .. m : g[i] = f[i]
      /\ g[m + 1] = r
  BY AppendProperties, LenProperties
<1> HIDE DEF g
<1>2. PICK a : Visited(f, from, a)
  BY <1>1, VisitedExists
<1>3. Scan(f, from).status = a[m].status /\ a[m].status \in {"active", "completed"}
  <2>1. m \in 0 .. m
    BY <1>1
  <2>2. Scan(f, from) = [a[m] EXCEPT !.offset = m] /\ a[m] \in LogStates
    BY <1>1, <1>2, <2>1, ScanIsVisited DEF Visited
  <2> QED
    BY <2>2 DEF LogStates
<1>4. a[m].status = "active" => Restarted(f, m)
  <2>1. m \in 0 .. Len(f)
    BY <1>1
  <2> QED
    BY <1>1, <1>2, <2>1, VisitedActive
<1>5. ASSUME NEW i \in 1 .. m + 1, NEW j \in 1 .. m + 1, i < j, g[i].kind = "threadCompleted",
             g[j].kind \notin {"threadStarted", "other"}
      PROVE  \E k \in i + 1 .. j - 1 : g[k].kind = "threadStarted"
  <2>1. i \in 1 .. m /\ f[i].kind = "threadCompleted"
    BY <1>1, <1>5
  <2>2. CASE j \in 1 .. m
    <3>1. PICK k \in i + 1 .. j - 1 : f[k].kind = "threadStarted"
      BY <1>1, <1>5, <2>1, <2>2 DEF Polite
    <3>2. k \in 1 .. m
      BY <1>1, <2>1, <2>2
    <3> QED
      BY <1>1, <3>1, <3>2
  <2>3. CASE j = m + 1
    <3>1. Restarted(f, m)
      BY <1>1, <1>3, <1>4, <1>5, <2>3
    <3>2. PICK k \in i + 1 .. m : f[k].kind \in {"threadStarted", "turnStarted"}
      BY <2>1, <3>1 DEF Restarted
    <3>3. \E l \in i + 1 .. m : f[l].kind = "threadStarted"
      <4>1. CASE f[k].kind = "threadStarted"
        BY <4>1
      <4>2. CASE f[k].kind = "turnStarted"
        <5>1. k \in 1 .. m /\ i < k
          BY <1>1, <2>1
        <5>2. PICK l \in i + 1 .. k - 1 : f[l].kind = "threadStarted"
          BY <2>1, <4>2, <5>1 DEF Polite
        <5>3. l \in i + 1 .. m
          BY <1>1, <2>1, <5>1
        <5> QED
          BY <5>2, <5>3
      <4> QED
        BY <3>2, <4>1, <4>2
    <3>4. PICK l \in i + 1 .. m : f[l].kind = "threadStarted"
      BY <3>3
    <3>5. l \in 1 .. m /\ l \in i + 1 .. j - 1
      BY <1>1, <2>1, <2>3
    <3> QED
      BY <1>1, <3>4, <3>5
  <2> QED
    BY <1>1, <2>2, <2>3
<1>6. Polite(g)
  BY <1>1, <1>5 DEF Polite
<1> QED
  BY <1>6 DEF g

-------------------------------------------------------------------------------
(* The numbers of the turns *)

\* A new turn is written under the number that the index gives it.
LEMMA NumberedAppend ==
    ASSUME NEW f \in Seq(EventRecords), Whole(f), NEW from \in Nat \ {0}, NEW r \in EventRecords,
           r.nl, r.kind # "torn", NEW s, s = Scan(f, from), Numbered(f, s),
           r.kind = "turnStarted" => r.turn = s.turnCount + 1
    PROVE  Numbered(Append(f, r), Scan(Append(f, r), from))
<1> DEFINE g == Append(f, r)
           m == Len(f)
           counted == [s EXCEPT !.eventCount = @ + 1, !.offset = s.offset + 1]
           v == Scan(g, from)
           es == v.entries
           n == Len(s.entries)
<1>1. /\ m \in Nat
      /\ \A i \in 1 .. m : g[i] = f[i]
      /\ g[m + 1] = r
  BY AppendProperties, LenProperties
<1>2. Told(s, m, from)
  BY <1>1, ScanTold
<1>3. /\ s \in LogStates /\ s.offset = m
      /\ \A j \in 1 .. n : s.entries[j].start < s.entries[j].end /\ s.entries[j].end <= m
  BY <1>2 DEF Told
<1>4. counted \in LogStates /\ counted.entries = s.entries /\ counted.turnCount = s.turnCount
  <2>1. s.eventCount + 1 \in Nat /\ s.offset + 1 \in Nat
    BY <1>1, <1>3 DEF LogStates
  <2> QED
    BY <1>3, <2>1 DEF LogStates
<1>5. v = apply_lifecycle_event(counted, r.kind, m, m + 1)
  <2>1. Scan(Append(f, r), from) = After(s, r.kind)
    BY ScanAppend
  <2> QED
    BY <1>3, <2>1 DEF After
<1> HIDE DEF counted
<1>6. v = Applied(counted, r.kind, m, m + 1)
  BY <1>4, <1>5, LifecycleIs
<1>7. EntriesAfter(counted, r.kind, m, m + 1, es, n)
  BY <1>4, <1>6, AppliedEntries
<1>8. /\ n \in Nat
      /\ \A j \in 1 .. n : /\ s.entries[j] \in IndexEntries
                           /\ s.entries[j].start \in Nat /\ s.entries[j].end \in Nat
  BY <1>3, EntriesType
<1> HIDE DEF g, v, n
<1>9. ASSUME NEW j \in 1 .. n PROVE g[s.entries[j].start + 1].turn = s.entries[j].turn
  <2>1. s.entries[j].start + 1 \in 1 .. m
    <3> DEFINE first == s.entries[j].start
               last == s.entries[j].end
    <3>1. first \in Nat /\ last \in Nat /\ first < last /\ last <= m
      BY <1>3, <1>8
    <3> HIDE DEF first, last
    <3>2. first + 1 \in 1 .. m
      BY ONLY <1>1, <3>1
    <3> QED
      BY <3>2 DEF first
  <2> QED
    BY <1>1, <2>1 DEF Numbered, n
<1>10. ASSUME NEW j \in 1 .. Len(es) PROVE g[es[j].start + 1].turn = es[j].turn
  <2>1. CASE r.kind = "turnStarted"
    <3>1. /\ Len(es) = n + 1 /\ es[n + 1] = Begun(counted, m, m + 1)
          /\ \A i \in 1 .. n : es[i] = s.entries[i]
      BY <1>4, <1>7, <2>1 DEF EntriesAfter
    <3>2. CASE j = n + 1
      <4>1. es[j].start = m /\ es[j].turn = s.turnCount + 1
        BY <1>4, <3>1, <3>2 DEF Begun
      <4> QED
        BY <1>1, <2>1, <4>1
    <3>3. CASE j \in 1 .. n
      BY <1>9, <3>1, <3>3
    <3> QED
      BY <1>8, <3>1, <3>2, <3>3
  <2>2. CASE Working(counted, r.kind)
    <3>1. /\ Len(es) = n /\ n > 0 /\ es[n] = Extended(s.entries[n], m + 1)
          /\ \A i \in 1 .. n - 1 : es[i] = s.entries[i]
      BY <1>4, <1>7, <2>2 DEF EntriesAfter
    <3>2. CASE j = n
      <4>1. n \in 1 .. n /\ m + 1 \in Nat
        BY <1>1, <1>8, <3>1
      <4>2. es[j].start = s.entries[n].start /\ es[j].turn = s.entries[n].turn
        <5> DEFINE e == s.entries[n]
                   x == Extended(e, m + 1)
        <5>1. e \in IndexEntries /\ es[j] = x
          BY <1>8, <3>1, <3>2, <4>1
        <5> HIDE DEF e
        <5>2. x.start = e.start /\ x.turn = e.turn
          BY <4>1, <5>1, ExtendedIs
        <5> QED
          BY <5>1, <5>2 DEF e
      <4> QED
        BY <1>9, <4>1, <4>2
    <3>3. CASE j \in 1 .. n - 1
      <4>1. j \in 1 .. n /\ es[j] = s.entries[j]
        BY <1>8, <3>1, <3>3
      <4> QED
        BY <1>9, <4>1
    <3> QED
      BY <1>8, <3>1, <3>2, <3>3
  <2>3. CASE r.kind # "turnStarted" /\ ~Working(counted, r.kind)
    <3>1. es = s.entries
      BY <1>4, <1>7, <2>3 DEF EntriesAfter
    <3> QED
      BY <1>9, <3>1 DEF n
  <2> QED
    BY <2>1, <2>2, <2>3
<1>11. Numbered(g, v)
  BY <1>10 DEF Numbered
<1> QED
  BY <1>11 DEF g, v

\* The turns behind an eviction keep their numbers.
LEMMA NumberedRest ==
    ASSUME NEW f, NEW g, NEW s, NEW m \in Nat, NEW from, Told(s, m, from), Numbered(f, s),
           NEW k \in 1 .. Len(s.entries), NEW cut, cut = s.entries[k].end, NEW evicted, NEW len \in Nat,
           \A i \in 1 .. m - cut : g[i] = f[i + cut]
    PROVE  Numbered(g, apply_cap_eviction(s, k, cut, evicted, len))
<1> DEFINE n == Len(s.entries)
           t == apply_cap_eviction(s, k, cut, evicted, len)
<1>1. /\ s \in LogStates /\ n \in Nat
      /\ \A j \in 1 .. n : /\ s.entries[j] \in IndexEntries
                           /\ s.entries[j].start \in Nat /\ s.entries[j].end \in Nat
  BY EntriesType DEF Told
<1>2. \A j \in 1 .. n : s.entries[j].start < s.entries[j].end /\ s.entries[j].end <= m
  BY DEF Told
<1>3. \A j \in k + 1 .. n : cut <= s.entries[j].start
  BY LaterStarts
<1>4. t.entries = [i \in 1 .. n - k |-> Shifted(s.entries[i + k], cut)]
  BY <1>1 DEF apply_cap_eviction, LogStates
<1>5. n - k \in Nat /\ cut \in Nat
  BY <1>1
<1> HIDE DEF t
<1>6. Len(t.entries) = n - k
  <2> DEFINE h == [i \in 1 .. n - k |-> Shifted(s.entries[i + k], cut)]
  <2>1. \A i \in 1 .. n - k : Shifted(s.entries[i + k], cut) \in IndexEntries
    <3>1. ASSUME NEW i \in 1 .. n - k PROVE Shifted(s.entries[i + k], cut) \in IndexEntries
      <4>1. i + k \in 1 .. n
        BY <1>1
      <4> QED
        BY <1>1, <1>5, <4>1, ShiftedEntry
    <3> QED
      BY <3>1
  <2>2. h \in Seq(IndexEntries) /\ DOMAIN h = 1 .. n - k
    BY <1>5, <2>1
  <2> HIDE DEF h, n
  <2>3. Len(h) \in Nat /\ DOMAIN h = 1 .. Len(h)
    BY <2>2, LenProperties
  <2>4. Len(h) = n - k
    BY <1>5, <2>2, <2>3
  <2> QED
    BY <1>4, <2>4 DEF h, n
<1>7. ASSUME NEW j \in 1 .. n - k PROVE g[t.entries[j].start + 1].turn = t.entries[j].turn
  <2> DEFINE e == s.entries[j + k]
             i == j + k
  <2>1. i \in 1 .. n /\ i \in k + 1 .. n
    BY <1>1
  <2>2. /\ e \in IndexEntries /\ e.start \in Nat /\ e.end \in Nat /\ cut <= e.start
        /\ e.start < e.end /\ e.end <= m
    BY <1>1, <1>2, <1>3, <2>1
  <2>3. t.entries[j] = Shifted(e, cut)
    BY <1>4
  <2>4. f[e.start + 1].turn = e.turn
    BY <2>1 DEF Numbered
  <2> HIDE DEF e, i
  <2>5. t.entries[j].turn = e.turn /\ t.entries[j].start = Minus(e.start, cut)
    <3>1. Shifted(e, cut).turn = e.turn /\ Shifted(e, cut).start = Minus(e.start, cut)
      BY ONLY <1>5, <2>2, ShiftedEntry
    <3> QED
      BY <2>3, <3>1
  <2> DEFINE p == t.entries[j].start + 1
  <2>6. p \in 1 .. m - cut /\ p + cut = e.start + 1
    <3>1. e.start - cut >= 0 /\ e.start < m
      BY <1>5, <2>2
    <3>2. Minus(e.start, cut) = e.start - cut
      BY <3>1 DEF Minus, AtLeast
    <3>3. p = (e.start - cut) + 1
      BY <2>5, <3>2
    <3> DEFINE first == e.start
    <3>4. cut \in Nat /\ first \in Nat /\ m \in Nat
      BY <1>5, <2>2
    <3>5. p = (first - cut) + 1 /\ first - cut >= 0 /\ first < m
      BY <3>1, <3>3
    <3> HIDE DEF first, p
    <3>6. p \in 1 .. m - cut /\ p + cut = first + 1
      BY ONLY <3>4, <3>5
    <3> QED
      BY <3>6 DEF first
  <2> HIDE DEF p
  <2>7. g[p] = f[p + cut]
    BY <2>6
  <2> QED
    BY <2>4, <2>5, <2>6, <2>7 DEF p
<1>8. Numbered(g, t)
  BY <1>6, <1>7 DEF Numbered
<1> QED
  BY <1>8 DEF t

-------------------------------------------------------------------------------
(* The metadata of the files *)

\* What the writes of an operation follow, and what each operation schedules.
Clearing(script) == script # <<>> /\ script[Len(script)] = "clear_marker"

Orderly(script) ==
    /\ \A i \in 2 .. Len(script) :
          /\ script[i] = "write_manifest" => script[i - 1] = "write_index"
          /\ script[i] = "clear_marker" => script[i - 1] = "write_manifest"
          /\ script[i] = "write_index" => script[i - 1] \in {"flush_write_buf", "replace_file"}
    /\ (\E i \in 1 .. Len(script) : script[i] \in Rewriting) => Clearing(script)
    /\ \A i \in 1 .. Len(script) : script[i] = "enforce_event_cap" => i = Len(script)
    /\ \A i \in 1 .. Len(script) :
          script[i] \in {"summary_hook", "write_marker"} => i # Len(script) /\ script[i + 1] \in Rewriting

Persisting == {"flush_write_buf", "write_index", "write_manifest"}

Scheduled(o, script, broken) ==
    /\ Orderly(script)
    /\ o \in {"open", "append"} => ~broken
    /\ o \in {"down", "idle"} => script = <<>>
    /\ o \in {"flush", "close"} => \A i \in 1 .. Len(script) : script[i] \in Persisting
    /\ o = "open" => \A i \in 1 .. Len(script) : script[i] \in Persisting \cup {"clear_marker"}

\* Only a flush, and the plan that starts with one, are due while records are buffered.
Drained(o, script, b) ==
    /\ script # <<>> /\ Head(script) \notin {"flush_write_buf", "enforce_event_cap"} => b = <<>>
    /\ o = "open" => b = <<>>

\* The number of the first retained turn, as the files on disk tell it.
BaseOf(f, man, mk) ==
    IF MarkerMatches(mk, Len(f)) THEN mk.base ELSE IF man # Absent THEN man.base ELSE 1

\* The manifest describes a beginning of the file, and if it is the whole file the
\* manifest and the index are those of a scan.
Fits(f, man, ind) ==
    /\ man.len <= Len(f)
    /\ man.len = Len(f) => /\ man = PersistedManifest(Scan(f, man.base), Len(f))
                           /\ ind = Scan(f, man.base).entries

\* Before the first open is through there are no records.
Fresh(o, script, f, b, man, ind, mk) ==
    man = Absent =>
        /\ f = <<>> /\ b = <<>> /\ mk = Absent /\ ind \in {Absent, <<>>}
        /\ o \in {"down", "open"}
        /\ o = "open" => \E i \in 1 .. Len(script) : script[i] = "write_manifest"

\* Unless a rewrite lost the handle behind its rename, the live state is that of a scan.
Tracks(o, s, f, b, man, mk, broken, handle) ==
    o # "down" =>
        \/ s = Scan(f \o b, BaseOf(f, man, mk))
        \/ broken /\ ~handle /\ b = <<>> /\ MarkerMatches(mk, Len(f))

\* The marker of the planned rewrite.
PlannedMarker(s, f) ==
    [previousLen |-> Len(f), newLen |-> Len(SubSeq(f, CutOffset(s, MaxEvents) + 1, Len(f))),
     base |-> retained_turn_base_after_eviction(s, EvictedTurns(s, MaxEvents))]

\* What the writes already done leave for the next one.
Written(script, s, f, man, ind, mk) ==
    script # <<>> =>
        /\ Head(script) = "write_manifest" => ind = s.entries
        /\ Head(script) = "clear_marker" => man # Absent /\ Fits(f, man, ind) /\ man.base = BaseOf(f, man, mk)
        /\ Head(script) = "replace_file" => mk = PlannedMarker(s, f)

\* A marker outlives its operation only if that has failed.
Marked(o, script, b, mk, broken) ==
    mk # Absent =>
        \/ o = "down"
        \/ /\ b = <<>> /\ (broken \/ Clearing(script))
           /\ \A i \in 1 .. Len(script) : script[i] \notin {"write_marker", "summary_hook"}

\* Behind the plan and its rewrite an append has the cap enforced.
Capped(o, script, s) ==
    o = "append" /\ MaxEvents # 0
    /\ (\A i \in 1 .. Len(script) : script[i] \notin Rewriting \cup {"enforce_event_cap"}) =>
        s.eventCount <= MaxEvents \/ Evictable(s) = 0

\* Turns keep their numbers, and those of turns that were ended are used up.
Numbers(f, b, base, ended) ==
    /\ Scan(f, base).turnCount >= ended
    /\ Numbered(f \o b, Scan(f \o b, base))

MetaInv ==
    ~damaged =>
        /\ Scheduled(op, todo, failed)
        /\ Drained(op, todo, buffer)
        /\ Polite(file \o buffer)
        /\ Fresh(op, todo, file, buffer, manifest, index, marker)
        /\ manifest # Absent /\ ~MarkerMatches(marker, Len(file)) => Fits(file, manifest, index)
        /\ Tracks(op, st, file, buffer, manifest, marker, failed, fileOpen)
        /\ Written(todo, st, file, manifest, index, marker)
        /\ Marked(op, todo, buffer, marker, failed)
        /\ Capped(op, todo, st)
        /\ Numbers(file, buffer, BaseOf(file, manifest, marker), durableTurns)

\* A state of the log is as the scan of its metadata tells.
LEMMA InferredBase ==
    ASSUME NEW f, Len(f) \in Nat,
           NEW man, man = Absent \/ man \in Manifests,
           NEW ind, ind = Absent \/ ind \in Seq(IndexEntries),
           NEW mk, mk = Absent \/ mk \in Markers,
           man = Absent => f = <<>> /\ mk = Absent /\ ind \in {Absent, <<>>},
           man # Absent /\ ~MarkerMatches(mk, Len(f)) => Fits(f, man, ind)
    PROVE  /\ infer_scan_turn_base(man, ind, mk, Len(f)) = BaseOf(f, man, mk)
           /\ BaseOf(f, man, mk) \in Nat \ {0}
<1>1. ASSUME ~MarkerMatches(mk, Len(f)) PROVE RewrittenBases(man, ind, Len(f)) = {}
  <2>1. CASE man = Absent
    BY <2>1 DEF RewrittenBases
  <2>2. CASE man # Absent
    <3>1. man.len <= Len(f) /\ man.len \in Nat
      BY <1>1, <2>2 DEF Fits, Manifests
    <3>2. ~(man.len > Len(f))
      BY <3>1
    <3> QED
      BY <3>2 DEF RewrittenBases
  <2> QED
    BY <2>1, <2>2
<1>2. \A b \in Nat \ {0} : AtLeast(b, 1) = b
  BY DEF AtLeast
<1>3. CASE MarkerMatches(mk, Len(f))
  <2>1. mk # Absent
    BY <1>3 DEF MarkerMatches
  <2>2. mk.base \in Nat \ {0}
    BY <2>1 DEF Markers
  <2>3. infer_scan_turn_base(man, ind, mk, Len(f)) = AtLeast(mk.base, 1)
    BY <1>3, Zenon DEF infer_scan_turn_base
  <2> QED
    BY <1>2, <1>3, <2>2, <2>3 DEF BaseOf
<1>4. CASE ~MarkerMatches(mk, Len(f)) /\ man # Absent
  <2>1. man.base \in Nat \ {0}
    BY <1>4 DEF Manifests
  <2>2. infer_scan_turn_base(man, ind, mk, Len(f)) = AtLeast(man.base, 1)
    <3>1. RewrittenBases(man, ind, Len(f)) = {}
      BY <1>1, <1>4
    <3> QED
      BY <1>4, <3>1, Zenon DEF infer_scan_turn_base
  <2> QED
    BY <1>2, <1>4, <2>1, <2>2 DEF BaseOf
<1>5. CASE ~MarkerMatches(mk, Len(f)) /\ man = Absent
  <2>1. infer_scan_turn_base(man, ind, mk, Len(f)) = AtLeast(1, 1)
    <3>1. RewrittenBases(man, ind, Len(f)) = {}
      BY <1>1, <1>5
    <3>2. ~(ind # Absent /\ ind # <<>> /\ IndexIsValid(ind, Len(f)))
      BY <1>5
    <3> QED
      BY <1>5, <3>1, <3>2, Zenon DEF infer_scan_turn_base
  <2>2. AtLeast(1, 1) = 1
    BY <1>2
  <2> QED
    BY <1>5, <2>1, <2>2 DEF BaseOf
<1> QED
  BY <1>3, <1>4, <1>5

\* Metadata that open trusts is that of a scan.
LEMMA TrustedIsScan ==
    ASSUME NEW f, Len(f) \in Nat, Whole(f),
           NEW man, man = Absent \/ man \in Manifests,
           NEW ind, NEW mk,
           man # Absent /\ ~MarkerMatches(mk, Len(f)) => Fits(f, man, ind),
           FastPath(man, ind, mk, Len(f))
    PROVE  LoadPersisted(man, ind, Len(f)) = Scan(f, BaseOf(f, man, mk))
<1>1. man # Absent /\ ~MarkerMatches(mk, Len(f)) /\ man.len = Len(f)
  BY DEF FastPath
<1> DEFINE s == Scan(f, man.base)
<1>2. man = PersistedManifest(s, Len(f)) /\ ind = s.entries
  BY <1>1 DEF Fits
<1>3. BaseOf(f, man, mk) = man.base /\ man.base \in Nat \ {0}
  BY <1>1 DEF BaseOf, Manifests
<1>4. s \in LogStates /\ s.offset = Len(f)
  <2>1. Told(s, Len(f), man.base)
    BY <1>3, ScanTold
  <2> QED
    BY <2>1 DEF Told
<1> HIDE DEF s
<1>5. s = [turnCount |-> s.turnCount, eventCount |-> s.eventCount, inTurn |-> s.inTurn,
           base |-> s.base, status |-> s.status, offset |-> s.offset, entries |-> s.entries]
  BY <1>4, StateIs
<1>6. LoadPersisted(man, ind, Len(f)) = s
  BY <1>2, <1>4, <1>5 DEF LoadPersisted, PersistedManifest
<1> QED
  BY <1>3, <1>6 DEF s

\* A scan of nothing finds nothing.
LEMMA ScanEmpty ==
    ASSUME NEW from \in Nat \ {0}
    PROVE  /\ Scan(<<>>, from).entries = <<>> /\ Scan(<<>>, from).turnCount = from - 1
           /\ Numbered(<<>>, Scan(<<>>, from))
<1>1. Len(<<>>) = 0 /\ Whole(<<>>)
  BY DEF Whole
<1>2. PICK a : Visited(<<>>, from, a)
  BY <1>1, VisitedExists
<1>3. Scan(<<>>, from) = [a[0] EXCEPT !.offset = 0]
  BY <1>1, <1>2, ScanIsVisited
<1>4. a[0] = ScanStart(from)
  BY <1>2 DEF Visited
<1> DEFINE s == Scan(<<>>, from)
<1>5. s.entries = <<>> /\ s.turnCount = from - 1
  BY <1>3, <1>4 DEF ScanStart
<1> HIDE DEF s
<1>6. Numbered(<<>>, s)
  BY <1>1, <1>5 DEF Numbered
<1> QED
  BY <1>5, <1>6 DEF s

\* A manifest goes on to fit a file that grows.
LEMMA FitsGrown ==
    ASSUME NEW f \in Seq(EventRecords), NEW g \in Seq(EventRecords), Begins(f, g),
           NEW man \in Manifests, NEW ind, Fits(f, man, ind)
    PROVE  Fits(g, man, ind)
<1>1. /\ Len(f) \in Nat /\ Len(g) \in Nat /\ Len(f) <= Len(g) /\ man.len \in Nat /\ man.len <= Len(f)
      /\ \A i \in 1 .. Len(f) : f[i] = g[i]
  BY DEF Begins, Fits, Manifests
<1>2. CASE Len(f) = Len(g)
  <2>1. f = g
    BY <1>1, <1>2, SeqEqual
  <2> QED
    BY <2>1
<1>3. CASE Len(f) < Len(g)
  BY <1>1, <1>3 DEF Fits
<1> QED
  BY <1>1, <1>2, <1>3

\* The number of the first retained turn does not change while there is no marker.
LEMMA BaseSame ==
    ASSUME NEW f, NEW g, NEW man, NEW mk, f = g \/ mk = Absent
    PROVE  BaseOf(f, man, mk) = BaseOf(g, man, mk) /\ MarkerMatches(mk, Len(f)) = MarkerMatches(mk, Len(g))
BY DEF BaseOf, MarkerMatches

-------------------------------------------------------------------------------
(* The schedules *)

\* What is left of a schedule after its first write.
LEMMA TailIs ==
    ASSUME NEW script \in Seq(Writes), script # <<>>
    PROVE  /\ Tail(script) \in Seq(Writes) /\ Len(Tail(script)) = Len(script) - 1 /\ Len(script) \in Nat \ {0}
           /\ Head(script) = script[1]
           /\ \A i \in 1 .. Len(Tail(script)) : Tail(script)[i] = script[i + 1] /\ i + 1 \in 2 .. Len(script)
           /\ Tail(script) # <<>> <=> Len(script) > 1
<1> DEFINE t == Tail(script)
<1>1. /\ t \in Seq(Writes) /\ Len(t) = Len(script) - 1 /\ Len(script) \in Nat \ {0}
      /\ Head(script) = script[1]
      /\ \A i \in 1 .. Len(t) : t[i] = script[i + 1]
  BY HeadTailProperties, LenProperties, EmptySeq
<1>2. t # <<>> <=> Len(t) # 0
  BY <1>1, EmptySeq
<1> HIDE DEF t
<1>3. \A i \in 1 .. Len(t) : i + 1 \in 2 .. Len(script)
  BY <1>1
<1>4. t # <<>> <=> Len(script) > 1
  BY <1>1, <1>2
<1> QED
  BY <1>1, <1>3, <1>4 DEF t

LEMMA ClearingTail ==
    ASSUME NEW script \in Seq(Writes), script # <<>>
    PROVE  /\ Clearing(Tail(script)) => Clearing(script)
           /\ Clearing(script) /\ Head(script) # "clear_marker" => Clearing(Tail(script))
<1> DEFINE t == Tail(script)
<1>1. /\ Len(t) = Len(script) - 1 /\ Len(script) \in Nat \ {0} /\ Head(script) = script[1]
      /\ \A i \in 1 .. Len(t) : t[i] = script[i + 1]
      /\ t # <<>> <=> Len(script) > 1
  BY TailIs
<1> HIDE DEF t
<1>2. ASSUME Len(script) > 1 PROVE t[Len(t)] = script[Len(script)]
  <2>1. Len(t) \in 1 .. Len(t) /\ Len(t) + 1 = Len(script)
    BY <1>1, <1>2
  <2> QED
    BY <1>1, <2>1
<1>3. ASSUME ~(Len(script) > 1) PROVE Len(script) = 1
  BY <1>1, <1>3
<1>4. /\ Clearing(t) => Clearing(script)
      /\ Clearing(script) /\ Head(script) # "clear_marker" => Clearing(t)
  BY <1>1, <1>2, <1>3 DEF Clearing
<1> QED
  BY <1>4 DEF t

LEMMA OrderlyTail ==
    ASSUME NEW script \in Seq(Writes), script # <<>>, Orderly(script)
    PROVE  /\ Orderly(Tail(script))
           /\ Head(script) \in {"summary_hook", "write_marker"} =>
                 Tail(script) # <<>> /\ Head(Tail(script)) \in Rewriting
           /\ Tail(script) # <<>> =>
                 /\ Head(Tail(script)) = "write_manifest" => Head(script) = "write_index"
                 /\ Head(Tail(script)) = "clear_marker" => Head(script) = "write_manifest"
                 /\ Head(Tail(script)) = "write_index" => Head(script) \in {"flush_write_buf", "replace_file"}
<1> DEFINE t == Tail(script)
           n == Len(script)
<1>1. /\ t \in Seq(Writes) /\ Len(t) = n - 1 /\ n \in Nat \ {0} /\ Head(script) = script[1]
      /\ \A i \in 1 .. Len(t) : t[i] = script[i + 1] /\ i + 1 \in 2 .. n
      /\ t # <<>> <=> n > 1
  BY TailIs
<1>2. t # <<>> => Head(t) = t[1] /\ 1 \in 1 .. Len(t)
  <2>1. ASSUME t # <<>> PROVE Head(t) = t[1] /\ Len(t) \in Nat \ {0}
    BY <1>1, <2>1, HeadTailProperties, EmptySeq
  <2> QED
    BY <2>1
<1>3. Clearing(script) /\ Head(script) # "clear_marker" => Clearing(t)
  BY ClearingTail
<1> HIDE DEF t
<1>4. ASSUME NEW i \in 2 .. n
      PROVE  /\ script[i] = "write_manifest" => script[i - 1] = "write_index"
             /\ script[i] = "clear_marker" => script[i - 1] = "write_manifest"
             /\ script[i] = "write_index" => script[i - 1] \in {"flush_write_buf", "replace_file"}
  BY DEF Orderly
<1>5. ASSUME NEW i \in 2 .. Len(t)
      PROVE  /\ t[i] = "write_manifest" => t[i - 1] = "write_index"
             /\ t[i] = "clear_marker" => t[i - 1] = "write_manifest"
             /\ t[i] = "write_index" => t[i - 1] \in {"flush_write_buf", "replace_file"}
  <2>1. /\ i \in 1 .. Len(t) /\ i - 1 \in 1 .. Len(t) /\ (i - 1) + 1 = i /\ (i + 1) - 1 = i
        /\ i + 1 \in 2 .. n
    BY <1>1
  <2>2. t[i] = script[i + 1] /\ t[i - 1] = script[i]
    BY <1>1, <2>1
  <2> DEFINE j == i + 1
  <2>3. j \in 2 .. n /\ j - 1 = i
    BY <2>1
  <2> HIDE DEF j
  <2>4. /\ script[j] = "write_manifest" => script[j - 1] = "write_index"
        /\ script[j] = "clear_marker" => script[j - 1] = "write_manifest"
        /\ script[j] = "write_index" => script[j - 1] \in {"flush_write_buf", "replace_file"}
    BY <1>4, <2>3
  <2> QED
    BY <2>2, <2>3, <2>4 DEF j
<1>6. ASSUME NEW i \in 1 .. Len(t), t[i] \in Rewriting PROVE Clearing(t)
  <2>1. script[i + 1] \in Rewriting /\ i + 1 \in 1 .. n
    BY <1>1, <1>6
  <2>2. Clearing(script)
    BY <2>1 DEF Orderly
  <2>3. Len(t) \in 1 .. Len(t) /\ Len(t) + 1 = n /\ t # <<>>
    BY <1>1
  <2>4. t[Len(t)] = script[n]
    BY <1>1, <2>3
  <2> QED
    BY <2>2, <2>3, <2>4 DEF Clearing
<1>7. ASSUME NEW i \in 1 .. Len(t), t[i] = "enforce_event_cap" PROVE i = Len(t)
  <2>1. script[i + 1] = "enforce_event_cap" /\ i + 1 \in 1 .. n
    BY <1>1, <1>7
  <2>2. i + 1 = n
    BY <2>1 DEF Orderly
  <2> QED
    BY <1>1, <2>2
<1>8. t # <<>> => /\ Head(t) = "write_manifest" => Head(script) = "write_index"
                  /\ Head(t) = "clear_marker" => Head(script) = "write_manifest"
                  /\ Head(t) = "write_index" => Head(script) \in {"flush_write_buf", "replace_file"}
  <2>1. SUFFICES ASSUME t # <<>>
                 PROVE  /\ Head(t) = "write_manifest" => Head(script) = "write_index"
                        /\ Head(t) = "clear_marker" => Head(script) = "write_manifest"
                        /\ Head(t) = "write_index" => Head(script) \in {"flush_write_buf", "replace_file"}
    OBVIOUS
  <2>2. Head(t) = script[2] /\ 2 \in 2 .. n /\ 2 - 1 = 1
    BY <1>1, <1>2, <2>1
  <2> QED
    BY <1>1, <1>4, <2>2
<1>9. ASSUME NEW i \in 1 .. Len(t), t[i] \in {"summary_hook", "write_marker"}
      PROVE  i # Len(t) /\ t[i + 1] \in Rewriting
  <2>1. script[i + 1] \in {"summary_hook", "write_marker"} /\ i + 1 \in 1 .. n
    BY <1>1, <1>9
  <2>2. i + 1 # n /\ script[(i + 1) + 1] \in Rewriting
    BY <2>1 DEF Orderly
  <2>3. i # Len(t) /\ i + 1 \in 1 .. Len(t)
    BY <1>1, <2>2
  <2> QED
    BY <1>1, <2>2, <2>3
<1>10. Orderly(t)
  BY <1>5, <1>6, <1>7, <1>9 DEF Orderly
<1>11. ASSUME Head(script) \in {"summary_hook", "write_marker"}
       PROVE  t # <<>> /\ Head(t) \in Rewriting
  <2>1. 1 \in 1 .. n /\ script[1] \in {"summary_hook", "write_marker"} /\ 1 + 1 = 2
    BY <1>1, <1>11
  <2>2. 1 # n /\ script[1 + 1] \in Rewriting
    BY <2>1 DEF Orderly
  <2>3. t # <<>>
    BY <1>1, <2>2
  <2> QED
    BY <1>1, <1>2, <2>1, <2>2, <2>3
<1> QED
  BY <1>8, <1>10, <1>11 DEF t

\* What is left of a schedule is scheduled.
LEMMA ScheduledTail ==
    ASSUME NEW o, NEW script \in Seq(Writes), script # <<>>, NEW broken, Scheduled(o, script, broken)
    PROVE  Scheduled(o, Tail(script), broken)
<1> DEFINE t == Tail(script)
<1>1. /\ Len(script) \in Nat
      /\ \A i \in 1 .. Len(t) : t[i] = script[i + 1] /\ i + 1 \in 2 .. Len(script)
  BY TailIs
<1>2. \A i \in 1 .. Len(t) : i + 1 \in 1 .. Len(script)
  BY <1>1
<1>3. Orderly(t)
  BY OrderlyTail DEF Scheduled
<1> HIDE DEF t
<1>4. Scheduled(o, t, broken)
  BY <1>1, <1>2, <1>3 DEF Scheduled
<1> QED
  BY <1>4 DEF t

LEMMA MarkedTail ==
    ASSUME NEW o, NEW script \in Seq(Writes), script # <<>>, NEW b, NEW mk, NEW broken,
           Marked(o, script, b, mk, broken), Head(script) # "clear_marker"
    PROVE  Marked(o, Tail(script), b, mk, broken)
<1> DEFINE t == Tail(script)
<1>1. /\ Len(script) \in Nat
      /\ \A i \in 1 .. Len(t) : t[i] = script[i + 1] /\ i + 1 \in 2 .. Len(script)
  BY TailIs
<1>2. \A i \in 1 .. Len(t) : i + 1 \in 1 .. Len(script)
  BY <1>1
<1>3. Clearing(script) => Clearing(t)
  BY ClearingTail
<1> HIDE DEF t
<1>4. Marked(o, t, b, mk, broken)
  BY <1>1, <1>2, <1>3 DEF Marked
<1> QED
  BY <1>4 DEF t

LEMMA CappedTail ==
    ASSUME NEW o, NEW script \in Seq(Writes), script # <<>>, NEW s, Capped(o, script, s),
           Head(script) \notin Rewriting \cup {"enforce_event_cap"}
    PROVE  Capped(o, Tail(script), s)
<1> DEFINE t == Tail(script)
<1>1. /\ Len(script) \in Nat \ {0} /\ Len(t) = Len(script) - 1 /\ Head(script) = script[1]
      /\ \A i \in 1 .. Len(t) : t[i] = script[i + 1]
  BY TailIs
<1> HIDE DEF t
<1>2. ASSUME \A i \in 1 .. Len(t) : t[i] \notin Rewriting \cup {"enforce_event_cap"},
             NEW i \in 1 .. Len(script)
      PROVE  script[i] \notin Rewriting \cup {"enforce_event_cap"}
  <2>1. CASE i = 1
    BY <1>1, <2>1
  <2>2. CASE i # 1
    <3>1. i - 1 \in 1 .. Len(t) /\ (i - 1) + 1 = i
      BY <1>1, <2>2
    <3>2. t[i - 1] = script[(i - 1) + 1]
      BY <1>1, <3>1
    <3> QED
      BY <1>2, <3>1, <3>2
  <2> QED
    BY <2>1, <2>2
<1>3. Capped(o, t, s)
  BY <1>2 DEF Capped
<1> QED
  BY <1>3 DEF t

\* The manifest that is due stays due until it is written.
Due(script) == \E i \in 1 .. Len(script) : script[i] = "write_manifest"

LEMMA DueTail ==
    ASSUME NEW script \in Seq(Writes), script # <<>>, Due(script), Head(script) # "write_manifest"
    PROVE  Due(Tail(script))
<1> DEFINE t == Tail(script)
<1>1. /\ Len(script) \in Nat \ {0} /\ Len(t) = Len(script) - 1 /\ Head(script) = script[1]
      /\ \A i \in 1 .. Len(t) : t[i] = script[i + 1]
  BY TailIs
<1> HIDE DEF t
<1>2. PICK i \in 1 .. Len(script) : script[i] = "write_manifest"
  BY DEF Due
<1>3. i # 1
  BY <1>1, <1>2
<1>4. i - 1 \in 1 .. Len(t) /\ (i - 1) + 1 = i
  BY <1>1, <1>3
<1>5. t[i - 1] = script[(i - 1) + 1]
  BY <1>1, <1>4
<1>6. Due(t)
  BY <1>2, <1>4, <1>5 DEF Due
<1> QED
  BY <1>6 DEF t

cap_rewrite == <<"flush_write_buf", "summary_hook", "write_marker", "replace_file",
                 "write_index", "write_manifest", "clear_marker">>

\* The schedules that the operations start with.
Scheme(script, names, first) ==
    /\ script \in Seq(Writes) /\ Orderly(script)
    /\ \A i \in 1 .. Len(script) : script[i] \in names
    /\ script # <<>> /\ Head(script) = first

LEMMA Schemes ==
    /\ Scheme(persist_meta, Persisting, "flush_write_buf") /\ Due(persist_meta)
    /\ \A last \in {"enforce_event_cap", "clear_marker"} :
          /\ Scheme(persist_meta \o <<last>>, Persisting \cup {last}, "flush_write_buf")
          /\ Due(persist_meta \o <<last>>)
    /\ Clearing(persist_meta \o <<"clear_marker">>)
    /\ \E i \in 1 .. Len(persist_meta \o <<"enforce_event_cap">>) :
          (persist_meta \o <<"enforce_event_cap">>)[i] = "enforce_event_cap"
    /\ \A w \in {"flush_write_buf", "enforce_event_cap", "clear_marker"} : Scheme(<<w>>, {w}, w)
    /\ Clearing(<<"clear_marker">>)
    /\ Scheme(cap_rewrite, Writes \ {"enforce_event_cap"}, "flush_write_buf") /\ Clearing(cap_rewrite)
    /\ \E i \in 1 .. Len(cap_rewrite) : cap_rewrite[i] \in Rewriting
    /\ Orderly(<<>>)
<1>1. Scheme(persist_meta, Persisting, "flush_write_buf") /\ Due(persist_meta)
  <2>1. /\ persist_meta \in Seq(Writes) /\ Len(persist_meta) = 3
        /\ persist_meta[1] = "flush_write_buf" /\ persist_meta[2] = "write_index"
        /\ persist_meta[3] = "write_manifest" /\ persist_meta # <<>> /\ Head(persist_meta) = "flush_write_buf"
    BY DEF persist_meta, Writes
  <2> HIDE DEF persist_meta
  <2>2. \A i \in 1 .. 3 : i = 1 \/ i = 2 \/ i = 3
    OBVIOUS
  <2>3. 2 - 1 = 1 /\ 3 - 1 = 2 /\ 3 \in 1 .. 3
    OBVIOUS
  <2>4. Orderly(persist_meta)
    BY <2>1, <2>2, <2>3 DEF Orderly, Rewriting
  <2> QED
    BY <2>1, <2>2, <2>3, <2>4 DEF Scheme, Due, Persisting
<1>2. ASSUME NEW last \in {"enforce_event_cap", "clear_marker"}
      PROVE  /\ Scheme(persist_meta \o <<last>>, Persisting \cup {last}, "flush_write_buf")
             /\ Due(persist_meta \o <<last>>)
             /\ last = "clear_marker" => Clearing(persist_meta \o <<last>>)
             /\ \E i \in 1 .. Len(persist_meta \o <<last>>) : (persist_meta \o <<last>>)[i] = last
  <2> DEFINE p == persist_meta_then(last)
  <2>1. /\ p \in Seq(Writes) /\ Len(p) = 4
        /\ p[1] = "flush_write_buf" /\ p[2] = "write_index"
        /\ p[3] = "write_manifest" /\ p[4] = last /\ p # <<>> /\ Head(p) = "flush_write_buf"
    BY DEF persist_meta_then, Writes
  <2> HIDE DEF p
  <2>2. \A i \in 1 .. 4 : i = 1 \/ i = 2 \/ i = 3 \/ i = 4
    OBVIOUS
  <2>3. 2 - 1 = 1 /\ 3 - 1 = 2 /\ 4 - 1 = 3 /\ 3 \in 1 .. 4 /\ 4 \in 1 .. 4
    OBVIOUS
  <2>4. Orderly(p)
    BY <2>1, <2>2, <2>3 DEF Orderly, Rewriting, Clearing
  <2>5. /\ Scheme(p, Persisting \cup {last}, "flush_write_buf") /\ Due(p)
        /\ last = "clear_marker" => Clearing(p)
        /\ \E i \in 1 .. Len(p) : p[i] = last
    BY <2>1, <2>2, <2>3, <2>4 DEF Scheme, Due, Persisting, Clearing
  <2> QED
    BY <2>5, PersistThen DEF p
<1>3. ASSUME NEW w \in {"flush_write_buf", "enforce_event_cap", "clear_marker"}
      PROVE  Scheme(<<w>>, {w}, w) /\ (w = "clear_marker" => Clearing(<<w>>))
  <2> DEFINE p == <<w>>
  <2>1. p \in Seq(Writes) /\ Len(p) = 1 /\ p[1] = w /\ p # <<>> /\ Head(p) = w
    BY DEF Writes
  <2> HIDE DEF p
  <2>2. \A i \in 1 .. 1 : i = 1
    OBVIOUS
  <2>3. Scheme(p, {w}, w) /\ (w = "clear_marker" => Clearing(p))
    BY <2>1, <2>2 DEF Scheme, Orderly, Rewriting, Clearing
  <2> QED
    BY <2>3 DEF p
<1>4. /\ Scheme(cap_rewrite, Writes \ {"enforce_event_cap"}, "flush_write_buf") /\ Clearing(cap_rewrite)
      /\ \E i \in 1 .. Len(cap_rewrite) : cap_rewrite[i] \in Rewriting
  <2> DEFINE p == cap_rewrite
  <2>1. /\ p \in Seq(Writes) /\ Len(p) = 7
        /\ p[1] = "flush_write_buf" /\ p[2] = "summary_hook" /\ p[3] = "write_marker"
        /\ p[4] = "replace_file" /\ p[5] = "write_index" /\ p[6] = "write_manifest"
        /\ p[7] = "clear_marker" /\ p # <<>> /\ Head(p) = "flush_write_buf"
    BY DEF cap_rewrite, Writes
  <2> HIDE DEF p
  <2>2. \A i \in 1 .. 7 : i = 1 \/ i = 2 \/ i = 3 \/ i = 4 \/ i = 5 \/ i = 6 \/ i = 7
    OBVIOUS
  <2>3. /\ 2 - 1 = 1 /\ 3 - 1 = 2 /\ 4 - 1 = 3 /\ 5 - 1 = 4 /\ 6 - 1 = 5 /\ 7 - 1 = 6
        /\ 2 + 1 = 3 /\ 3 + 1 = 4
        /\ 2 \in 1 .. 7
    OBVIOUS
  <2>4. Clearing(p)
    BY <2>1 DEF Clearing
  <2>5. Orderly(p)
    BY <2>1, <2>2, <2>3, <2>4 DEF Orderly, Rewriting
  <2>6. /\ Scheme(p, Writes \ {"enforce_event_cap"}, "flush_write_buf")
        /\ \E i \in 1 .. Len(p) : p[i] \in Rewriting
    BY <2>1, <2>2, <2>3, <2>5 DEF Scheme, Rewriting, Writes
  <2> QED
    BY <2>4, <2>6 DEF p
<1>5. Orderly(<<>>)
  <2>1. Len(<<>>) = 0
    OBVIOUS
  <2> QED
    BY <2>1 DEF Orderly
<1> QED
  BY <1>1, <1>2, <1>3, <1>4, <1>5

-------------------------------------------------------------------------------
(* The steps of the log keep the metadata right *)

\* What the invariants say of the files.
LEMMA MetaFacts ==
    ASSUME LogInv, MetaInv, ~damaged
    PROVE  /\ file \in Seq(EventRecords) /\ buffer \in Seq(EventRecords) /\ st \in LogStates
           /\ file \o buffer \in Seq(EventRecords) /\ Len(file) \in Nat
           /\ Whole(file) /\ Whole(buffer) /\ Whole(file \o buffer)
           /\ Begins(file, file \o buffer)
           /\ file \o <<>> = file
           /\ todo \in Seq(Writes)
           /\ manifest = Absent \/ manifest \in Manifests
           /\ index = Absent \/ index \in Seq(IndexEntries)
           /\ marker = Absent \/ marker \in Markers
           /\ BaseOf(file, manifest, marker) \in Nat \ {0}
           /\ infer_scan_turn_base(manifest, index, marker, Len(file)) = BaseOf(file, manifest, marker)
           /\ op \in {"down", "idle", "open", "append", "flush", "close"}
           /\ durableTurns \in Nat
<1>1. /\ file \in Seq(EventRecords) /\ buffer \in Seq(EventRecords) /\ st \in LogStates
      /\ todo \in Seq(Writes)
      /\ manifest = Absent \/ manifest \in Manifests
      /\ index = Absent \/ index \in Seq(IndexEntries)
      /\ marker = Absent \/ marker \in Markers
  BY DiskTypes DEF LogInv
<1>2. Whole(file) /\ Whole(buffer)
  BY DEF LogInv, Kept
<1>3. Whole(file \o buffer)
  BY <1>1, <1>2, WholeWrite
<1> DEFINE c == file \o buffer
<1>4. /\ c \in Seq(EventRecords) /\ Len(c) = Len(file) + Len(buffer) /\ Len(file) \in Nat /\ Len(buffer) \in Nat
      /\ \A i \in 1 .. Len(file) : c[i] = file[i]
  BY <1>1, Joined
<1> HIDE DEF c
<1>5. Begins(file, c)
  BY <1>4 DEF Begins
<1>6. file \o <<>> = file
  BY <1>1, ConcatEmptySeq
<1>7. /\ manifest = Absent => file = <<>> /\ marker = Absent /\ index \in {Absent, <<>>}
      /\ manifest # Absent /\ ~MarkerMatches(marker, Len(file)) => Fits(file, manifest, index)
  BY DEF MetaInv, Fresh
<1>8. /\ infer_scan_turn_base(manifest, index, marker, Len(file)) = BaseOf(file, manifest, marker)
      /\ BaseOf(file, manifest, marker) \in Nat \ {0}
  BY <1>1, <1>4, <1>7, InferredBase
<1>9. op \in {"down", "idle", "open", "append", "flush", "close"} /\ durableTurns \in Nat
  BY DEF LogInv, TypeOK
<1> QED
  BY <1>1, <1>2, <1>3, <1>4, <1>5, <1>6, <1>8, <1>9 DEF c

\* There is nothing to tell initially.
LEMMA MetaInit == Init => MetaInv
<1> SUFFICES ASSUME Init PROVE MetaInv
  OBVIOUS
<1>1. /\ file = <<>> /\ buffer = <<>> /\ manifest = Absent /\ index = Absent /\ marker = Absent
      /\ op = "down" /\ todo = <<>> /\ failed = FALSE /\ durableTurns = 0
  BY DEF Init
<1>2. Len(<<>>) = 0 /\ <<>> \in Seq(EventRecords) /\ <<>> \o <<>> = <<>>
  <2>1. <<>> \in Seq(EventRecords)
    BY EmptySeq
  <2> QED
    BY <2>1, ConcatEmptySeq
<1>3. Scheduled("down", <<>>, FALSE)
  BY <1>2, Schemes DEF Scheduled
<1>4. Polite(<<>>)
  BY <1>2 DEF Polite
<1>5. Numbers(<<>>, <<>>, BaseOf(<<>>, Absent, Absent), 0)
  <2>1. BaseOf(<<>>, Absent, Absent) = 1
    BY DEF BaseOf, MarkerMatches
  <2>2. Scan(<<>>, 1).turnCount = 1 - 1 /\ Numbered(<<>>, Scan(<<>>, 1))
    BY ScanEmpty
  <2> QED
    BY <1>2, <2>1, <2>2 DEF Numbers
<1>6. Drained("down", <<>>, <<>>)
  BY DEF Drained
<1>7. Fresh("down", <<>>, <<>>, <<>>, Absent, Absent, Absent)
  BY DEF Fresh
<1>8. Written(<<>>, st, <<>>, Absent, Absent, Absent)
  BY DEF Written
<1>9. Marked("down", <<>>, <<>>, Absent, FALSE) /\ Capped("down", <<>>, st)
      /\ Tracks("down", st, <<>>, <<>>, Absent, Absent, FALSE, fileOpen)
  BY DEF Marked, Capped, Tracks
<1> QED
  BY <1>1, <1>2, <1>3, <1>4, <1>5, <1>6, <1>7, <1>8, <1>9 DEF MetaInv

\* Writing the buffer to the file changes nothing that is known of them.
LEMMA Flushed ==
    ASSUME LogInv, MetaInv, ~damaged, op # "down", NEW g, g = file \o buffer
    PROVE  /\ g \in Seq(EventRecords) /\ Whole(g) /\ g \o <<>> = g /\ Begins(file, g)
           /\ BaseOf(g, manifest, marker) = BaseOf(file, manifest, marker)
           /\ MarkerMatches(marker, Len(g)) = MarkerMatches(marker, Len(file))
           /\ manifest # Absent /\ ~MarkerMatches(marker, Len(g)) => Fits(g, manifest, index)
           /\ manifest = Absent => g = <<>>
           /\ buffer = <<>> => g = file
           /\ Numbers(g, <<>>, BaseOf(g, manifest, marker), durableTurns)
           /\ Scan(file, BaseOf(file, manifest, marker)).turnCount <= Scan(g, BaseOf(g, manifest, marker)).turnCount
<1>1. /\ g \in Seq(EventRecords) /\ Whole(g) /\ Begins(file, g)
      /\ file \in Seq(EventRecords) /\ file \o <<>> = file
      /\ manifest = Absent \/ manifest \in Manifests
      /\ BaseOf(file, manifest, marker) \in Nat \ {0} /\ durableTurns \in Nat
      /\ Whole(file) /\ Len(file) \in Nat
  BY MetaFacts
<1>2. g \o <<>> = g
  BY <1>1, ConcatEmptySeq
<1>3. file = g \/ marker = Absent
  BY <1>1 DEF MetaInv, Marked
<1>4. /\ BaseOf(g, manifest, marker) = BaseOf(file, manifest, marker)
      /\ MarkerMatches(marker, Len(g)) = MarkerMatches(marker, Len(file))
  <2>1. CASE file = g
    BY <2>1
  <2>2. CASE marker = Absent
    BY <2>2 DEF BaseOf, MarkerMatches
  <2> QED
    BY <1>3, <2>1, <2>2
<1>5. ASSUME manifest # Absent, ~MarkerMatches(marker, Len(g)) PROVE Fits(g, manifest, index)
  <2>1. Fits(file, manifest, index) /\ manifest \in Manifests
    BY <1>1, <1>4, <1>5 DEF MetaInv
  <2> QED
    BY <1>1, <2>1, FitsGrown
<1>6. manifest = Absent => g = <<>>
  BY <1>1 DEF MetaInv, Fresh
<1> DEFINE base == BaseOf(file, manifest, marker)
<1> HIDE DEF base
<1>7. base \in Nat \ {0}
  BY <1>1 DEF base
<1>8. Scan(file, base).turnCount <= Scan(g, base).turnCount
  BY <1>1, <1>7, NumberedBeginning
<1>9. Scan(file, base).turnCount >= durableTurns /\ Numbered(g, Scan(g, base))
  BY DEF MetaInv, Numbers, base
<1>10. Scan(file, base).turnCount \in Nat /\ Scan(g, base).turnCount \in Nat
  <2>1. Len(g) \in Nat
    BY <1>1, LenProperties
  <2>2. Told(Scan(file, base), Len(file), base) /\ Told(Scan(g, base), Len(g), base)
    BY <1>1, <1>7, <2>1, ScanTold
  <2>3. Scan(file, base) \in LogStates /\ Scan(g, base) \in LogStates
    BY <2>2 DEF Told
  <2> QED
    BY <2>3 DEF LogStates
<1>11. Numbers(g, <<>>, base, durableTurns)
  <2>1. Scan(g, base).turnCount >= durableTurns
    BY <1>1, <1>8, <1>9, <1>10
  <2> QED
    BY <1>2, <1>9, <2>1 DEF Numbers
<1> QED
  BY <1>1, <1>2, <1>3, <1>4, <1>5, <1>6, <1>8, <1>11 DEF base

\* The process is gone, and has written at most a part of its buffer.
LEMMA MetaGone ==
    ASSUME LogInv, MetaInv, ~damaged, op # "down", Gone,
           UNCHANGED <<manifest, index, marker, durableTurns>>,
           file' \in Seq(EventRecords), Begins(file, file'), Begins(file', file \o buffer),
           file' = file \/ buffer # <<>>
    PROVE  MetaInv'
<1> DEFINE base == BaseOf(file, manifest, marker)
<1>1. /\ file \in Seq(EventRecords) /\ Whole(file \o buffer) /\ Len(file) \in Nat
      /\ manifest = Absent \/ manifest \in Manifests
      /\ base \in Nat \ {0} /\ durableTurns \in Nat
  BY MetaFacts
<1>2. /\ op' = "down" /\ todo' = <<>> /\ buffer' = <<>> /\ failed' = FALSE
  BY DEF Gone
<1>3. /\ manifest = Absent => file = <<>> /\ buffer = <<>> /\ marker = Absent /\ index \in {Absent, <<>>}
      /\ manifest # Absent /\ ~MarkerMatches(marker, Len(file)) => Fits(file, manifest, index)
      /\ Polite(file \o buffer)
      /\ Numbers(file, buffer, base, durableTurns)
      /\ marker # Absent => buffer = <<>>
  BY DEF MetaInv, Fresh, Marked
<1>4. /\ BaseOf(file', manifest, marker) = base
      /\ MarkerMatches(marker, Len(file')) = MarkerMatches(marker, Len(file))
  <2>1. file' = file \/ marker = Absent
    BY <1>3
  <2> QED
    BY <2>1, BaseSame
<1> DEFINE g == file'
<1>5. g \in Seq(EventRecords) /\ Whole(g) /\ g \o <<>> = g /\ Len(g) \in Nat
  <2>1. Whole(file')
    BY <1>1, WholeBeginning
  <2>2. file' \o <<>> = file'
    BY ConcatEmptySeq
  <2> QED
    BY <2>1, <2>2, LenProperties
<1>6. Polite(g)
  BY <1>3, PoliteBeginning
<1>7. manifest # Absent /\ ~MarkerMatches(marker, Len(g)) => Fits(g, manifest, index)
  <2>1. SUFFICES ASSUME manifest # Absent, ~MarkerMatches(marker, Len(g)) PROVE Fits(g, manifest, index)
    OBVIOUS
  <2>2. Fits(file, manifest, index) /\ manifest \in Manifests
    BY <1>1, <1>3, <1>4, <2>1
  <2> QED
    BY <1>1, <2>2, FitsGrown
<1> HIDE DEF base
<1>8. Numbers(g, <<>>, base, durableTurns)
  <2>1. Scan(file, base).turnCount <= Scan(g, base).turnCount
    BY <1>1, <1>5, NumberedBeginning
  <2>2. Numbered(file \o buffer, Scan(file \o buffer, base)) => Numbered(g, Scan(g, base))
    BY <1>1, <1>5, NumberedBeginning
  <2>3. Told(Scan(file, base), Len(file), base) /\ Told(Scan(g, base), Len(g), base)
    <3>1. Whole(file)
      BY MetaFacts
    <3> QED
      BY <1>1, <1>5, <3>1, ScanTold
  <2>4. Scan(file, base).turnCount \in Nat /\ Scan(g, base).turnCount \in Nat
    <3>1. Scan(file, base) \in LogStates /\ Scan(g, base) \in LogStates
      BY <2>3 DEF Told
    <3> QED
      BY <3>1 DEF LogStates
  <2>5. Scan(file, base).turnCount >= durableTurns /\ Numbered(file \o buffer, Scan(file \o buffer, base))
    BY <1>3 DEF Numbers
  <2>6. Scan(g, base).turnCount >= durableTurns
    BY <1>1, <2>1, <2>4, <2>5
  <2> QED
    BY <1>5, <2>2, <2>5, <2>6 DEF Numbers
<1>9. Fresh("down", <<>>, g, <<>>, manifest, index, marker)
  <2>1. manifest = Absent => g = <<>>
    BY <1>3
  <2> QED
    BY <1>3, <2>1 DEF Fresh
<1>10. Scheduled("down", <<>>, FALSE) /\ Drained("down", <<>>, <<>>)
  <2>1. Len(<<>>) = 0
    OBVIOUS
  <2> QED
    BY <2>1, Schemes DEF Scheduled, Drained
<1>11. /\ Tracks("down", st', g, <<>>, manifest, marker, FALSE, fileOpen')
       /\ Written(<<>>, st', g, manifest, index, marker)
       /\ Marked("down", <<>>, <<>>, marker, FALSE) /\ Capped("down", <<>>, st')
  BY DEF Tracks, Written, Marked, Capped
<1>12. Numbers(g, <<>>, BaseOf(g, manifest, marker), durableTurns) /\ Polite(g \o <<>>)
  BY <1>4, <1>5, <1>6, <1>8
<1> QED
  BY <1>2, <1>7, <1>9, <1>10, <1>11, <1>12 DEF MetaInv

\* A write fails: the operation ends, and nothing but the buffer's place has changed.
LEMMA MetaFail ==
    ASSUME LogInv, MetaInv, ~damaged, Fail, todo # <<>>,
           UNCHANGED <<manifest, index, marker, durableTurns>>,
           \/ file' = file /\ (op' # "down" => buffer' = buffer)
           \/ file' = file \o buffer /\ (op' # "down" => buffer' = <<>>),
           op' # "down" => UNCHANGED <<st, fileOpen>>
    PROVE  MetaInv'
<1>1. op \notin {"down", "idle"}
  BY DEF LogInv, TypeOK
<1> DEFINE g == file \o buffer
           base == BaseOf(file, manifest, marker)
<1>2. /\ file \in Seq(EventRecords) /\ Len(file) \in Nat /\ Begins(file, g) /\ g \in Seq(EventRecords)
      /\ file \o <<>> = file
  BY MetaFacts
<1>3. /\ g \o <<>> = g
      /\ BaseOf(g, manifest, marker) = base
      /\ MarkerMatches(marker, Len(g)) = MarkerMatches(marker, Len(file))
      /\ manifest # Absent /\ ~MarkerMatches(marker, Len(g)) => Fits(g, manifest, index)
      /\ manifest = Absent => g = <<>>
      /\ buffer = <<>> => g = file
      /\ Numbers(g, <<>>, base, durableTurns)
  BY <1>1, Flushed
<1>4. CASE op \in {"open", "close"}
  <2>1. Gone
    BY <1>4 DEF Fail
  <2>2. Begins(file, file)
    BY <1>2 DEF Begins
  <2>3. Begins(g, g)
    BY <1>2, LenProperties DEF Begins
  <2>4. /\ file' \in Seq(EventRecords) /\ Begins(file, file') /\ Begins(file', g)
        /\ file' = file \/ buffer # <<>>
    <3>1. CASE file' = file
      BY <1>2, <2>2, <3>1
    <3>2. CASE file' = g
      BY <1>2, <1>3, <2>3, <3>2
    <3> QED
      BY <3>1, <3>2
  <2> QED
    BY <1>1, <2>1, <2>4, MetaGone
<1>5. CASE op \notin {"open", "close"}
  <2>1. op' = "idle" /\ todo' = <<>> /\ failed' = TRUE /\ UNCHANGED <<st, fileOpen>>
    BY <1>5 DEF Fail
  <2>2. /\ file' = file \/ file' = g
        /\ file' = file => buffer' = buffer \/ (buffer' = <<>> /\ g = file)
        /\ file' = g => buffer' = <<>> \/ (buffer' = buffer /\ g = file)
    BY <2>1
  <2>3. /\ manifest # Absent
        /\ manifest # Absent /\ ~MarkerMatches(marker, Len(file)) => Fits(file, manifest, index)
        /\ Polite(g) /\ Numbers(file, buffer, base, durableTurns)
        /\ Tracks(op, st, file, buffer, manifest, marker, failed, fileOpen)
        /\ Marked(op, todo, buffer, marker, failed)
    BY <1>1, <1>5 DEF MetaInv, Fresh
  <2>4. CASE file' = file /\ buffer' = buffer
    <3>1. Tracks("idle", st, file, buffer, manifest, marker, TRUE, fileOpen)
      BY <1>1, <2>3 DEF Tracks
    <3>2. Marked("idle", <<>>, buffer, marker, TRUE)
      <4>1. Len(<<>>) = 0
        OBVIOUS
      <4> QED
        BY <1>1, <2>3, <4>1 DEF Marked
    <3>3. Fresh("idle", <<>>, file, buffer, manifest, index, marker)
      BY <2>3 DEF Fresh
    <3>4. /\ Scheduled("idle", <<>>, TRUE) /\ Drained("idle", <<>>, buffer)
          /\ Written(<<>>, st, file, manifest, index, marker) /\ Capped("idle", <<>>, st)
      <4>1. Len(<<>>) = 0
        OBVIOUS
      <4> QED
        BY <4>1, Schemes DEF Scheduled, Drained, Written, Capped
    <3> QED
      BY <2>1, <2>3, <2>4, <3>1, <3>2, <3>3, <3>4 DEF MetaInv
  <2>5. CASE file' = g /\ buffer' = <<>>
    <3>1. Tracks("idle", st, g, <<>>, manifest, marker, TRUE, fileOpen)
      BY <1>1, <1>3, <2>3 DEF Tracks
    <3>2. Marked("idle", <<>>, <<>>, marker, TRUE)
      <4>1. Len(<<>>) = 0
        OBVIOUS
      <4> QED
        BY <4>1 DEF Marked
    <3>3. Fresh("idle", <<>>, g, <<>>, manifest, index, marker)
      BY <2>3 DEF Fresh
    <3>4. /\ Scheduled("idle", <<>>, TRUE) /\ Drained("idle", <<>>, <<>>)
          /\ Written(<<>>, st, g, manifest, index, marker) /\ Capped("idle", <<>>, st)
      <4>1. Len(<<>>) = 0
        OBVIOUS
      <4> QED
        BY <4>1, Schemes DEF Scheduled, Drained, Written, Capped
    <3>5. Polite(g \o <<>>) /\ Numbers(g, <<>>, BaseOf(g, manifest, marker), durableTurns)
      BY <1>3, <2>3
    <3> HIDE DEF g
    <3> QED
      BY <1>3, <2>1, <2>5, <3>1, <3>2, <3>3, <3>4, <3>5 DEF MetaInv
  <2> QED
    BY <1>3, <2>1, <2>2, <2>4, <2>5
<1> QED
  BY <1>4, <1>5

\* A part of the buffer that was written whole is a beginning of it.
LEMMA PartWritten ==
    ASSUME NEW f \in Seq(EventRecords), NEW b \in Seq(EventRecords), NEW part \in CutShort(b),
           part = <<>> \/ part[Len(part)].nl
    PROVE  f \o part \in Seq(EventRecords) /\ Begins(f, f \o part) /\ Begins(f \o part, f \o b)
<1>1. /\ part \in Seq(EventRecords) /\ Len(part) <= Len(b)
      /\ \A i \in 1 .. Len(part) - 1 : part[i] = b[i]
      /\ part # <<>> /\ part[Len(part)] # b[Len(part)] => ~part[Len(part)].nl
  BY CutShortIs
<1>2. Len(part) \in Nat /\ Len(b) \in Nat /\ Len(<<>>) = 0
  BY <1>1, LenProperties
<1>3. ASSUME NEW i \in 1 .. Len(part) PROVE part[i] = b[i]
  <2>1. i \in 1 .. Len(part) - 1 \/ (i = Len(part) /\ part # <<>>)
    BY <1>2
  <2> QED
    BY <1>1, <2>1
<1> DEFINE c == f \o part
           d == f \o b
<1>4. /\ c \in Seq(EventRecords) /\ Len(c) = Len(f) + Len(part) /\ Len(f) \in Nat
      /\ \A i \in 1 .. Len(f) : c[i] = f[i]
      /\ \A i \in 1 .. Len(c) :
            i \in 1 .. Len(f) \/ (i - Len(f) \in 1 .. Len(part) /\ c[i] = part[i - Len(f)])
  BY <1>1, Joined
<1>5. /\ Len(d) = Len(f) + Len(b)
      /\ \A i \in 1 .. Len(f) : d[i] = f[i]
      /\ \A i \in 1 .. Len(b) : d[i + Len(f)] = b[i]
  BY <1>1, Joined
<1> HIDE DEF c, d
<1>6. Begins(f, c)
  BY <1>2, <1>4 DEF Begins
<1>7. ASSUME NEW i \in 1 .. Len(c) PROVE c[i] = d[i]
  <2>1. CASE i \in 1 .. Len(f)
    BY <1>4, <1>5, <2>1
  <2>2. CASE i - Len(f) \in 1 .. Len(part) /\ c[i] = part[i - Len(f)]
    <3>1. i - Len(f) \in 1 .. Len(b) /\ (i - Len(f)) + Len(f) = i
      BY <1>1, <1>2, <1>4, <2>2
    <3>2. d[(i - Len(f)) + Len(f)] = b[i - Len(f)]
      BY <1>5, <3>1
    <3> QED
      BY <1>3, <2>2, <3>1, <3>2
  <2> QED
    BY <1>4, <2>1, <2>2
<1>8. Begins(c, d)
  BY <1>1, <1>2, <1>4, <1>5, <1>7 DEF Begins
<1> QED
  BY <1>4, <1>6, <1>8 DEF c, d

\* A crash, also within a write.
LEMMA MetaCrash ==
    ASSUME LogInv, MetaInv, ~damaged, Crash, ~damaged'
    PROVE  MetaInv'
<1>1. /\ op # "down" /\ Gone /\ UNCHANGED <<manifest, index, marker, durableTurns>>
  BY DEF Crash
<1>2. /\ file \in Seq(EventRecords) /\ buffer \in Seq(EventRecords)
      /\ Begins(file, file \o buffer) /\ Len(file) \in Nat
  BY MetaFacts
<1>3. CASE UNCHANGED file
  <2>1. Begins(file, file)
    BY <1>2 DEF Begins
  <2> QED
    BY <1>1, <1>2, <1>3, <2>1, MetaGone
<1>4. ASSUME NEW part \in CutShort(buffer), file' = file \o part, buffer # <<>>,
             damaged' = (damaged \/ (part # <<>> /\ ~part[Len(part)].nl))
      PROVE  MetaInv'
  <2>1. part = <<>> \/ part[Len(part)].nl
    BY <1>4
  <2>2. /\ file' \in Seq(EventRecords) /\ Begins(file, file')
        /\ Begins(file', file \o buffer)
    BY <1>2, <1>4, <2>1, PartWritten
  <2> QED
    BY <1>1, <1>4, <2>2, MetaGone
<1>5. \/ UNCHANGED file
      \/ buffer # <<>> /\ \E part \in CutShort(buffer) :
            /\ file' = file \o part
            /\ damaged' = (damaged \/ (part # <<>> /\ ~part[Len(part)].nl))
  BY DEF Crash
<1> QED
  BY <1>3, <1>4, <1>5

\* An operation returns.
LEMMA MetaReturn ==
    ASSUME LogInv, MetaInv, ~damaged, Return
    PROVE  MetaInv'
<1>1. /\ op \notin {"down", "idle"} /\ todo = <<>>
      /\ UNCHANGED <<file, manifest, index, marker, durableTurns, damaged>>
  BY DEF Return, diskVars
<1>2. CASE op = "close"
  <2>1. Gone
    BY <1>2 DEF Return
  <2>2. file \in Seq(EventRecords) /\ Begins(file, file \o buffer) /\ Len(file) \in Nat
    BY MetaFacts
  <2>3. Begins(file, file)
    BY <2>2 DEF Begins
  <2> QED
    BY <1>1, <2>1, <2>2, <2>3, MetaGone
<1>3. CASE op # "close"
  <2>1. op' = "idle" /\ todo' = <<>> /\ UNCHANGED <<st, buffer, fileOpen, failed>>
    BY <1>3 DEF Return
  <2>2. Len(<<>>) = 0 /\ ~Clearing(<<>>)
    BY DEF Clearing
  <2>3. manifest # Absent
    BY <1>1, <1>3, <2>2 DEF MetaInv, Fresh
  <2>4. Scheduled("idle", <<>>, failed) /\ Drained("idle", <<>>, buffer)
    BY <2>2, Schemes DEF Scheduled, Drained
  <2>5. Fresh("idle", <<>>, file, buffer, manifest, index, marker)
    BY <2>3 DEF Fresh
  <2>6. Tracks("idle", st, file, buffer, manifest, marker, failed, fileOpen)
    BY <1>1 DEF MetaInv, Tracks
  <2>7. Written(<<>>, st, file, manifest, index, marker) /\ Capped("idle", <<>>, st)
    BY DEF Written, Capped
  <2>8. Marked("idle", <<>>, buffer, marker, failed)
    <3>1. Marked(op, <<>>, buffer, marker, failed)
      BY <1>1 DEF MetaInv
    <3> QED
      BY <1>1, <2>2, <3>1 DEF Marked
  <2> QED
    BY <1>1, <2>1, <2>4, <2>5, <2>6, <2>7, <2>8 DEF MetaInv
<1> QED
  BY <1>2, <1>3

\* A write of the buffer, or of another file, fails.
LEMMA MetaWriteFails ==
    ASSUME LogInv, MetaInv, ~damaged, ~damaged',
           \/ flush_write_buf_rolled_back \/ flush_write_buf_not_rolled_back
           \/ flush_write_buf_unsynced \/ WriteFails
    PROVE  MetaInv'
<1>1. CASE flush_write_buf_rolled_back
  BY <1>1, MetaFail DEF flush_write_buf_rolled_back, Step, diskVars
<1>2. CASE flush_write_buf_not_rolled_back
  BY <1>2 DEF flush_write_buf_not_rolled_back
<1>3. CASE flush_write_buf_unsynced
  BY <1>3, MetaFail DEF flush_write_buf_unsynced, Step
<1>4. CASE WriteFails
  BY <1>4, MetaFail DEF WriteFails, Step, diskVars
<1> QED
  BY <1>1, <1>2, <1>3, <1>4

\* A flush begins, or the log is dropped.
LEMMA MetaFlush ==
    ASSUME LogInv, MetaInv, ~damaged, flush \/ Drop
    PROVE  MetaInv'
<1>1. /\ op = "idle" /\ op' \in {"flush", "close"}
      /\ todo' \in {persist_meta, <<"flush_write_buf">>}
      /\ UNCHANGED <<file, manifest, index, marker, st, buffer, fileOpen, failed, durableTurns>>
  BY DEF flush, Drop, diskVars, historyVars
<1>2. /\ Orderly(todo') /\ todo' # <<>> /\ Head(todo') = "flush_write_buf"
      /\ \A i \in 1 .. Len(todo') : todo'[i] \in Persisting
  BY <1>1, Schemes, Zenon DEF Scheme, Persisting
<1>3. /\ manifest # Absent /\ Marked("idle", todo, buffer, marker, failed)
      /\ Tracks("idle", st, file, buffer, manifest, marker, failed, fileOpen) /\ todo = <<>>
  BY <1>1 DEF MetaInv, Fresh, Scheduled
<1>4. Scheduled(op', todo', failed) /\ Drained(op', todo', buffer)
  BY <1>1, <1>2 DEF Scheduled, Drained
<1>5. Fresh(op', todo', file, buffer, manifest, index, marker)
  BY <1>3 DEF Fresh
<1>6. Tracks(op', st, file, buffer, manifest, marker, failed, fileOpen)
  BY <1>3 DEF Tracks
<1>7. Written(todo', st, file, manifest, index, marker) /\ Capped(op', todo', st)
  BY <1>1, <1>2 DEF Written, Capped
<1>8. Marked(op', todo', buffer, marker, failed)
  <2>1. ~Clearing(<<>>)
    BY DEF Clearing
  <2>2. \A i \in 1 .. Len(todo') : todo'[i] \notin {"write_marker", "summary_hook"}
    BY <1>2 DEF Persisting
  <2> QED
    BY <1>3, <2>1, <2>2 DEF Marked
<1> QED
  BY <1>1, <1>3, <1>4, <1>5, <1>6, <1>7, <1>8 DEF MetaInv

\* What open works with is what a scan finds.
LEMMA RecoveredIsScan ==
    ASSUME LogInv, MetaInv, ~damaged
    PROVE  /\ Recovered(file, manifest, index, marker) = Scan(file, BaseOf(file, manifest, marker))
           /\ FastPath(manifest, index, marker, Len(file)) =>
                 LoadPersisted(manifest, index, Len(file)) = Scan(file, BaseOf(file, manifest, marker))
<1>1. /\ Whole(file) /\ Len(file) \in Nat
      /\ manifest = Absent \/ manifest \in Manifests
      /\ infer_scan_turn_base(manifest, index, marker, Len(file)) = BaseOf(file, manifest, marker)
  BY MetaFacts
<1>2. manifest # Absent /\ ~MarkerMatches(marker, Len(file)) => Fits(file, manifest, index)
  BY DEF MetaInv
<1>3. FastPath(manifest, index, marker, Len(file)) =>
         LoadPersisted(manifest, index, Len(file)) = Scan(file, BaseOf(file, manifest, marker))
  BY <1>1, <1>2, TrustedIsScan
<1> QED
  BY <1>1, <1>3, Zenon DEF Recovered

\* Opening the log.
LEMMA MetaOpen ==
    ASSUME LogInv, MetaInv, ~damaged, Open
    PROVE  MetaInv'
<1> DEFINE base == BaseOf(file, manifest, marker)
           fast == FastPath(manifest, index, marker, Len(file))
<1>1. /\ op = "down" /\ st' = Recovered(file, manifest, index, marker)
      /\ todo' = (IF fast THEN <<>> ELSE persist_meta)
                 \o (IF marker # Absent THEN <<"clear_marker">> ELSE <<>>)
      /\ op' = "open" /\ buffer' = <<>> /\ failed' = FALSE
      /\ UNCHANGED <<file, manifest, index, marker, durableTurns, damaged>>
  BY DEF Open, diskVars, historyVars
<1>2. /\ file \in Seq(EventRecords) /\ Whole(file \o buffer) /\ Begins(file, file \o buffer)
      /\ file \o <<>> = file /\ Len(file) \in Nat /\ base \in Nat \ {0}
  BY MetaFacts
<1>3. /\ Polite(file \o buffer) /\ Numbers(file, buffer, base, durableTurns)
      /\ manifest = Absent => file = <<>> /\ marker = Absent /\ index \in {Absent, <<>>}
      /\ manifest # Absent /\ ~MarkerMatches(marker, Len(file)) => Fits(file, manifest, index)
  BY DEF MetaInv, Fresh
<1>4. st' = Scan(file, base)
  BY <1>1, RecoveredIsScan
<1>5. fast => manifest # Absent /\ ~MarkerMatches(marker, Len(file)) /\ base = manifest.base
  BY DEF FastPath, BaseOf
<1> HIDE DEF base, fast
<1>6. /\ <<>> \o <<>> = <<>> /\ <<>> \o <<"clear_marker">> = <<"clear_marker">>
      /\ persist_meta \o <<>> = persist_meta
  <2>1. <<>> \in Seq(Writes) /\ <<"clear_marker">> \in Seq(Writes) /\ persist_meta \in Seq(Writes)
    BY DEF Writes, persist_meta
  <2> QED
    BY <2>1, ConcatEmptySeq
<1>7. /\ fast /\ marker = Absent => todo' = <<>>
      /\ fast /\ marker # Absent => todo' = <<"clear_marker">>
      /\ ~fast /\ marker = Absent => todo' = persist_meta
      /\ ~fast /\ marker # Absent => todo' = persist_meta \o <<"clear_marker">>
  BY <1>1, <1>6
<1>8. /\ Orderly(todo') /\ \A i \in 1 .. Len(todo') : todo'[i] \in Persisting \cup {"clear_marker"}
      /\ todo' # <<>> /\ ~fast => Head(todo') = "flush_write_buf"
      /\ todo' # <<>> /\ fast => Head(todo') = "clear_marker"
      /\ marker # Absent => Clearing(todo')
      /\ ~fast /\ marker = Absent => Due(todo')
  <2>1. CASE fast /\ marker = Absent
    <3>1. todo' = <<>> /\ Len(<<>>) = 0
      BY <1>7, <2>1
    <3> QED
      BY <2>1, <3>1, Schemes
  <2>2. CASE fast /\ marker # Absent
    BY <1>7, <2>2, Schemes, Zenon DEF Scheme
  <2>3. CASE ~fast /\ marker = Absent
    <3>1. \A x \in Persisting : x \in Persisting \cup {"clear_marker"}
      OBVIOUS
    <3> QED
      BY <1>7, <2>3, <3>1, Schemes, Zenon DEF Scheme
  <2>4. CASE ~fast /\ marker # Absent
    <3>1. /\ Scheme(persist_meta \o <<"clear_marker">>, Persisting \cup {"clear_marker"}, "flush_write_buf")
          /\ Clearing(persist_meta \o <<"clear_marker">>)
      BY Schemes
    <3> QED
      BY <1>7, <2>4, <3>1, Zenon DEF Scheme
  <2> QED
    BY <2>1, <2>2, <2>3, <2>4
<1>9. Scheduled("open", todo', FALSE) /\ Drained("open", todo', <<>>)
  BY <1>8 DEF Scheduled, Drained
<1>10. Fresh("open", todo', file, <<>>, manifest, index, marker)
  BY <1>3, <1>5, <1>8 DEF Fresh, Due
<1>11. Tracks("open", st', file, <<>>, manifest, marker, FALSE, fileOpen')
  BY <1>2, <1>4 DEF Tracks, base
<1>12. Written(todo', st', file, manifest, index, marker)
  <2>1. todo' # <<>> => Head(todo') \notin {"write_manifest", "replace_file"}
    BY <1>8
  <2>2. todo' # <<>> /\ Head(todo') = "clear_marker" => fast
    BY <1>8
  <2> QED
    BY <1>3, <1>5, <2>1, <2>2 DEF Written, base
<1>13. Marked("open", todo', <<>>, marker, FALSE)
  <2>1. \A i \in 1 .. Len(todo') : todo'[i] \notin {"write_marker", "summary_hook"}
    BY <1>8 DEF Persisting
  <2> QED
    BY <1>8, <2>1 DEF Marked
<1>14. Capped("open", todo', st')
  BY DEF Capped
<1>15. Polite(file \o <<>>)
  BY <1>2, <1>3, PoliteBeginning
<1>16. Numbers(file, <<>>, base, durableTurns)
  <2>1. Numbered(file \o buffer, Scan(file \o buffer, base)) => Numbered(file, Scan(file, base))
    BY <1>2, NumberedBeginning
  <2> QED
    BY <1>2, <1>3, <2>1 DEF Numbers
<1> QED
  BY <1>1, <1>3, <1>9, <1>10, <1>11, <1>12, <1>13, <1>14, <1>15, <1>16 DEF MetaInv, base

\* Appending an event.
LEMMA MetaAppend ==
    ASSUME LogInv, MetaInv, ~damaged, NEW kind \in Kinds, append(kind)
    PROVE  MetaInv'
<1> DEFINE base == BaseOf(file, manifest, marker)
           turn == IF kind = "turnStarted" THEN st.turnCount + 1 ELSE 0
           r == [id |-> appended', kind |-> kind, turn |-> turn, nl |-> TRUE]
           c == file \o buffer
<1>1. /\ op = "idle" /\ ~failed /\ (st.status = "completed" => kind \in {"threadStarted", "other"})
      /\ appended' = appended + 1
      /\ st' = apply_lifecycle_event([st EXCEPT !.eventCount = @ + 1, !.offset = st.offset + 1], kind,
                                     st.offset, st.offset + 1)
      /\ buffer' = Append(buffer, r)
      /\ todo' \in {persist_meta \o <<"enforce_event_cap">>, <<"enforce_event_cap">>}
      /\ op' = "append"
      /\ UNCHANGED <<file, manifest, index, marker, fileOpen, failed, durableTurns, damaged>>
  BY DEF append, diskVars
<1>2. /\ file \in Seq(EventRecords) /\ buffer \in Seq(EventRecords) /\ st \in LogStates
      /\ c \in Seq(EventRecords) /\ Whole(c) /\ base \in Nat \ {0}
  BY MetaFacts
<1>3. r \in EventRecords /\ r.nl /\ r.kind # "torn" /\ r.kind = kind
      /\ (r.kind = "turnStarted" => r.turn = st.turnCount + 1)
  <2>1. appended' \in Nat
    BY <1>1, DiskTypes DEF LogInv
  <2>2. turn \in Nat
    BY <1>2 DEF LogStates
  <2>3. kind \in Kinds \cup {"torn"} /\ kind # "torn"
    BY DEF Kinds
  <2> QED
    BY <2>1, <2>2, <2>3 DEF EventRecords
<1> HIDE DEF r
<1>4. /\ marker = Absent /\ manifest # Absent /\ todo = <<>> /\ ~Clearing(<<>>)
      /\ st = Scan(c, base) /\ Polite(c) /\ Numbers(file, buffer, base, durableTurns)
      /\ manifest # Absent /\ ~MarkerMatches(marker, Len(file)) => Fits(file, manifest, index)
  <2>1. ~Clearing(<<>>)
    BY DEF Clearing
  <2>2. todo = <<>>
    BY <1>1 DEF MetaInv, Scheduled
  <2>3. marker = Absent
    BY <1>1, <2>1, <2>2 DEF MetaInv, Marked
  <2> QED
    BY <1>1, <2>1, <2>2, <2>3 DEF MetaInv, Fresh, Tracks
<1>5. file \o Append(buffer, r) = Append(c, r)
  <2>1. Append(buffer, r) = buffer \o <<r>> /\ Append(c, r) = c \o <<r>>
    BY <1>2, <1>3, AppendIsConcat
  <2>2. <<r>> \in Seq(EventRecords)
    BY <1>3
  <2>3. (file \o buffer) \o <<r>> = file \o (buffer \o <<r>>)
    BY <1>2, <2>2, ConcatAssociative
  <2> QED
    BY <2>1, <2>3
<1> HIDE DEF c, base
<1>6. st' = Scan(Append(c, r), base)
  <2>1. Scan(Append(c, r), base) = After(st, r.kind)
    BY <1>2, <1>3, <1>4, ScanAppend
  <2>2. st' = After(st, r.kind)
    BY <1>1, <1>3 DEF After
  <2> QED
    BY <2>1, <2>2
<1>7. Polite(Append(c, r))
  <2>1. Scan(c, base).status = "completed" => r.kind \in {"threadStarted", "other"}
    BY <1>1, <1>3, <1>4
  <2> QED
    BY <1>2, <1>3, <1>4, <2>1, PoliteAppend
<1>8. Numbers(file, buffer', base, durableTurns)
  <2>1. Numbered(c, st)
    BY <1>4 DEF Numbers, c
  <2>2. Numbered(Append(c, r), Scan(Append(c, r), base))
    BY <1>2, <1>3, <1>4, <2>1, NumberedAppend
  <2> QED
    BY <1>1, <1>4, <1>5, <2>2 DEF Numbers
<1>9. /\ Orderly(todo') /\ todo' \in Seq(Writes)
      /\ todo' # <<>> /\ Head(todo') \in {"flush_write_buf", "enforce_event_cap"}
      /\ \E i \in 1 .. Len(todo') : todo'[i] = "enforce_event_cap"
  <2>1. CASE todo' = persist_meta \o <<"enforce_event_cap">>
    <3>1. /\ Scheme(todo', Persisting \cup {"enforce_event_cap"}, "flush_write_buf")
          /\ \E i \in 1 .. Len(todo') : todo'[i] = "enforce_event_cap"
      BY <2>1, Schemes
    <3> QED
      BY <3>1 DEF Scheme
  <2>2. CASE todo' = <<"enforce_event_cap">>
    <3>1. Scheme(todo', {"enforce_event_cap"}, "enforce_event_cap")
      BY <2>2, Schemes
    <3>2. Len(todo') = 1 /\ todo'[1] = "enforce_event_cap"
      BY <2>2
    <3> QED
      BY <3>1, <3>2 DEF Scheme
  <2> QED
    BY <1>1, <2>1, <2>2
<1>10. Scheduled("append", todo', failed) /\ Drained("append", todo', buffer')
  BY <1>1, <1>9 DEF Scheduled, Drained
<1>11. Fresh("append", todo', file, buffer', manifest, index, marker)
  BY <1>4 DEF Fresh
<1>12. Tracks("append", st', file, buffer', manifest, marker, failed, fileOpen)
  BY <1>1, <1>5, <1>6 DEF Tracks, base
<1>13. /\ Written(todo', st', file, manifest, index, marker)
       /\ Marked("append", todo', buffer', marker, failed) /\ Capped("append", todo', st')
  BY <1>4, <1>9 DEF Written, Marked, Capped
<1>14. Polite(file \o buffer')
  BY <1>1, <1>5, <1>7
<1> QED
  BY <1>1, <1>4, <1>8, <1>10, <1>11, <1>12, <1>13, <1>14 DEF MetaInv, base

\* What is known of the rest of an operation when a write is done.
LEMMA MetaNext ==
    ASSUME LogInv, MetaInv, ~damaged, NEW name, Step(name), Done
    PROVE  /\ todo # <<>> /\ Head(todo) = name /\ todo' = Tail(todo) /\ todo \in Seq(Writes)
           /\ op \notin {"down", "idle"} /\ op' = op /\ failed' = failed
           /\ Scheduled(op, todo', failed)
           /\ name \notin {"flush_write_buf", "enforce_event_cap"} => buffer = <<>>
           /\ name \notin Persisting \cup {"clear_marker"} => op = "append" /\ ~failed
           /\ name \notin Persisting => ~failed
           /\ name # "clear_marker" => Marked(op, todo', buffer, marker, failed)
           /\ name \notin Rewriting \cup {"enforce_event_cap"} => Capped(op, todo', st)
           /\ name \in {"summary_hook", "write_marker"} => \A s : Capped(op, todo', s)
           /\ name # "write_manifest" => Fresh(op, todo', file, buffer, manifest, index, marker)
           /\ name \in Rewriting => Clearing(todo')
           /\ todo' # <<>> =>
                 /\ Head(todo') = "write_manifest" => name = "write_index"
                 /\ Head(todo') = "clear_marker" => name = "write_manifest"
                 /\ Head(todo') = "replace_file" => name = "write_marker"
           /\ Drained(op, todo', <<>>)
<1>1. /\ todo # <<>> /\ Head(todo) = name /\ todo' = Tail(todo)
      /\ op \notin {"down", "idle"} /\ op' = op /\ failed' = failed
  BY DoneLeaves, Zenon
<1>2. todo \in Seq(Writes)
  BY MetaFacts
<1>3. /\ Scheduled(op, todo, failed) /\ Orderly(todo) /\ Marked(op, todo, buffer, marker, failed)
      /\ Capped(op, todo, st) /\ Fresh(op, todo, file, buffer, manifest, index, marker)
      /\ Drained(op, todo, buffer)
  BY DEF MetaInv, Scheduled
<1>4. /\ Len(todo) \in Nat \ {0} /\ Head(todo) = todo[1]
      /\ Tail(todo) # <<>> <=> Len(todo) > 1
      /\ Tail(todo) \in Seq(Writes) /\ Len(Tail(todo)) = Len(todo) - 1
  BY <1>1, <1>2, TailIs
<1>5. 1 \in 1 .. Len(todo) /\ todo[1] = name
  BY <1>1, <1>4
<1>6. Scheduled(op, todo', failed)
  BY <1>1, <1>2, <1>3, ScheduledTail
<1>7. name \notin {"flush_write_buf", "enforce_event_cap"} => buffer = <<>>
  BY <1>1, <1>3 DEF Drained
<1>8. /\ name \notin Persisting \cup {"clear_marker"} => op \notin {"flush", "close", "open"}
      /\ name \notin Persisting => op \notin {"flush", "close"}
  BY <1>3, <1>5 DEF Scheduled
<1>9. op \in {"down", "idle", "open", "append", "flush", "close"}
  BY MetaFacts
<1>10. /\ name \notin Persisting \cup {"clear_marker"} => op = "append" /\ ~failed
       /\ name \notin Persisting => ~failed
  BY <1>1, <1>3, <1>8, <1>9 DEF Scheduled
<1>11. name # "clear_marker" => Marked(op, todo', buffer, marker, failed)
  BY <1>1, <1>2, <1>3, MarkedTail
<1>12. name \notin Rewriting \cup {"enforce_event_cap"} => Capped(op, todo', st)
  BY <1>1, <1>2, <1>3, CappedTail
<1>13. /\ name \in {"summary_hook", "write_marker"} => todo' # <<>> /\ Head(todo') \in Rewriting
       /\ todo' # <<>> =>
             /\ Head(todo') = "write_manifest" => name = "write_index"
             /\ Head(todo') = "clear_marker" => name = "write_manifest"
  BY <1>1, <1>2, <1>3, OrderlyTail
<1>14. name \in {"summary_hook", "write_marker"} => \A s : Capped(op, todo', s)
  <2>1. SUFFICES ASSUME name \in {"summary_hook", "write_marker"}, NEW s PROVE Capped(op, todo', s)
    OBVIOUS
  <2> DEFINE t == todo'
  <2>2. t # <<>> /\ Head(t) \in Rewriting
    BY <1>13, <2>1
  <2>3. t \in Seq(Writes)
    BY <1>1, <1>4
  <2>4. Head(t) = t[1] /\ 1 \in 1 .. Len(t)
    BY <2>2, <2>3, TailIs
  <2> QED
    BY <2>2, <2>4 DEF Capped
<1>15. name # "write_manifest" => Fresh(op, todo', file, buffer, manifest, index, marker)
  <2>1. SUFFICES ASSUME name # "write_manifest", manifest = Absent
                 PROVE  Fresh(op, todo', file, buffer, manifest, index, marker)
    BY DEF Fresh
  <2>2. op = "open" /\ Due(todo)
    BY <1>1, <1>3, <2>1 DEF Fresh, Due
  <2>3. Due(todo')
    BY <1>1, <1>2, <2>1, <2>2, DueTail
  <2> QED
    BY <1>3, <2>2, <2>3 DEF Fresh, Due
<1>16. name \in Rewriting => Clearing(todo')
  <2>1. SUFFICES ASSUME name \in Rewriting PROVE Clearing(todo')
    OBVIOUS
  <2>2. Clearing(todo)
    BY <1>3, <1>5, <2>1 DEF Orderly
  <2>3. name # "clear_marker"
    BY <2>1 DEF Rewriting
  <2> QED
    BY <1>1, <1>2, <2>2, <2>3, ClearingTail
<1>17. todo' # <<>> /\ Head(todo') = "replace_file" => name = "write_marker"
  <2>1. Program(todo, st)
    BY DEF LogInv
  <2> QED
    BY <1>1, <2>1, ProgramNext
<1>18. Drained(op, todo', <<>>)
  BY DEF Drained
<1> QED
  BY <1>1, <1>2, <1>6, <1>7, <1>10, <1>11, <1>12, <1>13, <1>14, <1>15, <1>16, <1>17, <1>18

\* The buffer is written and synced.
LEMMA MetaFlushWrite ==
    ASSUME LogInv, MetaInv, ~damaged, flush_write_buf
    PROVE  MetaInv'
<1> DEFINE g == file \o buffer
           base == BaseOf(file, manifest, marker)
<1>1. /\ Step("flush_write_buf") /\ Done
      /\ UNCHANGED <<manifest, index, marker, st, fileOpen, damaged>>
      /\ \/ buffer = <<>> /\ UNCHANGED <<file, buffer, durableTurns>>
         \/ /\ buffer # <<>> /\ file' = g /\ buffer' = <<>>
            /\ durableTurns' = AtLeast(durableTurns, st.turnCount)
  BY DEF flush_write_buf
<1>2. /\ op \notin {"down", "idle"} /\ op' = op /\ failed' = failed
      /\ Scheduled(op, todo', failed) /\ Marked(op, todo', buffer, marker, failed)
      /\ Capped(op, todo', st) /\ Fresh(op, todo', file, buffer, manifest, index, marker)
      /\ todo' # <<>> => Head(todo') \notin {"write_manifest", "clear_marker", "replace_file"}
      /\ Drained(op, todo', <<>>)
  <2>1. "flush_write_buf" \notin Rewriting \cup {"enforce_event_cap"}
    BY DEF Rewriting
  <2> QED
    BY <1>1, <2>1, MetaNext
<1>3. /\ g \o <<>> = g
      /\ BaseOf(g, manifest, marker) = base
      /\ MarkerMatches(marker, Len(g)) = MarkerMatches(marker, Len(file))
      /\ manifest # Absent /\ ~MarkerMatches(marker, Len(g)) => Fits(g, manifest, index)
      /\ manifest = Absent => g = <<>>
      /\ buffer = <<>> => g = file
      /\ Numbers(g, <<>>, base, durableTurns)
  BY <1>2, Flushed
<1>4. file' = g /\ buffer' = <<>>
  BY <1>1, <1>3
<1>5. Tracks(op, st, file, buffer, manifest, marker, failed, fileOpen) /\ Polite(g)
  BY DEF MetaInv
<1>6. Numbers(g, <<>>, base, durableTurns')
  <2>1. CASE durableTurns' = durableTurns
    BY <1>3, <2>1
  <2>2. CASE buffer # <<>> /\ durableTurns' = AtLeast(durableTurns, st.turnCount)
    <3>1. st = Scan(g, base)
      BY <1>2, <1>5, <2>2 DEF Tracks
    <3>2. durableTurns' \in {durableTurns, st.turnCount}
      BY <2>2 DEF AtLeast
    <3>3. st.turnCount \in Nat
      <4>1. st \in LogStates
        BY MetaFacts
      <4> QED
        BY <4>1 DEF LogStates
    <3> HIDE DEF g, base
    <3>4. Scan(g, base).turnCount >= durableTurns'
      BY <1>3, <3>1, <3>2, <3>3 DEF Numbers
    <3> QED
      BY <1>3, <3>4 DEF Numbers
  <2> QED
    BY <1>1, <2>1, <2>2
<1>7. Tracks(op, st, g, <<>>, manifest, marker, failed, fileOpen)
  BY <1>2, <1>3, <1>5 DEF Tracks
<1>8. Fresh(op, todo', g, <<>>, manifest, index, marker)
  BY <1>2, <1>3 DEF Fresh
<1>9. Written(todo', st, g, manifest, index, marker)
  BY <1>2 DEF Written
<1>10. Marked(op, todo', <<>>, marker, failed)
  BY <1>2 DEF Marked
<1>11. Polite(g \o <<>>) /\ Numbers(g, <<>>, BaseOf(g, manifest, marker), durableTurns')
  BY <1>3, <1>5, <1>6
<1> HIDE DEF g, base
<1> QED
  BY <1>1, <1>2, <1>3, <1>4, <1>7, <1>8, <1>9, <1>10, <1>11 DEF MetaInv

\* Unless a rewrite lost the handle, the state is that of a scan of the file.
LEMMA Settles ==
    ASSUME LogInv, MetaInv, ~damaged, op # "down", buffer = <<>>,
           ~failed \/ ~MarkerMatches(marker, Len(file))
    PROVE  /\ st = Scan(file, BaseOf(file, manifest, marker))
           /\ Told(st, Len(file), BaseOf(file, manifest, marker))
<1>1. /\ file \o <<>> = file /\ Whole(file) /\ Len(file) \in Nat
      /\ BaseOf(file, manifest, marker) \in Nat \ {0}
  BY MetaFacts
<1>2. st = Scan(file, BaseOf(file, manifest, marker))
  BY <1>1 DEF MetaInv, Tracks
<1> QED
  BY <1>1, <1>2, ScanTold

\* The turn index is written.
LEMMA MetaIndex ==
    ASSUME LogInv, MetaInv, ~damaged, write_turn_index
    PROVE  MetaInv'
<1>1. /\ Step("write_index") /\ Done /\ index' = st.entries
      /\ UNCHANGED <<file, manifest, marker, st, buffer, fileOpen, durableTurns, damaged>>
  BY DEF write_turn_index, historyVars
<1>2. /\ op \notin {"down", "idle"} /\ op' = op /\ failed' = failed /\ buffer = <<>>
      /\ Scheduled(op, todo', failed) /\ Marked(op, todo', buffer, marker, failed)
      /\ Capped(op, todo', st) /\ Fresh(op, todo', file, buffer, manifest, index, marker)
      /\ todo' # <<>> => Head(todo') \notin {"clear_marker", "replace_file"}
      /\ Drained(op, todo', <<>>)
  <2>1. "write_index" \notin Rewriting \cup {"enforce_event_cap"}
    BY DEF Rewriting
  <2> QED
    BY <1>1, <2>1, MetaNext
<1>3. /\ Polite(file \o buffer)
      /\ Tracks(op, st, file, buffer, manifest, marker, failed, fileOpen)
      /\ Numbers(file, buffer, BaseOf(file, manifest, marker), durableTurns)
  BY DEF MetaInv
<1>4. ASSUME manifest # Absent, ~MarkerMatches(marker, Len(file)) PROVE Fits(file, manifest, st.entries)
  <2>1. Fits(file, manifest, index) /\ BaseOf(file, manifest, marker) = manifest.base
    BY <1>4 DEF MetaInv, BaseOf
  <2>2. st = Scan(file, manifest.base)
    BY <1>2, <1>4, <2>1, Settles
  <2> QED
    BY <2>1, <2>2 DEF Fits
<1>5. Fresh(op, todo', file, buffer, manifest, st.entries, marker)
  <2>1. SUFFICES ASSUME manifest = Absent PROVE st.entries = <<>>
    BY <1>2 DEF Fresh
  <2>2. file = <<>> /\ marker = Absent
    BY <1>2, <2>1 DEF Fresh
  <2>3. ~MarkerMatches(marker, Len(file)) /\ BaseOf(file, manifest, marker) = 1
    BY <2>1, <2>2 DEF MarkerMatches, BaseOf
  <2>4. st = Scan(<<>>, 1)
    BY <1>2, <2>2, <2>3, Settles
  <2> QED
    BY <2>4, ScanEmpty
<1>6. Written(todo', st, file, manifest, st.entries, marker)
  BY <1>2 DEF Written
<1> QED
  BY <1>1, <1>2, <1>3, <1>4, <1>5, <1>6 DEF MetaInv

\* The manifest is written.
LEMMA MetaManifest ==
    ASSUME LogInv, MetaInv, ~damaged, write_manifest
    PROVE  MetaInv'
<1> DEFINE man == PersistedManifest(st, st.offset)
           base == BaseOf(file, manifest, marker)
<1>1. /\ Step("write_manifest") /\ Done /\ manifest' = man
      /\ UNCHANGED <<file, index, marker, st, buffer, fileOpen, durableTurns, damaged>>
  BY DEF write_manifest, historyVars
<1>2. /\ op \notin {"down", "idle"} /\ op' = op /\ failed' = failed /\ buffer = <<>>
      /\ Scheduled(op, todo', failed) /\ Marked(op, todo', buffer, marker, failed)
      /\ Capped(op, todo', st) /\ todo # <<>> /\ Head(todo) = "write_manifest"
      /\ todo' # <<>> => Head(todo') \notin {"write_manifest", "replace_file"}
      /\ Drained(op, todo', <<>>)
  <2>1. "write_manifest" \notin Rewriting \cup {"enforce_event_cap"}
    BY DEF Rewriting
  <2> QED
    BY <1>1, <2>1, MetaNext
<1>3. /\ Polite(file \o buffer)
      /\ Tracks(op, st, file, buffer, manifest, marker, failed, fileOpen)
      /\ Numbers(file, buffer, base, durableTurns)
      /\ index = st.entries
  BY <1>2 DEF MetaInv, Written
<1>4. st \in LogStates /\ base \in Nat \ {0} /\ Len(file) \in Nat
  BY MetaFacts
<1>5. man \in Manifests /\ man # Absent
  <2>1. st.offset \in Nat
    BY <1>4 DEF LogStates
  <2>2. man \in Manifests
    BY <1>4, <2>1, PersistedManifestType
  <2> QED
    BY <2>2, AbsentAssumption
<1>6. ASSUME ~failed \/ ~MarkerMatches(marker, Len(file))
      PROVE  Fits(file, man, index) /\ man.base = base
  <2>1. st = Scan(file, base) /\ Told(st, Len(file), base)
    BY <1>2, <1>6, Settles
  <2>2. st.offset = Len(file) /\ st.base = base
    BY <2>1 DEF Told
  <2>3. man.base = base /\ man.len = Len(file)
    BY <2>2 DEF PersistedManifest
  <2>4. man = PersistedManifest(Scan(file, base), Len(file)) /\ index = Scan(file, base).entries
    BY <1>3, <2>1, <2>2
  <2> HIDE DEF man, base
  <2> QED
    BY <1>4, <2>3, <2>4 DEF Fits
<1> HIDE DEF man, base
<1>7. BaseOf(file, man, marker) = base
  <2>1. CASE MarkerMatches(marker, Len(file))
    BY <2>1 DEF BaseOf, base
  <2>2. CASE ~MarkerMatches(marker, Len(file))
    BY <1>5, <1>6, <2>2 DEF BaseOf
  <2> QED
    BY <2>1, <2>2
<1>8. man # Absent /\ ~MarkerMatches(marker, Len(file)) => Fits(file, man, index)
  BY <1>6
<1>9. Fresh(op, todo', file, buffer, man, index, marker)
  BY <1>5 DEF Fresh
<1>10. Written(todo', st, file, man, index, marker)
  <2>1. SUFFICES ASSUME todo' # <<>>, Head(todo') = "clear_marker"
                 PROVE  man # Absent /\ Fits(file, man, index) /\ man.base = BaseOf(file, man, marker)
    BY <1>2 DEF Written
  <2>2. ~failed
    <3> DEFINE t == todo'
    <3>1. t \in Seq(Writes)
      BY <1>1, <1>2, MetaNext, TailIs
    <3>2. Head(t) = t[1] /\ 1 \in 1 .. Len(t)
      BY <2>1, <3>1, TailIs
    <3>3. op \notin {"flush", "close"}
      BY <1>2, <2>1, <3>2 DEF Scheduled, Persisting
    <3>4. op \in {"open", "append"}
      BY <1>2, <3>3, MetaFacts
    <3> QED
      BY <1>2, <3>4 DEF Scheduled
  <2> QED
    BY <1>5, <1>6, <1>7, <2>2
<1>11. Tracks(op, st, file, buffer, man, marker, failed, fileOpen)
  BY <1>3, <1>7 DEF Tracks, base
<1> QED
  BY <1>1, <1>2, <1>3, <1>7, <1>8, <1>9, <1>10, <1>11 DEF MetaInv

\* An open turn of a scan has an entry, so that the evictable turns are a natural.
LEMMA ScanEvictable ==
    ASSUME NEW f, Len(f) \in Nat, Whole(f), NEW from \in Nat \ {0}, NEW s, s = Scan(f, from)
    PROVE  Evictable(s) \in Nat
<1>1. Begins(f, f)
  BY DEF Begins
<1>2. PICK a : Visited(f, from, a)
  BY VisitedExists
<1> DEFINE t == a[Len(f)]
<1>3. s = [t EXCEPT !.offset = Len(f)] /\ t \in LogStates /\ Sound(t, Len(f), from)
  BY <1>1, <1>2, ScanBeginning
<1> HIDE DEF t
<1>4. s.inTurn = t.inTurn /\ s.entries = t.entries
  BY <1>3 DEF LogStates
<1>5. Len(s.entries) \in Nat /\ (s.inTurn => Len(s.entries) > 0)
  <2>1. t.entries \in Seq(IndexEntries) /\ (t.inTurn => t.entries # <<>>)
    BY <1>3 DEF Sound, LogStates
  <2>2. Len(t.entries) \in Nat /\ (t.entries # <<>> => Len(t.entries) # 0)
    BY <2>1, LenProperties, EmptySeq
  <2> QED
    BY <1>4, <2>1, <2>2
<1> QED
  BY <1>5 DEF Evictable

\* The cap is enforced, or there is nothing to enforce.
LEMMA MetaPlan ==
    ASSUME LogInv, MetaInv, ~damaged, enforce_event_cap
    PROVE  MetaInv'
<1>1. /\ todo # <<>> /\ Head(todo) = "enforce_event_cap"
      /\ todo' = IF NeedsEviction(st, MaxEvents) THEN cap_rewrite ELSE <<>>
      /\ UNCHANGED <<file, manifest, index, marker, op, st, buffer, fileOpen, failed, durableTurns, damaged>>
  BY DEF enforce_event_cap, Step, diskVars, historyVars, cap_rewrite
<1>2. /\ Scheduled(op, todo, failed) /\ Orderly(todo) /\ Marked(op, todo, buffer, marker, failed)
      /\ Fresh(op, todo, file, buffer, manifest, index, marker)
      /\ Tracks(op, st, file, buffer, manifest, marker, failed, fileOpen)
  BY DEF MetaInv, Scheduled
<1>3. Len(todo) \in Nat \ {0} /\ todo[1] = "enforce_event_cap" /\ 1 \in 1 .. Len(todo)
  <2>1. todo \in Seq(Writes)
    BY MetaFacts
  <2>2. Len(todo) \in Nat \ {0} /\ Head(todo) = todo[1]
    BY <1>1, <2>1, TailIs
  <2> QED
    BY <1>1, <2>2
<1>4. op = "append" /\ ~failed
  <2>1. op \notin {"down", "idle", "open", "flush", "close"}
    BY <1>1, <1>2, <1>3 DEF Scheduled, Persisting
  <2>2. op = "append"
    BY <2>1, MetaFacts
  <2> QED
    BY <1>2, <2>2 DEF Scheduled
<1>5. marker = Absent
  <2>1. Len(todo) = 1
    BY <1>2, <1>3 DEF Orderly
  <2>2. ~Clearing(todo)
    BY <1>3, <2>1 DEF Clearing
  <2> QED
    BY <1>2, <1>4, <2>2 DEF Marked
<1>6. manifest # Absent
  BY <1>2, <1>4 DEF Fresh
<1>7. CASE NeedsEviction(st, MaxEvents)
  <2>1. todo' = cap_rewrite
    BY <1>1, <1>7
  <2>2. /\ Orderly(todo') /\ todo' # <<>> /\ Head(todo') = "flush_write_buf"
        /\ \E i \in 1 .. Len(todo') : todo'[i] \in Rewriting
    BY <2>1, Schemes DEF Scheme
  <2>3. Scheduled("append", todo', failed) /\ Drained("append", todo', buffer)
    BY <1>4, <2>2 DEF Scheduled, Drained
  <2>4. /\ Written(todo', st, file, manifest, index, marker) /\ Capped("append", todo', st)
        /\ Marked("append", todo', buffer, marker, failed)
        /\ Fresh("append", todo', file, buffer, manifest, index, marker)
    BY <1>5, <1>6, <2>2 DEF Written, Capped, Marked, Fresh
  <2> QED
    BY <1>1, <1>4, <2>3, <2>4 DEF MetaInv
<1>8. CASE ~NeedsEviction(st, MaxEvents)
  <2>1. todo' = <<>> /\ Len(<<>>) = 0
    BY <1>1, <1>8
  <2>2. Evictable(st) \in Nat
    <3>1. /\ Whole(file \o buffer) /\ file \o buffer \in Seq(EventRecords)
          /\ BaseOf(file, manifest, marker) \in Nat \ {0}
      BY MetaFacts
    <3>2. st = Scan(file \o buffer, BaseOf(file, manifest, marker))
      BY <1>2, <1>4 DEF Tracks
    <3> QED
      BY <3>1, <3>2, LenProperties, ScanEvictable
  <2>3. st.eventCount \in Nat /\ MaxEvents \in Nat
    <3>1. st \in LogStates
      BY MetaFacts
    <3> QED
      BY <3>1, LogAssumption DEF LogStates
  <2>4. Capped("append", todo', st)
    BY <1>8, <2>2, <2>3 DEF Capped, NeedsEviction
  <2>5. Scheduled("append", todo', failed) /\ Drained("append", todo', buffer)
    BY <1>4, <2>1, Schemes DEF Scheduled, Drained
  <2>6. /\ Written(todo', st, file, manifest, index, marker)
        /\ Marked("append", todo', buffer, marker, failed)
        /\ Fresh("append", todo', file, buffer, manifest, index, marker)
    BY <1>5, <1>6, <2>1 DEF Written, Marked, Fresh
  <2> QED
    BY <1>1, <1>4, <2>4, <2>5, <2>6 DEF MetaInv
<1> QED
  BY <1>7, <1>8

\* The evicted part goes to the summary hook.
LEMMA MetaSummary ==
    ASSUME LogInv, MetaInv, ~damaged, summary_hook
    PROVE  MetaInv'
<1>1. /\ Step("summary_hook") /\ Done
      /\ UNCHANGED <<file, manifest, index, marker, st, buffer, fileOpen, durableTurns, damaged>>
  BY DEF summary_hook, diskVars
<1>2. /\ op \notin {"down", "idle"} /\ op' = op /\ failed' = failed /\ buffer = <<>>
      /\ Scheduled(op, todo', failed) /\ Marked(op, todo', buffer, marker, failed)
      /\ Capped(op, todo', st) /\ Fresh(op, todo', file, buffer, manifest, index, marker)
      /\ todo' # <<>> => Head(todo') \notin {"write_manifest", "clear_marker", "replace_file"}
      /\ Drained(op, todo', <<>>)
  BY <1>1, MetaNext
<1>3. Written(todo', st, file, manifest, index, marker)
  BY <1>2 DEF Written
<1> QED
  BY <1>1, <1>2, <1>3 DEF MetaInv

\* Behind the marker's write neither the hook nor that write is due.
LEMMA MarkerLast ==
    ASSUME NEW script, script # <<>>, NEW s, Program(script, s), Head(script) = "write_marker"
    PROVE  \A i \in 1 .. Len(Tail(script)) : Tail(script)[i] \notin {"write_marker", "summary_hook"}
<1>1. script \in Seq(Writes) /\ Scripted(script)
  BY DEF Program
<1> DEFINE t == Tail(script)
<1>2. /\ Len(script) \in Nat \ {0} /\ Head(script) = script[1]
      /\ \A i \in 1 .. Len(t) : t[i] = script[i + 1] /\ i + 1 \in 2 .. Len(script)
  BY <1>1, TailIs
<1> HIDE DEF t
<1>3. ASSUME NEW i \in 1 .. Len(t) PROVE t[i] \notin {"write_marker", "summary_hook"}
  <2>1. 1 \in 1 .. Len(script) /\ i + 1 \in 1 .. Len(script) /\ 1 < i + 1
    BY <1>2
  <2>2. Rank(script[1]) < Rank(script[i + 1])
    BY <1>1, <2>1 DEF Scripted
  <2>3. Rank("write_marker") < Rank(t[i])
    BY <1>2, <2>2
  <2>4. Rank("write_marker") = 3 /\ Rank("summary_hook") = 2
    BY DEF Rank
  <2> QED
    BY <2>3, <2>4
<1> QED
  BY <1>3 DEF t

\* The plan's cut, of a log whose state is that of a scan of the file.
LEMMA PlanFacts ==
    ASSUME LogInv, MetaInv, ~damaged, Step("write_marker") \/ Step("replace_file")
    PROVE  /\ op = "append" /\ ~failed /\ buffer = <<>> /\ manifest # Absent
           /\ st = Scan(file, BaseOf(file, manifest, marker))
           /\ Told(st, Len(file), BaseOf(file, manifest, marker))
           /\ NeedsEviction(st, MaxEvents) /\ MaxEvents \in Nat /\ st \in LogStates
           /\ EvictedTurns(st, MaxEvents) \in 1 .. Evictable(st)
           /\ EvictedTurns(st, MaxEvents) \in 1 .. Len(st.entries)
           /\ Cut = st.entries[EvictedTurns(st, MaxEvents)].end
           /\ Remaining \in Seq(EventRecords)
           /\ Cut \in 1 .. Len(file) /\ Len(file) \in Nat /\ Len(Remaining) = Len(file) - Cut
           /\ Len(Remaining) < Len(file) /\ Len(Remaining) \in Nat
           /\ \A i \in 1 .. Len(Remaining) : Remaining[i] = file[i + Cut]
<1>1. /\ todo # <<>> /\ Head(todo) \in {"write_marker", "replace_file"} /\ Head(todo) \in Rewriting
      /\ op \notin {"down", "idle"}
  BY DEF Step, Rewriting, LogInv, TypeOK
<1>2. /\ file \in Seq(EventRecords) /\ Len(file) \in Nat /\ st \in LogStates /\ todo \in Seq(Writes)
      /\ op \in {"down", "idle", "open", "append", "flush", "close"}
  BY MetaFacts
<1>3. buffer = <<>>
  BY <1>1 DEF MetaInv, Drained
<1>4. op = "append" /\ ~failed
  <2>1. Head(todo) = todo[1] /\ 1 \in 1 .. Len(todo)
    BY <1>1, <1>2, TailIs
  <2>2. op \notin {"open", "flush", "close"}
    BY <1>1, <2>1 DEF MetaInv, Scheduled, Persisting
  <2>3. op = "append"
    BY <1>1, <1>2, <2>2
  <2> QED
    BY <2>3 DEF MetaInv, Scheduled
<1>5. manifest # Absent
  BY <1>4 DEF MetaInv, Fresh
<1>6. /\ st = Scan(file, BaseOf(file, manifest, marker))
      /\ Told(st, Len(file), BaseOf(file, manifest, marker))
  BY <1>3, <1>4, Settles
<1>7. NeedsEviction(st, MaxEvents) /\ MaxEvents \in Nat
  BY <1>1, ProgramHead, LogAssumption DEF LogInv
<1>8. Evictable(st) > 0 /\ EvictedTurns(st, MaxEvents) \in 1 .. Len(st.entries)
  BY <1>1, PlannedCut
<1>9. EvictedTurns(st, MaxEvents) \in 1 .. Evictable(st)
  BY <1>2, <1>7, <1>8, EvictedTurnsExist
<1>10. Cut = st.entries[EvictedTurns(st, MaxEvents)].end
  BY DEF Cut, CutOffset
<1>11. Cut \in 0 .. Len(file)
  BY <1>1, PlannedCut
<1>12. Cut \in 1 .. Len(file)
  <2> DEFINE e == st.entries[EvictedTurns(st, MaxEvents)]
  <2>1. e.start < e.end
    BY <1>6, <1>8 DEF Told
  <2>2. e.start \in Nat
    <3>1. st.entries \in Seq(IndexEntries)
      BY <1>2 DEF LogStates
    <3>2. e \in IndexEntries
      BY <1>8, <3>1, ElementOfSeq
    <3> QED
      BY <3>2 DEF IndexEntries
  <2> HIDE DEF e
  <2>3. Cut = e.end
    BY <1>10 DEF e
  <2> QED
    BY <1>2, <1>11, <2>1, <2>2, <2>3
<1>13. /\ Remaining \in Seq(EventRecords) /\ Len(Remaining) = Len(file) - Cut
       /\ \A i \in 1 .. Len(file) - Cut : Remaining[i] = file[i + Cut]
  BY <1>2, <1>11, Halves DEF Remaining
<1>14. Len(Remaining) < Len(file) /\ Len(Remaining) \in Nat
  BY <1>2, <1>12, <1>13
<1> QED
  BY <1>2, <1>3, <1>4, <1>5, <1>6, <1>7, <1>8, <1>9, <1>10, <1>12, <1>13, <1>14

\* The marker of the rewrite is written.
LEMMA MetaMarker ==
    ASSUME LogInv, MetaInv, ~damaged, write_pending_cap_rewrite
    PROVE  MetaInv'
<1> DEFINE mk == PlannedMarker(st, file)
<1>1. /\ Step("write_marker") /\ Done /\ marker' = mk
      /\ UNCHANGED <<file, manifest, index, st, buffer, fileOpen, durableTurns, damaged>>
  BY DEF write_pending_cap_rewrite, historyVars, PlannedMarker, Remaining, Cut
<1>2. /\ op = "append" /\ op' = op /\ failed' = failed /\ ~failed /\ buffer = <<>>
      /\ Scheduled(op, todo', failed) /\ Clearing(todo')
      /\ Capped(op, todo', st) /\ todo # <<>> /\ Head(todo) = "write_marker" /\ todo' = Tail(todo)
      /\ todo' # <<>> => Head(todo') \notin {"write_manifest", "clear_marker"}
      /\ Drained(op, todo', <<>>)
  <2>1. "write_marker" \in Rewriting /\ "write_marker" \notin Persisting \cup {"clear_marker"}
    BY DEF Rewriting, Persisting
  <2> QED
    BY <1>1, <2>1, MetaNext
<1>3. /\ manifest # Absent /\ Len(Remaining) < Len(file) /\ Len(file) \in Nat /\ Len(Remaining) \in Nat
  BY <1>1, PlanFacts
<1>4. marker = Absent
  <2>1. todo \in Seq(Writes)
    BY MetaFacts
  <2>2. todo[1] = "write_marker" /\ 1 \in 1 .. Len(todo)
    BY <1>2, <2>1, TailIs
  <2> QED
    BY <1>2, <2>2 DEF MetaInv, Marked
<1>5. ~MarkerMatches(mk, Len(file)) /\ ~MarkerMatches(marker, Len(file))
  <2>1. mk.previousLen = Len(file)
    BY DEF PlannedMarker
  <2>2. ~MarkerMatches(marker, Len(file))
    BY <1>4 DEF MarkerMatches
  <2> HIDE DEF mk
  <2>3. ~MarkerMatches(mk, Len(file))
    BY <1>3, <2>1 DEF MarkerMatches
  <2> QED
    BY <2>2, <2>3
<1>6. BaseOf(file, manifest, mk) = BaseOf(file, manifest, marker)
  BY <1>5 DEF BaseOf
<1> HIDE DEF mk
<1>7. /\ Polite(file \o buffer) /\ Fits(file, manifest, index)
      /\ Tracks(op, st, file, buffer, manifest, marker, failed, fileOpen)
      /\ Numbers(file, buffer, BaseOf(file, manifest, marker), durableTurns)
  BY <1>3, <1>5 DEF MetaInv
<1>8. Tracks(op, st, file, buffer, manifest, mk, failed, fileOpen)
  BY <1>2, <1>6, <1>7 DEF Tracks
<1>9. Fresh(op, todo', file, buffer, manifest, index, mk)
  BY <1>3 DEF Fresh
<1>10. Written(todo', st, file, manifest, index, mk)
  BY <1>2 DEF Written, mk
<1>11. Marked(op, todo', buffer, mk, failed)
  <2>1. Program(todo, st)
    BY DEF LogInv
  <2>2. \A i \in 1 .. Len(Tail(todo)) : Tail(todo)[i] \notin {"write_marker", "summary_hook"}
    BY <1>2, <2>1, MarkerLast
  <2> QED
    BY <1>2, <2>2 DEF Marked
<1> QED
  BY <1>1, <1>2, <1>6, <1>7, <1>8, <1>9, <1>10, <1>11 DEF MetaInv

\* What is known of the file that the rewrite leaves.
LEMMA RewrittenMeta ==
    ASSUME LogInv, MetaInv, ~damaged, Step("replace_file"),
           NEW t, t = apply_cap_eviction(st, EvictedTurns(st, MaxEvents), Cut,
                                         ReadableCount(EvictedRecords), Len(Remaining))
    PROVE  /\ t = Scan(Remaining, BaseOf(Remaining, manifest, marker))
           /\ MarkerMatches(marker, Len(Remaining))
           /\ Polite(Remaining) /\ Remaining \o <<>> = Remaining
           /\ Numbers(Remaining, <<>>, BaseOf(Remaining, manifest, marker), durableTurns)
           /\ t.eventCount <= MaxEvents \/ Evictable(t) = 0
<1> DEFINE k == EvictedTurns(st, MaxEvents)
           g == Remaining
           base == BaseOf(file, manifest, marker)
           to == retained_turn_base_after_eviction(st, k)
<1>1. /\ buffer = <<>>
      /\ st = Scan(file, base) /\ Told(st, Len(file), base)
      /\ NeedsEviction(st, MaxEvents) /\ MaxEvents \in Nat /\ st \in LogStates
      /\ k \in 1 .. Evictable(st) /\ k \in 1 .. Len(st.entries)
      /\ Cut = st.entries[k].end
      /\ g \in Seq(EventRecords)
      /\ Cut \in 1 .. Len(file) /\ Len(file) \in Nat /\ Len(g) = Len(file) - Cut
      /\ Len(g) < Len(file) /\ Len(g) \in Nat
      /\ \A i \in 1 .. Len(g) : g[i] = file[i + Cut]
  BY PlanFacts
<1>2. /\ file \in Seq(EventRecords) /\ Whole(file) /\ base \in Nat \ {0} /\ file \o <<>> = file
      /\ marker = Absent \/ marker \in Markers
  BY MetaFacts
<1>3. g \o <<>> = g
  BY <1>1, ConcatEmptySeq
<1>4. marker = PlannedMarker(st, file)
  BY DEF Step, MetaInv, Written
<1>5. to \in Nat \ {0}
  BY <1>1, RetainedBaseType
<1>6. MarkerMatches(marker, Len(g)) /\ marker.base = to
  <2>1. /\ marker.previousLen = Len(file) /\ marker.newLen = Len(g) /\ marker.base = to
    BY <1>4 DEF PlannedMarker, Remaining, Cut
  <2>2. marker \in Markers
    <3>1. marker = [previousLen |-> Len(file), newLen |-> Len(g), base |-> to]
      BY <1>4 DEF PlannedMarker, Remaining, Cut
    <3> HIDE DEF g, to
    <3> QED
      BY <1>1, <1>5, <3>1 DEF Markers
  <2>3. marker # Absent
    BY <2>2, AbsentAssumption
  <2> HIDE DEF g, to
  <2> QED
    BY <1>1, <2>1, <2>3 DEF MarkerMatches
<1>7. BaseOf(g, manifest, marker) = to
  BY <1>6 DEF BaseOf
<1>8. ReadableCount(EvictedRecords) = Cut
  <2>1. Cut \in 0 .. Len(file)
    BY <1>1
  <2>2. Len(EvictedRecords) = Cut /\ Whole(EvictedRecords)
    BY <1>2, <2>1, Halves, WholeCut DEF EvictedRecords
  <2>3. Len(EvictedRecords) \in Nat
    BY <1>1, <2>2
  <2> QED
    BY <2>2, <2>3, CountWhole
<1>9. t = apply_cap_eviction(st, k, Cut, Cut, Len(g))
  BY <1>8
<1>10. Polite(file) /\ Numbers(file, <<>>, base, durableTurns)
  BY <1>1, <1>2 DEF MetaInv
<1>11. t = Scan(g, to)
  <2>1. g = SubSeq(file, Cut + 1, Len(file))
    BY DEF Remaining
  <2> HIDE DEF g, base, k
  <2>2. Evicted(file, base, st, k, Cut, g)
    BY <1>1, <1>2, <1>10, <2>1 DEF Evicted
  <2>3. Scan(g, to) = apply_cap_eviction(st, k, Cut, Cut, Len(g))
    BY <2>2, EvictionIsScan
  <2> QED
    BY <1>9, <2>3
<1>12. Polite(g)
  <2>1. Cut \in Nat
    BY <1>1
  <2> HIDE DEF g
  <2> QED
    BY <1>1, <1>10, <2>1, PoliteRest
<1>13. t.eventCount <= MaxEvents \/ Evictable(t) = 0
  <2>1. t = apply_cap_eviction(st, EvictedTurns(st, MaxEvents), CutOffset(st, MaxEvents),
                               CutOffset(st, MaxEvents), Len(g))
    BY <1>9 DEF Cut
  <2> QED
    BY <1>1, <2>1, EvictionCaps
<1>14. Numbers(g, <<>>, to, durableTurns)
  <2>1. t.turnCount = st.turnCount
    BY <1>1, <1>9 DEF apply_cap_eviction, LogStates
  <2>2. Scan(g, to).turnCount >= durableTurns
    BY <1>1, <1>10, <1>11, <2>1 DEF Numbers
  <2>3. Numbered(file, st)
    BY <1>1, <1>2, <1>10 DEF Numbers
  <2>4. \A i \in 1 .. Len(file) - Cut : g[i] = file[i + Cut]
    BY <1>1
  <2> HIDE DEF g, base, k
  <2>5. /\ Len(file) \in Nat /\ Told(st, Len(file), base) /\ k \in 1 .. Len(st.entries)
        /\ Cut = st.entries[k].end /\ Len(g) \in Nat
    BY <1>1
  <2>6. Numbered(g, apply_cap_eviction(st, k, Cut, Cut, Len(g)))
    BY ONLY <2>3, <2>4, <2>5, NumberedRest, Zenon
  <2> QED
    BY <1>3, <1>9, <1>11, <2>2, <2>6 DEF Numbers
<1> QED
  BY <1>3, <1>6, <1>7, <1>11, <1>12, <1>13, <1>14

\* The event file is replaced by its retained part.
LEMMA MetaReplace ==
    ASSUME LogInv, MetaInv, ~damaged, replace_event_file_contents
    PROVE  MetaInv'
<1> DEFINE g == Remaining
<1>1. /\ Step("replace_file") /\ Done /\ file' = g
      /\ st' = apply_cap_eviction(st, EvictedTurns(st, MaxEvents), Cut,
                                  ReadableCount(EvictedRecords), Len(Remaining))
      /\ UNCHANGED <<manifest, index, marker, buffer, fileOpen, durableTurns, damaged>>
  BY DEF replace_event_file_contents, historyVars
<1>2. /\ op = "append" /\ op' = op /\ failed' = failed /\ buffer = <<>>
      /\ Scheduled(op, todo', failed) /\ Marked(op, todo', buffer, marker, failed)
      /\ todo' # <<>> => Head(todo') \notin {"write_manifest", "clear_marker", "replace_file"}
      /\ Drained(op, todo', <<>>)
  <2>1. "replace_file" \in Rewriting /\ "replace_file" \notin Persisting \cup {"clear_marker"}
    BY DEF Rewriting, Persisting
  <2> QED
    BY <1>1, <2>1, MetaNext
<1>3. manifest # Absent
  BY <1>1, PlanFacts
<1>4. /\ st' = Scan(g, BaseOf(g, manifest, marker))
      /\ MarkerMatches(marker, Len(g)) /\ Polite(g) /\ g \o <<>> = g
      /\ Numbers(g, <<>>, BaseOf(g, manifest, marker), durableTurns)
      /\ st'.eventCount <= MaxEvents \/ Evictable(st') = 0
  BY <1>1, RewrittenMeta
<1> HIDE DEF g
<1>5. Tracks(op, st', g, <<>>, manifest, marker, failed, fileOpen)
  BY <1>4 DEF Tracks
<1>6. Fresh(op, todo', g, <<>>, manifest, index, marker) /\ Written(todo', st', g, manifest, index, marker)
  BY <1>2, <1>3 DEF Fresh, Written
<1>7. Capped(op, todo', st')
  BY <1>4 DEF Capped
<1>8. Polite(g \o <<>>)
  BY <1>4
<1> QED
  BY <1>1, <1>2, <1>4, <1>5, <1>6, <1>7, <1>8 DEF MetaInv

\* The rewrite fails before or behind its rename.
LEMMA MetaReplaceFails ==
    ASSUME LogInv, MetaInv, ~damaged, replace_event_file_contents_fails
    PROVE  MetaInv'
<1> DEFINE g == Remaining
<1>1. /\ Step("replace_file") /\ Fail
      /\ UNCHANGED <<manifest, index, marker, st, buffer, durableTurns, damaged>>
      /\ file' = file \/ (file' = g /\ fileOpen' = FALSE)
  BY DEF replace_event_file_contents_fails, historyVars
<1>2. /\ op = "append" /\ buffer = <<>> /\ manifest # Absent
      /\ st = Scan(file, BaseOf(file, manifest, marker))
  BY <1>1, PlanFacts
<1>3. op' = "idle" /\ todo' = <<>> /\ failed' = TRUE
  BY <1>1, <1>2 DEF Fail
<1>4. file \o <<>> = file /\ Len(<<>>) = 0
  BY MetaFacts
<1>5. /\ Scheduled("idle", <<>>, TRUE) /\ Drained("idle", <<>>, <<>>)
      /\ Capped("idle", <<>>, st) /\ Marked("idle", <<>>, <<>>, marker, TRUE)
  BY <1>4, Schemes DEF Scheduled, Drained, Capped, Marked
<1>6. \A f : /\ Fresh("idle", <<>>, f, <<>>, manifest, index, marker)
             /\ Written(<<>>, st, f, manifest, index, marker)
  BY <1>2 DEF Fresh, Written
<1>7. CASE file' = file
  <2>1. Tracks("idle", st, file, <<>>, manifest, marker, TRUE, fileOpen')
    BY <1>2, <1>4 DEF Tracks
  <2> QED
    BY <1>1, <1>2, <1>3, <1>5, <1>6, <1>7, <2>1 DEF MetaInv
<1>8. CASE file' = g /\ fileOpen' = FALSE
  <2>1. /\ MarkerMatches(marker, Len(g)) /\ Polite(g) /\ g \o <<>> = g
        /\ Numbers(g, <<>>, BaseOf(g, manifest, marker), durableTurns)
    BY <1>1, RewrittenMeta
  <2> HIDE DEF g
  <2>2. Tracks("idle", st, g, <<>>, manifest, marker, TRUE, FALSE)
    BY <2>1 DEF Tracks
  <2>3. Polite(g \o <<>>)
    BY <2>1
  <2> QED
    BY <1>1, <1>2, <1>3, <1>5, <1>6, <1>8, <2>1, <2>2, <2>3 DEF MetaInv
<1> QED
  BY <1>1, <1>7, <1>8

\* The marker is cleared.
LEMMA MetaClear ==
    ASSUME LogInv, MetaInv, ~damaged, clear_pending_cap_rewrite
    PROVE  MetaInv'
<1>1. /\ Step("clear_marker") /\ Done /\ marker' = Absent
      /\ UNCHANGED <<file, manifest, index, st, buffer, fileOpen, durableTurns, damaged>>
  BY DEF clear_pending_cap_rewrite, historyVars
<1>2. /\ op \notin {"down", "idle"} /\ op' = op /\ failed' = failed /\ ~failed /\ buffer = <<>>
      /\ todo # <<>> /\ Head(todo) = "clear_marker"
      /\ Scheduled(op, todo', failed) /\ Capped(op, todo', st)
      /\ todo' # <<>> => Head(todo') \notin {"write_manifest", "clear_marker", "replace_file"}
      /\ Drained(op, todo', <<>>)
  <2>1. "clear_marker" \notin Rewriting \cup {"enforce_event_cap"} /\ "clear_marker" \notin Persisting
    BY DEF Rewriting, Persisting
  <2> QED
    BY <1>1, <2>1, MetaNext
<1>3. /\ manifest # Absent /\ Fits(file, manifest, index) /\ manifest.base = BaseOf(file, manifest, marker)
  BY <1>2 DEF MetaInv, Written
<1>4. BaseOf(file, manifest, Absent) = BaseOf(file, manifest, marker) /\ ~MarkerMatches(Absent, Len(file))
  BY <1>3 DEF BaseOf, MarkerMatches
<1>5. /\ Polite(file \o buffer) /\ Numbers(file, buffer, BaseOf(file, manifest, marker), durableTurns)
      /\ Tracks(op, st, file, buffer, manifest, marker, failed, fileOpen)
  BY DEF MetaInv
<1>6. Tracks(op, st, file, buffer, manifest, Absent, failed, fileOpen)
  BY <1>2, <1>4, <1>5 DEF Tracks
<1>7. /\ Fresh(op, todo', file, buffer, manifest, index, Absent)
      /\ Written(todo', st, file, manifest, index, Absent) /\ Marked(op, todo', buffer, Absent, failed)
  BY <1>2, <1>3 DEF Fresh, Written, Marked
<1> QED
  BY <1>1, <1>2, <1>3, <1>4, <1>5, <1>6, <1>7 DEF MetaInv

\* Damage stays.
LEMMA DamageStays == LogInv /\ [Next]_vars /\ ~damaged' => ~damaged
<1> SUFFICES ASSUME LogInv, [Next]_vars, ~damaged' PROVE ~damaged
  OBVIOUS
<1>1. damaged => damaged'
  <2>1. CASE Open \/ flush \/ Drop \/ Return \/ (\E kind \in Kinds : append(kind))
    BY <2>1 DEF Open, flush, Drop, Return, append, historyVars
  <2>2. CASE Write
    BY <2>2 DEF Write, flush_write_buf, flush_write_buf_rolled_back, flush_write_buf_not_rolled_back,
                flush_write_buf_unsynced, write_turn_index, write_manifest, enforce_event_cap,
                summary_hook, write_pending_cap_rewrite, replace_event_file_contents,
                replace_event_file_contents_fails, clear_pending_cap_rewrite, WriteFails, historyVars
  <2>3. CASE Crash
    BY <2>3 DEF Crash
  <2>4. CASE UNCHANGED vars
    BY <2>4 DEF vars, historyVars
  <2> QED
    BY <2>1, <2>2, <2>3, <2>4 DEF Next
<1> QED
  BY <1>1

\* Every step keeps the metadata right.
LEMMA MetaStep == LogInv /\ MetaInv /\ [Next]_vars => MetaInv'
<1> SUFFICES ASSUME LogInv, MetaInv, [Next]_vars, ~damaged' PROVE MetaInv'
  BY DEF MetaInv
<1>1. ~damaged
  BY DamageStays
<1>2. CASE Open
  BY <1>1, <1>2, MetaOpen
<1>3. ASSUME NEW kind \in Kinds, append(kind) PROVE MetaInv'
  BY <1>1, <1>3, MetaAppend
<1>4. CASE flush \/ Drop
  BY <1>1, <1>4, MetaFlush
<1>5. CASE Return
  BY <1>1, <1>5, MetaReturn
<1>6. CASE Crash
  BY <1>1, <1>6, MetaCrash
<1>7. CASE Write
  <2>1. CASE flush_write_buf
    BY <1>1, <2>1, MetaFlushWrite
  <2>2. CASE \/ flush_write_buf_rolled_back \/ flush_write_buf_not_rolled_back
             \/ flush_write_buf_unsynced \/ WriteFails
    BY <1>1, <2>2, MetaWriteFails
  <2>3. CASE write_turn_index
    BY <1>1, <2>3, MetaIndex
  <2>4. CASE write_manifest
    BY <1>1, <2>4, MetaManifest
  <2>5. CASE enforce_event_cap
    BY <1>1, <2>5, MetaPlan
  <2>6. CASE summary_hook
    BY <1>1, <2>6, MetaSummary
  <2>7. CASE write_pending_cap_rewrite
    BY <1>1, <2>7, MetaMarker
  <2>8. CASE replace_event_file_contents
    BY <1>1, <2>8, MetaReplace
  <2>9. CASE replace_event_file_contents_fails
    BY <1>1, <2>9, MetaReplaceFails
  <2>10. CASE clear_pending_cap_rewrite
    BY <1>1, <2>10, MetaClear
  <2> QED
    BY <1>7, <2>1, <2>2, <2>3, <2>4, <2>5, <2>6, <2>7, <2>8, <2>9, <2>10 DEF Write
<1>8. CASE UNCHANGED vars
  <2>1. UNCHANGED <<file, manifest, index, marker, op, todo, st, buffer, fileOpen, failed,
                    durableTurns, damaged>>
    BY <1>8 DEF vars, diskVars, historyVars
  <2> QED
    BY <1>1, <2>1 DEF MetaInv
<1> QED
  BY <1>2, <1>3, <1>4, <1>5, <1>6, <1>7, <1>8 DEF Next

\* The metadata is right in every reachable state.
LEMMA MetaInvariant == Spec => [](LogInv /\ MetaInv)
<1>1. Init => LogInv /\ MetaInv
  BY LogInit, MetaInit
<1>2. LogInv /\ MetaInv /\ [Next]_vars => (LogInv /\ MetaInv)'
  BY LogStep, MetaStep
<1> QED
  BY <1>1, <1>2, PTL DEF Spec

\* The turn index and the counters that append maintains, through every eviction,
\* every failed write and every recovery, are those that a scan of the event file
\* and the buffer would find (append, flush_write_buf, apply_cap_eviction).
THEOREM LiveIsScan == Spec => []LiveMatchesScan
<1>1. LogInv /\ MetaInv => LiveMatchesScan
  <2>1. SUFFICES ASSUME LogInv, MetaInv, Settled PROVE st = Scan(file \o buffer, st.base)
    BY DEF LiveMatchesScan
  <2>2. op # "down" /\ fileOpen /\ ~damaged
    BY <2>1 DEF Settled
  <2> DEFINE base == BaseOf(file, manifest, marker)
             c == file \o buffer
  <2>3. st = Scan(c, base)
    BY <2>1, <2>2 DEF MetaInv, Tracks
  <2>4. Whole(c) /\ c \in Seq(EventRecords) /\ base \in Nat \ {0}
    BY <2>1, <2>2, MetaFacts
  <2> HIDE DEF c, base
  <2>5. Len(c) \in Nat
    BY <2>4, LenProperties
  <2>6. Told(Scan(c, base), Len(c), base)
    BY <2>4, <2>5, ScanTold
  <2>7. st.base = base
    BY <2>3, <2>6 DEF Told
  <2> QED
    BY <2>3, <2>7 DEF c
<1> QED
  BY <1>1, MetaInvariant, PTL

\* Wherever the process dies, metadata that open trusts without a scan (the fast path
\* of open_with_eviction_summary) tells what a scan of the event file would tell.
THEOREM FastPathExact == Spec => []FastPathIsExact
<1>1. LogInv /\ MetaInv => FastPathIsExact
  <2>1. SUFFICES ASSUME LogInv, MetaInv, ~damaged, FastPath(manifest, index, marker, Len(file))
                 PROVE  LoadPersisted(manifest, index, Len(file))
                          = Scan(file, infer_scan_turn_base(manifest, index, marker, Len(file)))
    BY DEF FastPathIsExact
  <2> QED
    BY <2>1, RecoveredIsScan, MetaFacts
<1> QED
  BY <1>1, MetaInvariant, PTL

\* Wherever the process dies, also within a cap rewrite, the next open finds every
\* turn under the number it was given when it started, and gives out no number of a
\* turn that was completed and synced (infer_scan_turn_base and its marker).
THEOREM TurnNumbersKept == Spec => []RecoveryKeepsTurnNumbers
<1>1. LogInv /\ MetaInv => RecoveryKeepsTurnNumbers
  <2>1. SUFFICES ASSUME LogInv, MetaInv, ~damaged
                 PROVE  /\ RecoveredNow.turnCount >= durableTurns
                        /\ \A i \in 1 .. Len(RecoveredNow.entries) :
                              LET entry == RecoveredNow.entries[i]
                              IN  file[entry.start + 1].turn = entry.turn
    BY DEF RecoveryKeepsTurnNumbers
  <2> DEFINE base == BaseOf(file, manifest, marker)
             s == Scan(file, base)
  <2>2. RecoveredNow = s
    BY <2>1, RecoveredIsScan DEF RecoveredNow
  <2>3. /\ Begins(file, file \o buffer) /\ Whole(file \o buffer) /\ base \in Nat \ {0}
    BY <2>1, MetaFacts
  <2>4. s.turnCount >= durableTurns /\ Numbered(file \o buffer, Scan(file \o buffer, base))
    BY <2>1 DEF MetaInv, Numbers
  <2>5. Numbered(file, s)
    BY <2>3, <2>4, NumberedBeginning
  <2> QED
    BY <2>2, <2>4, <2>5 DEF Numbered
<1> QED
  BY <1>1, MetaInvariant, PTL

\* Behind a successful append the log is within its cap, or only the active turn and
\* events outside any turn are left (enforce_event_cap and plan_cap_eviction).
THEOREM WithinCap == Spec => []CapHolds
<1>1. LogInv /\ MetaInv => CapHolds
  <2>1. SUFFICES ASSUME MetaInv, op = "append", todo = <<>>, ~damaged, MaxEvents # 0
                 PROVE  st.eventCount <= MaxEvents \/ Evictable(st) = 0
    BY DEF CapHolds
  <2>2. Capped(op, <<>>, st) /\ Len(<<>>) = 0
    BY <2>1 DEF MetaInv
  <2> QED
    BY <2>1, <2>2 DEF Capped
<1> QED
  BY <1>1, MetaInvariant, PTL

-------------------------------------------------------------------------------
(* When a number names one turn *)

\* No turn starts before the one that was started last has ended.
TurnsApart(f) ==
    \A i, j \in 1 .. Len(f) :
        i < j /\ f[i].kind = "turnStarted" /\ f[j].kind = "turnStarted" =>
            \E k \in i + 1 .. j - 1 : f[k].kind = "turnEnded"

\* The entries of a scan carry rising numbers, those of the ended turns no higher than the
\* turn count, and an open turn has begun and not ended.
Rising(f, s, m) ==
    /\ \A i, j \in 1 .. Len(s.entries) : i < j => s.entries[i].turn < s.entries[j].turn
    /\ \A j \in 1 .. Len(s.entries) :
          s.entries[j].turn <= s.turnCount \/ (s.inTurn /\ j = Len(s.entries))
    /\ s.inTurn =>
          \E p \in 1 .. m : /\ f[p].kind = "turnStarted"
                            /\ \A q \in p + 1 .. m : f[q].kind # "turnEnded"

LEMMA VisitedRising ==
    ASSUME NEW f, Len(f) \in Nat, TurnsApart(f), NEW from \in Nat \ {0}, NEW a, Visited(f, from, a)
    PROVE  \A m \in 0 .. Len(f) : Rising(f, a[m], m)
<1> DEFINE S == {m \in Nat : m <= Len(f) => Rising(f, a[m], m)}
<1>1. 0 \in S
  <2>1. a[0].entries = <<>> /\ a[0].inTurn = FALSE
    BY DEF Visited, ScanStart
  <2>2. Len(<<>>) = 0
    OBVIOUS
  <2> QED
    BY <2>1, <2>2 DEF Rising
<1>2. ASSUME NEW m \in S PROVE m + 1 \in S
  <2> DEFINE s == a[m]
             v == a[m + 1]
             kind == f[m + 1].kind
             es == Applied(s, kind, m, m + 1).entries
             n == Len(s.entries)
  <2>1. SUFFICES ASSUME m + 1 <= Len(f) PROVE Rising(f, v, m + 1)
    OBVIOUS
  <2>2. m \in 0 .. Len(f) - 1 /\ m \in 0 .. Len(f) /\ m \in Nat /\ Rising(f, s, m) /\ m + 1 \in 1 .. Len(f)
    BY <2>1
  <2>3. v = Visit(s, kind, m + 1)
    BY <2>2 DEF Visited
  <2>4. Sound(s, m, from)
    BY <2>2, VisitedSound
  <2>5. /\ s \in LogStates /\ n \in Nat /\ s.turnCount \in Nat /\ s.inTurn \in BOOLEAN
        /\ \A j \in 1 .. n : s.entries[j].turn \in Nat
        /\ s.inTurn => n > 0 /\ s.entries # <<>> /\ s.entries[n].turn = s.turnCount + 1
    BY <2>4, EntriesType DEF Sound, LogStates, LastEntry
  <2>6. v = [Applied(s, kind, m, m + 1) EXCEPT !.eventCount = s.eventCount + 1]
    <3> HIDE DEF kind, s
    <3> QED
      BY <2>2, <2>3, <2>5, VisitIs
  <2>7. /\ v.entries = es
        /\ v.inTurn = (kind = "turnStarted" \/ (s.inTurn /\ kind # "turnEnded"))
        /\ v.turnCount = IF Working(s, kind) /\ kind = "turnEnded"
                           THEN AtLeast(s.turnCount, LastEntry(s).turn) ELSE s.turnCount
    BY <2>6 DEF Applied
  <2>8. EntriesAfter(s, kind, m, m + 1, es, n)
    BY <2>5, AppliedEntries
  <2>9. kind = f[m + 1].kind /\ n = Len(s.entries)
    OBVIOUS
  <2> HIDE DEF s, v, kind, es, n, S
  <2>10. CASE kind = "turnStarted"
    <3>1. ~ s.inTurn
      <4>1. SUFFICES ASSUME s.inTurn PROVE FALSE
        OBVIOUS
      <4>2. PICK p \in 1 .. m : /\ f[p].kind = "turnStarted"
                                /\ \A q \in p + 1 .. m : f[q].kind # "turnEnded"
        BY <2>2, <4>1 DEF Rising
      <4>3. p \in 1 .. Len(f) /\ p < m + 1 /\ (m + 1) - 1 = m
        BY <2>2
      <4>4. \E k \in p + 1 .. m : f[k].kind = "turnEnded"
        BY <2>2, <2>9, <2>10, <4>2, <4>3 DEF TurnsApart
      <4> QED
        BY <4>2, <4>4
    <3>2. /\ Len(es) = n + 1 /\ \A j \in 1 .. n : es[j] = s.entries[j]
          /\ es[n + 1].turn = s.turnCount + 1
      BY <2>8, <2>10 DEF EntriesAfter, Begun
    <3>3. v.turnCount = s.turnCount /\ v.inTurn
      BY <2>7, <2>10 DEF Working
    <3>4. \A j \in 1 .. n : s.entries[j].turn <= s.turnCount
      BY <2>2, <2>9, <3>1 DEF Rising
    <3>5. \A i, j \in 1 .. n : i < j => s.entries[i].turn < s.entries[j].turn
      BY <2>2, <2>9 DEF Rising
    <3>6. ASSUME NEW i \in 1 .. n + 1, NEW j \in 1 .. n + 1, i < j PROVE es[i].turn < es[j].turn
      <4>1. i \in 1 .. n /\ (j \in 1 .. n \/ j = n + 1)
        BY <2>5, <3>6
      <4> QED
        BY <2>5, <3>2, <3>4, <3>5, <3>6, <4>1
    <3>7. ASSUME NEW j \in 1 .. n + 1 PROVE es[j].turn <= s.turnCount \/ j = n + 1
      <4>1. j \in 1 .. n \/ j = n + 1
        BY <2>5
      <4> QED
        BY <3>2, <3>4, <4>1
    <3>8. m + 1 \in 1 .. m + 1 /\ f[m + 1].kind = "turnStarted"
          /\ \A q \in (m + 1) + 1 .. m + 1 : f[q].kind # "turnEnded"
      BY <2>2, <2>9, <2>10
    <3> QED
      BY <2>7, <3>2, <3>3, <3>6, <3>7, <3>8 DEF Rising
  <2>11. CASE kind # "turnStarted"
    <3>1. Len(es) = n /\ \A j \in 1 .. n : es[j].turn = s.entries[j].turn
      <4>1. CASE Working(s, kind)
        <5>1. /\ Len(es) = n /\ n > 0 /\ es[n] = Extended(s.entries[n], m + 1)
              /\ \A j \in 1 .. n - 1 : es[j] = s.entries[j]
          BY <2>8, <4>1 DEF EntriesAfter
        <5>2. s.entries[n] \in IndexEntries
          BY <2>5, <2>9, <5>1, EntriesType
        <5>3. es[n].turn = s.entries[n].turn
          BY <5>1, <5>2 DEF Extended, IndexEntries
        <5>4. \A j \in 1 .. n : j \in 1 .. n - 1 \/ j = n
          BY <2>5
        <5> QED
          BY <5>1, <5>3, <5>4
      <4>2. CASE ~ Working(s, kind)
        BY <2>8, <2>9, <2>11, <4>2 DEF EntriesAfter
      <4> QED
        BY <4>1, <4>2
    <3>2. \A i, j \in 1 .. n : i < j => es[i].turn < es[j].turn
      BY <2>2, <2>9, <3>1 DEF Rising
    <3>3. v.inTurn = (s.inTurn /\ kind # "turnEnded")
      BY <2>7, <2>11
    <3>4. \A j \in 1 .. n : s.entries[j].turn <= s.turnCount \/ (s.inTurn /\ j = n)
      BY <2>2, <2>9 DEF Rising
    <3>5. \A j \in 1 .. n : es[j].turn <= v.turnCount \/ (v.inTurn /\ j = n)
      <4>1. CASE s.inTurn /\ kind = "turnEnded"
        <5>1. Working(s, kind)
          BY <2>5, <4>1 DEF Working
        <5>2. v.turnCount = AtLeast(s.turnCount, s.entries[n].turn)
          BY <2>7, <2>9, <4>1, <5>1 DEF LastEntry
        <5>3. v.turnCount = s.turnCount + 1
          BY <2>5, <4>1, <5>2 DEF AtLeast
        <5>4. \A j \in 1 .. n : s.entries[j].turn <= s.turnCount + 1
          BY <2>5, <3>4, <4>1
        <5> QED
          BY <3>1, <5>3, <5>4
      <4>2. CASE ~ (s.inTurn /\ kind = "turnEnded")
        <5>1. v.turnCount = s.turnCount
          BY <2>7, <4>2 DEF Working
        <5> QED
          BY <3>1, <3>3, <3>4, <4>2, <5>1
      <4> QED
        BY <4>1, <4>2
    <3>6. ASSUME v.inTurn
          PROVE  \E p \in 1 .. m + 1 : /\ f[p].kind = "turnStarted"
                                       /\ \A q \in p + 1 .. m + 1 : f[q].kind # "turnEnded"
      <4>1. PICK p \in 1 .. m : /\ f[p].kind = "turnStarted"
                                /\ \A q \in p + 1 .. m : f[q].kind # "turnEnded"
        BY <2>2, <3>3, <3>6 DEF Rising
      <4>2. p \in 1 .. m + 1 /\ \A q \in p + 1 .. m + 1 : q \in p + 1 .. m \/ q = m + 1
        BY <2>2
      <4> QED
        BY <2>9, <3>3, <3>6, <4>1, <4>2
    <3> QED
      BY <2>7, <3>1, <3>2, <3>5, <3>6 DEF Rising
  <2> QED
    BY <2>10, <2>11
<1>3. S = Nat
  <2> HIDE DEF S
  <2>1. S \in SUBSET Nat
    BY DEF S
  <2> QED
    BY <1>1, <1>2, <2>1, EveryNatural
<1> QED
  BY <1>3

\* Looking a turn up by its number is exact wherever no turn was started while another
\* one was open, through evictions, failed writes and recoveries: a turn.started behind
\* a turn without an end is all that gives a number twice (read_turn_events, EndTurn).
THEOREM ApartTurnsAreDistinct ==
    Spec => [](Settled /\ TurnsApart(file \o buffer) => ReconstructsEveryTurn)
<1>1. LogInv /\ MetaInv /\ LiveMatchesScan =>
        (Settled /\ TurnsApart(file \o buffer) => ReconstructsEveryTurn)
  <2>1. SUFFICES ASSUME LogInv, MetaInv, LiveMatchesScan, Settled, TurnsApart(file \o buffer)
                 PROVE  \A i, j \in 1 .. Len(st.entries) :
                            st.entries[i].turn = st.entries[j].turn => i = j
    BY DEF ReconstructsEveryTurn
  <2> DEFINE c == file \o buffer
             base == st.base
  <2>2. st = Scan(c, base)
    BY <2>1 DEF LiveMatchesScan
  <2>3. Whole(c) /\ c \in Seq(EventRecords) /\ st \in LogStates
    BY <2>1, MetaFacts DEF Settled
  <2>4. base \in Nat \ {0}
    BY <2>3 DEF LogStates
  <2>5. TurnsApart(c)
    BY <2>1
  <2> HIDE DEF c, base
  <2>6. Len(c) \in Nat
    BY <2>3, LenProperties
  <2>7. PICK a : Visited(c, base, a)
    BY <2>3, <2>4, <2>6, VisitedExists
  <2>8. Scan(c, base) = [a[Len(c)] EXCEPT !.offset = Len(c)]
    BY <2>3, <2>4, <2>6, <2>7, ScanIsVisited
  <2>9. Len(c) \in 0 .. Len(c)
    BY <2>6
  <2>10. Rising(c, a[Len(c)], Len(c)) /\ a[Len(c)] \in LogStates
    BY <2>4, <2>5, <2>6, <2>7, <2>9, VisitedRising DEF Visited
  <2>11. st.entries = a[Len(c)].entries
    BY <2>2, <2>8, <2>10 DEF LogStates
  <2>12. Len(st.entries) \in Nat /\ \A j \in 1 .. Len(st.entries) : st.entries[j].turn \in Nat
    BY <2>3, EntriesType
  <2>13. \A i, j \in 1 .. Len(st.entries) : i < j => st.entries[i].turn < st.entries[j].turn
    BY <2>10, <2>11 DEF Rising
  <2> QED
    BY <2>12, <2>13
<1> QED
  BY <1>1, MetaInvariant, LiveIsScan, PTL
================================================================================
