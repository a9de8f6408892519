------------------------ MODULE SessionStoreSinkProofs ------------------------
(***************************************************************************)
(* Proofs about SessionStoreSink, for every set of events and emitters,    *)
(* every capacity, budget and cost.  The inductive invariant is SinkInv:   *)
(* it says where the accepted events are at each stage of the drain.       *)
(* BudgetInv is the one behind the byte budget: it needs what the sums of  *)
(* BudgetIsExact are, which is proved by induction over a set of naturals  *)
(* (EveryNatural).                                                         *)
(***************************************************************************)
EXTENDS SessionStoreSink, SequenceTheorems, FiniteSetTheorems, WellFoundedInduction, TLAPS

-------------------------------------------------------------------------------
(* Facts about sequences *)

\* A send appends to the accepted events and to the channel alike.
LEMMA AppendToConcat ==
    ASSUME NEW s \in Seq(Events), NEW t \in Seq(Events), NEW e \in Events
    PROVE  Append(s \o t, e) = s \o Append(t, e)
<1>1. Append(s \o t, e) = (s \o t) \o <<e>>
  BY ConcatProperties, AppendIsConcat
<1>2. (s \o t) \o <<e>> = s \o (t \o <<e>>)
  BY ConcatAssociative
<1>3. t \o <<e>> = Append(t, e)
  BY AppendIsConcat
<1> QED
  BY <1>1, <1>2, <1>3

\* A receive moves the head of the channel into the drain's hand.
LEMMA HeadMoves ==
    ASSUME NEW s \in Seq(Events), NEW t \in Seq(Events), t # <<>>
    PROVE  s \o t = Append(s, Head(t)) \o Tail(t)
<1> DEFINE u == Append(s, Head(t)) \o Tail(t)
<1>1. /\ Head(t) \in Events /\ Tail(t) \in Seq(Events) /\ Len(Tail(t)) = Len(t) - 1
      /\ \A i \in 1 .. Len(Tail(t)) : Tail(t)[i] = t[i + 1]
  BY HeadTailProperties
<1>2. /\ Append(s, Head(t)) \in Seq(Events)
      /\ Len(Append(s, Head(t))) = Len(s) + 1
      /\ \A i \in 1 .. Len(s) : Append(s, Head(t))[i] = s[i]
      /\ Append(s, Head(t))[Len(s) + 1] = Head(t)
  BY <1>1, AppendProperties
<1>3. /\ u \in Seq(Events) /\ Len(u) = Len(s) + 1 + (Len(t) - 1)
      /\ \A i \in 1 .. Len(s) + 1 + (Len(t) - 1) :
            u[i] = IF i <= Len(s) + 1 THEN Append(s, Head(t))[i] ELSE Tail(t)[i - (Len(s) + 1)]
  BY <1>1, <1>2, ConcatProperties
<1>4. /\ s \o t \in Seq(Events) /\ Len(s \o t) = Len(s) + Len(t)
      /\ \A i \in 1 .. Len(s) + Len(t) :
            (s \o t)[i] = IF i <= Len(s) THEN s[i] ELSE t[i - Len(s)]
  BY ConcatProperties
<1>5. Len(s) \in Nat /\ Len(t) \in Nat \ {0} /\ Head(t) = t[1]
  BY EmptySeq, LenProperties
<1>6. ASSUME NEW i \in 1 .. Len(s) + Len(t) PROVE (s \o t)[i] = u[i]
  <2>1. CASE i <= Len(s)
    BY <2>1, <1>2, <1>3, <1>4, <1>5
  <2>2. CASE i = Len(s) + 1
    BY <2>2, <1>2, <1>3, <1>4, <1>5
  <2>3. CASE i > Len(s) + 1
    <3>1. i - (Len(s) + 1) \in 1 .. Len(Tail(t))
      BY <2>3, <1>1, <1>5
    <3> QED
      BY <2>3, <3>1, <1>1, <1>3, <1>4, <1>5
  <2> QED
    BY <2>1, <2>2, <2>3, <1>5
<1>7. Len(s \o t) = Len(u)
  BY <1>3, <1>4, <1>5
<1> QED
  BY <1>3, <1>4, <1>6, <1>7, SeqEqual

\* The stored events start any sequence that continues them.
LEMMA ConcatHasPrefix ==
    ASSUME NEW S, NEW s \in Seq(S), NEW t \in Seq(S)
    PROVE  PrefixOf(s, s \o t)
<1>1. /\ s \o t \in Seq(S) /\ Len(s \o t) = Len(s) + Len(t)
      /\ \A i \in 1 .. Len(s) : (s \o t)[i] = s[i]
  BY ConcatProperties, LenProperties
<1>2. Len(s) \in Nat /\ Len(t) \in Nat /\ \A i \in 1 .. Len(s) : s[i] \in S
  BY LenProperties, ElementOfSeq
<1>3. /\ SubSeq(s \o t, 1, Len(s)) \in Seq(S)
      /\ Len(SubSeq(s \o t, 1, Len(s))) = Len(s)
      /\ \A i \in 1 .. Len(s) : SubSeq(s \o t, 1, Len(s))[i] = (s \o t)[i]
  BY <1>1, <1>2, SubSeqProperties
<1>4. s = SubSeq(s \o t, 1, Len(s))
  BY <1>1, <1>3, SeqEqual
<1> QED
  BY <1>1, <1>2, <1>4 DEF PrefixOf

\* A failing append or flush may only shorten the stored events.
LEMMA PrefixOfPrefix ==
    ASSUME NEW S, NEW s \in Seq(S), NEW t \in Seq(S), PrefixOf(s, t),
           NEW k \in 0 .. Len(s)
    PROVE  SubSeq(s, 1, k) \in Seq(S) /\ Len(SubSeq(s, 1, k)) = k
           /\ PrefixOf(SubSeq(s, 1, k), t)
<1>1. /\ Len(s) \in Nat /\ Len(t) \in Nat
      /\ \A i \in 1 .. Len(s) : s[i] \in S
      /\ \A i \in 1 .. Len(t) : t[i] \in S
  BY LenProperties, ElementOfSeq
<1>2. Len(s) <= Len(t) /\ s = SubSeq(t, 1, Len(s))
  BY DEF PrefixOf
<1>3. /\ SubSeq(s, 1, k) \in Seq(S) /\ Len(SubSeq(s, 1, k)) = k
      /\ \A i \in 1 .. k : SubSeq(s, 1, k)[i] = s[i]
  BY <1>1, SubSeqProperties
<1>4. /\ SubSeq(t, 1, k) \in Seq(S) /\ Len(SubSeq(t, 1, k)) = k
      /\ \A i \in 1 .. k : SubSeq(t, 1, k)[i] = t[i]
  BY <1>1, <1>2, SubSeqProperties
<1>5. \A i \in 1 .. Len(s) : s[i] = t[i]
  BY <1>1, <1>2, SubSeqProperties
<1>6. \A i \in 1 .. k : SubSeq(s, 1, k)[i] = SubSeq(t, 1, k)[i]
  BY <1>1, <1>3, <1>4, <1>5
<1>7. SubSeq(s, 1, k) = SubSeq(t, 1, k)
  BY <1>3, <1>4, <1>6, SeqEqual
<1> QED
  BY <1>1, <1>2, <1>3, <1>7 DEF PrefixOf

\* Accepting one more event keeps what is stored a prefix.
LEMMA PrefixOfAppend ==
    ASSUME NEW S, NEW s \in Seq(S), NEW t \in Seq(S), PrefixOf(s, t), NEW e \in S
    PROVE  PrefixOf(s, Append(t, e))
<1>1. PrefixOf(t, Append(t, e))
  <2>1. Append(t, e) = t \o <<e>> /\ <<e>> \in Seq(S)
    BY AppendIsConcat
  <2> QED
    BY <2>1, ConcatHasPrefix
<1>2. /\ Append(t, e) \in Seq(S) /\ Len(Append(t, e)) = Len(t) + 1
      /\ Len(s) \in Nat /\ Len(t) \in Nat
  BY AppendProperties, LenProperties
<1>3. Len(s) \in 0 .. Len(t) /\ s = SubSeq(t, 1, Len(s))
  BY <1>2 DEF PrefixOf
<1> QED
  BY <1>1, <1>2, <1>3, PrefixOfPrefix

-------------------------------------------------------------------------------
(* Type correctness *)

\* A sink that has just been opened is well typed.
LEMMA TypeInit == Init => TypeOK
<1> SUFFICES ASSUME Init PROVE TypeOK
  OBVIOUS
<1>1. <<>> \in Seq(Events) /\ Len(<<>>) = 0
  BY EmptySeq
<1>2. StoreTypeOK
  BY <1>1 DEF Init, StoreInit, StoreTypeOK
<1>3. sender \in BOOLEAN /\ failed \in BOOLEAN
  BY Zenon DEF Init
<1>4. \A p \in Emitters : pc[p] = "idle"
  BY DEF Init
<1> QED
  BY <1>1, <1>2, <1>3, <1>4 DEF Init, TypeOK

\* No step of an emitter, of the drain or of close leaves the types.
LEMMA TypeStep == TypeOK /\ [Next]_vars => TypeOK'
<1> SUFFICES ASSUME TypeOK, [Next]_vars PROVE TypeOK'
  OBVIOUS
<1> USE SinkAssumption DEF TypeOK, StoreTypeOK
<1>1. ASSUME NEW p \in Emitters, NEW e \in Events, RefuseFailed(p, e) PROVE TypeOK'
  BY <1>1 DEF RefuseFailed, storeVars
<1>2. ASSUME NEW p \in Emitters, NEW e \in Events, CheckHealth(p, e) PROVE TypeOK'
  BY <1>2 DEF CheckHealth, storeVars
<1>3. ASSUME NEW p \in Emitters, RefuseOversize(p) PROVE TypeOK'
  BY <1>3 DEF RefuseOversize, Refuse, storeVars
<1>4. ASSUME NEW p \in Emitters, Reserve(p) PROVE TypeOK'
  <2>1. holding[p] \in Events /\ Cost[holding[p]] \in Nat
    BY <1>4 DEF Reserve
  <2>2. reservedBytes' \in Int
    BY <1>4, <2>1 DEF Reserve
  <2>3. \/ pc' = [pc EXCEPT ![p] = "reserved"]
        \/ pc' = [pc EXCEPT ![p] = "overBudget"]
    BY <1>4 DEF Reserve
  <2>4. pc' \in [Emitters -> {"idle", "checked", "overBudget", "reserved"}]
    BY <2>3
  <2>5. \A q \in Emitters : pc'[q] # "idle" => holding[q] \in Events
    BY <2>1, <2>3
  <2> QED
    BY <1>4, <2>2, <2>4, <2>5 DEF Reserve, storeVars
<1>5. ASSUME NEW p \in Emitters, RefuseOverBudget(p) PROVE TypeOK'
  BY <1>5 DEF RefuseOverBudget, Refuse, storeVars
<1>6. ASSUME NEW p \in Emitters, Send(p) PROVE TypeOK'
  BY <1>6 DEF Send, storeVars
<1>7. ASSUME NEW p \in Emitters, RefuseSend(p) PROVE TypeOK'
  BY <1>7 DEF RefuseSend, Refuse, storeVars
<1>8. CASE Receive
  BY <1>8, HeadTailProperties DEF Receive, storeVars
<1>9. CASE ReceiveClosed
  BY <1>9 DEF ReceiveClosed, storeVars
<1>10. CASE DrainAppend
  BY <1>10, AppendProperties DEF DrainAppend, AppendOk
<1>11. CASE ReleaseBytes
  BY <1>11 DEF ReleaseBytes, storeVars
<1>12. CASE DrainAppendFails
  <2>1. PICK kept \in durable .. Len(stored) + 1 :
            stored' = SubSeq(Append(stored, inflight), 1, kept)
    BY <1>12 DEF DrainAppendFails, AppendErr
  <2>2. /\ inflight \in Events /\ Append(stored, inflight) \in Seq(Events)
        /\ Len(Append(stored, inflight)) = Len(stored) + 1 /\ Len(stored) \in Nat
    BY <1>12, AppendProperties, LenProperties DEF DrainAppendFails
  <2>3. kept \in Nat /\ \A i \in 1 .. kept : Append(stored, inflight)[i] \in Events
    BY <2>2, ElementOfSeq
  <2>4. stored' \in Seq(Events) /\ Len(stored') = kept
    BY <2>1, <2>2, <2>3, SubSeqProperties
  <2>5. durable' \in Nat /\ durable' <= Len(stored')
    BY <1>12, <2>3, <2>4 DEF DrainAppendFails, AppendErr
  <2>6. intact' \in BOOLEAN
    BY <1>12, Zenon DEF DrainAppendFails, AppendErr
  <2>7. StoreTypeOK'
    BY <2>4, <2>5, <2>6
  <2>8. Cost[inflight] \in Nat /\ reservedBytes' \in Int
    BY <1>12, <2>2 DEF DrainAppendFails
  <2>9. failed' \in BOOLEAN /\ drain' = "discard" /\ inflight' = NoEvent
    BY <1>12, Zenon DEF DrainAppendFails
  <2>10. UNCHANGED <<sender, queue, pc, holding, closing, accepted, refused, refusedBefore>>
    BY <1>12 DEF DrainAppendFails
  <2> QED
    BY <2>7, <2>8, <2>9, <2>10
<1>13. CASE Discard
  <2>1. CASE queue = <<>>
    BY <1>13, <2>1 DEF Discard, storeVars
  <2>2. CASE queue # <<>>
    <3>1. Head(queue) \in Events /\ Tail(queue) \in Seq(Events)
      BY <2>2, HeadTailProperties
    <3>2. Cost[Head(queue)] \in Nat /\ reservedBytes' \in Int
      BY <1>13, <2>2, <3>1 DEF Discard
    <3> QED
      BY <1>13, <2>2, <3>1, <3>2 DEF Discard, storeVars
  <2> QED
    BY <2>1, <2>2
<1>14. CASE DrainFlush
  <2>1. ASSUME FlushOk PROVE StoreTypeOK'
    BY <2>1, LenProperties DEF FlushOk
  <2>2. ASSUME FlushErr PROVE StoreTypeOK'
    <3>1. PICK kept \in durable .. Len(stored) : stored' = SubSeq(stored, 1, kept)
      BY <2>2 DEF FlushErr
    <3>2. Len(stored) \in Nat /\ \A i \in 1 .. kept : stored[i] \in Events
      BY <3>1, LenProperties, ElementOfSeq
    <3>3. stored' \in Seq(Events) /\ Len(stored') = kept
      BY <3>1, <3>2, SubSeqProperties
    <3>4. intact' \in BOOLEAN
      BY <2>2, Zenon DEF FlushErr
    <3> QED
      BY <2>2, <3>2, <3>3, <3>4 DEF FlushErr
  <2>3. StoreTypeOK' /\ failed' \in BOOLEAN
    BY <1>14, <2>1, <2>2 DEF DrainFlush
  <2> QED
    BY <1>14, <2>3 DEF DrainFlush
<1>15. CASE BeginClose
  BY <1>15 DEF BeginClose, storeVars
<1>16. CASE EndClose
  BY <1>16 DEF EndClose, storeVars
<1>17. CASE DropSink
  BY <1>17 DEF DropSink, storeVars
<1>18. CASE UNCHANGED vars
  BY <1>18 DEF vars, sinkVars, storeVars
<1> QED
  BY <1>1, <1>2, <1>3, <1>4, <1>5, <1>6, <1>7, <1>8, <1>9, <1>10, <1>11, <1>12,
     <1>13, <1>14, <1>15, <1>16, <1>17, <1>18
     DEF Next, Emit, EmitStep, Drain, Close

\* The types of the sink's state, among them that an emitter past the health
\* check of enqueue_session_event and a drain past recv hold an event.
THEOREM TypeCorrect == Spec => []TypeOK
<1> QED
  BY TypeInit, TypeStep, PTL DEF Spec

-------------------------------------------------------------------------------
(* The inductive invariant *)

\* In a sink that has just been opened nothing is astray or decided.
LEMMA InvInit == Init => SinkInv
<1> SUFFICES ASSUME Init PROVE SinkInv
  OBVIOUS
<1>1. TypeOK
  BY TypeInit
<1>2. /\ drain = "recv" /\ stored = <<>> /\ queue = <<>> /\ accepted = <<>>
      /\ intact /\ closing = "unset" /\ refused = {} /\ refusedBefore = {}
  BY DEF Init, StoreInit
<1>3. <<>> \in Seq(Events) /\ <<>> \o <<>> = <<>>
  BY EmptySeq, ConcatEmptySeq
<1>4. NothingAstray
  BY <1>2, <1>3 DEF NothingAstray
<1>5. CloseIsFinal
  BY <1>2 DEF CloseIsFinal
<1>6. StoredFollowsAccepted
  BY <1>2, <1>3, ConcatHasPrefix DEF StoredFollowsAccepted
<1> QED
  BY <1>1, <1>4, <1>5, <1>6 DEF SinkInv

\* The steps of an emitter that neither accept nor refuse an event, and those
\* that refuse one, leave the events where they are.
LEMMA EmitterStep ==
    ASSUME SinkInv, NEW p \in Emitters, Emit(p)
    PROVE  (NothingAstray /\ CloseIsFinal /\ StoredFollowsAccepted)'
<1> USE DEF SinkInv, TypeOK, StoreTypeOK
<1>1. ASSUME UNCHANGED <<sender, queue, drain, inflight, closing, accepted, refusedBefore, storeVars>>,
             failed => failed', refused \subseteq refused', refused' # {} => failed'
      PROVE  (NothingAstray /\ CloseIsFinal /\ StoredFollowsAccepted)'
  <2>1. NothingAstray'
    BY <1>1 DEF NothingAstray, storeVars
  <2>2. CloseIsFinal'
    BY <1>1 DEF CloseIsFinal, storeVars
  <2>3. StoredFollowsAccepted'
    BY <1>1 DEF StoredFollowsAccepted, storeVars
  <2> QED
    BY <2>1, <2>2, <2>3
<1>2. ASSUME NEW e \in Events, RefuseFailed(p, e)
      PROVE  (NothingAstray /\ CloseIsFinal /\ StoredFollowsAccepted)'
  BY <1>1, <1>2 DEF RefuseFailed
<1>3. ASSUME NEW e \in Events, CheckHealth(p, e)
      PROVE  (NothingAstray /\ CloseIsFinal /\ StoredFollowsAccepted)'
  BY <1>1, <1>3 DEF CheckHealth, CloseIsFinal
<1>4. CASE RefuseOversize(p)
  BY <1>1, <1>4 DEF RefuseOversize, Refuse
<1>5. CASE Reserve(p)
  BY <1>1, <1>5 DEF Reserve, CloseIsFinal
<1>6. CASE RefuseOverBudget(p)
  BY <1>1, <1>6 DEF RefuseOverBudget, Refuse
<1>7. CASE RefuseSend(p)
  BY <1>1, <1>7 DEF RefuseSend, Refuse
<1>8. CASE Send(p)
  <2> DEFINE e == holding[p]
  <2>1. /\ e \in Events /\ sender /\ drain # "done"
        /\ queue' = Append(queue, e) /\ accepted' = Append(accepted, e)
        /\ UNCHANGED <<sender, failed, drain, inflight, closing, refused, refusedBefore, storeVars>>
    BY <1>8 DEF Send, CanSend
  <2> HIDE DEF e
  <2>2. ASSUME drain \in {"recv", "release"} PROVE accepted' = stored' \o queue'
    <3>1. accepted = stored \o queue
      BY <2>2 DEF NothingAstray
    <3> QED
      BY <2>1, <3>1, AppendToConcat DEF storeVars
  <2>3. ASSUME drain = "append" PROVE accepted' = Append(stored', inflight') \o queue'
    <3>1. accepted = Append(stored, inflight) \o queue
      BY <2>3 DEF NothingAstray
    <3>2. Append(stored, inflight) \in Seq(Events)
      BY <2>3, AppendProperties
    <3> QED
      BY <2>1, <3>1, <3>2, AppendToConcat DEF storeVars
  <2>4. NothingAstray'
    BY <2>1, <2>2, <2>3 DEF NothingAstray, storeVars
  <2>5. CloseIsFinal'
    BY <2>1 DEF CloseIsFinal, storeVars
  <2>6. StoredFollowsAccepted'
    BY <2>1, PrefixOfAppend DEF StoredFollowsAccepted, storeVars
  <2> QED
    BY <2>4, <2>5, <2>6
<1> QED
  BY <1>2, <1>3, <1>4, <1>5, <1>6, <1>7, <1>8 DEF Emit, EmitStep

\* Where the accepted events are after a step of the drain.
LEMMA DrainStep ==
    ASSUME SinkInv, Drain, TypeOK'
    PROVE  (NothingAstray /\ CloseIsFinal /\ StoredFollowsAccepted)'
<1> USE DEF SinkInv, TypeOK, StoreTypeOK
<1>1. CASE Receive
  <2>1. /\ drain = "recv" /\ drain' = "append" /\ queue # <<>>
        /\ inflight' = Head(queue) /\ queue' = Tail(queue)
        /\ UNCHANGED <<sender, failed, closing, accepted, refused, refusedBefore, storeVars>>
    BY <1>1 DEF Receive
  <2>2. accepted = stored \o queue
    BY <2>1 DEF NothingAstray
  <2>3. accepted' = Append(stored', inflight') \o queue'
    BY <2>1, <2>2, HeadMoves DEF storeVars
  <2>4. NothingAstray'
    BY <2>1, <2>3 DEF NothingAstray, storeVars
  <2>5. (CloseIsFinal /\ StoredFollowsAccepted)'
    BY <2>1 DEF CloseIsFinal, StoredFollowsAccepted, storeVars
  <2> QED
    BY <2>4, <2>5
<1>2. CASE ReceiveClosed
  <2>1. /\ drain = "recv" /\ drain' = "flush" /\ queue = <<>> /\ ~sender
        /\ UNCHANGED <<sender, failed, queue, inflight, closing, accepted, refused, refusedBefore, storeVars>>
    BY <1>2 DEF ReceiveClosed
  <2>2. accepted = stored
    BY <2>1, ConcatEmptySeq DEF NothingAstray
  <2>3. NothingAstray'
    BY <2>1, <2>2 DEF NothingAstray, storeVars
  <2>4. (CloseIsFinal /\ StoredFollowsAccepted)'
    BY <2>1 DEF CloseIsFinal, StoredFollowsAccepted, storeVars
  <2> QED
    BY <2>3, <2>4
<1>3. CASE DrainAppend
  <2>1. /\ drain = "append" /\ drain' = "release" /\ stored' = Append(stored, inflight)
        /\ UNCHANGED <<sender, failed, queue, closing, accepted, refused, refusedBefore, intact>>
    BY <1>3 DEF DrainAppend, AppendOk
  <2>2. accepted' = stored' \o queue'
    BY <2>1 DEF NothingAstray
  <2>3. NothingAstray'
    BY <2>1, <2>2 DEF NothingAstray
  <2>4. CloseIsFinal'
    BY <2>1 DEF CloseIsFinal
  <2>5. StoredFollowsAccepted'
    BY <2>2, ConcatHasPrefix DEF StoredFollowsAccepted
  <2> QED
    BY <2>3, <2>4, <2>5
<1>4. CASE ReleaseBytes
  <2>1. /\ drain = "release" /\ drain' = "recv"
        /\ UNCHANGED <<sender, failed, queue, closing, accepted, refused, refusedBefore, storeVars>>
    BY <1>4 DEF ReleaseBytes
  <2>2. NothingAstray'
    BY <2>1 DEF NothingAstray, storeVars
  <2>3. (CloseIsFinal /\ StoredFollowsAccepted)'
    BY <2>1 DEF CloseIsFinal, StoredFollowsAccepted, storeVars
  <2> QED
    BY <2>2, <2>3
<1>5. CASE DrainAppendFails
  <2>1. /\ drain = "append" /\ drain' = "discard" /\ failed'
        /\ UNCHANGED <<sender, queue, closing, accepted, refused, refusedBefore>>
    BY <1>5 DEF DrainAppendFails
  <2>2. NothingAstray' /\ CloseIsFinal'
    BY <2>1 DEF NothingAstray, CloseIsFinal
  <2>3. PICK kept \in durable .. Len(stored) + 1 :
            stored' = SubSeq(Append(stored, inflight), 1, kept)
    BY <1>5 DEF DrainAppendFails, AppendErr
  <2>4. /\ Append(stored, inflight) \in Seq(Events)
        /\ Len(Append(stored, inflight)) = Len(stored) + 1
    BY <2>1, AppendProperties
  <2>5. PrefixOf(Append(stored, inflight), accepted)
    BY <2>1, <2>4, ConcatHasPrefix DEF NothingAstray
  <2>6. kept \in 0 .. Len(Append(stored, inflight))
    BY <2>4, LenProperties
  <2>7. StoredFollowsAccepted'
    BY <2>1, <2>3, <2>4, <2>5, <2>6, PrefixOfPrefix DEF StoredFollowsAccepted
  <2> QED
    BY <2>2, <2>7
<1>6. CASE Discard
  <2>1. /\ drain = "discard" /\ drain' \in {"discard", "flush"} /\ failed /\ failed'
        /\ UNCHANGED <<sender, closing, accepted, refused, refusedBefore, storeVars>>
    BY <1>6 DEF Discard, NothingAstray
  <2>2. NothingAstray'
    BY <2>1 DEF NothingAstray, storeVars
  <2>3. (CloseIsFinal /\ StoredFollowsAccepted)'
    BY <2>1 DEF CloseIsFinal, StoredFollowsAccepted, storeVars
  <2> QED
    BY <2>2, <2>3
<1>7. CASE DrainFlush
  <2>1. /\ drain = "flush" /\ drain' = "done"
        /\ UNCHANGED <<sender, queue, closing, accepted, refused, refusedBefore>>
    BY <1>7 DEF DrainFlush
  <2>2. ASSUME FlushOk, UNCHANGED failed
        PROVE  (NothingAstray /\ CloseIsFinal /\ StoredFollowsAccepted)'
    <3>1. NothingAstray'
      BY <2>1, <2>2 DEF NothingAstray, FlushOk
    <3>2. (CloseIsFinal /\ StoredFollowsAccepted)'
      BY <2>1, <2>2 DEF CloseIsFinal, StoredFollowsAccepted, FlushOk
    <3> QED
      BY <3>1, <3>2
  <2>3. ASSUME FlushErr, failed'
        PROVE  (NothingAstray /\ CloseIsFinal /\ StoredFollowsAccepted)'
    <3>1. NothingAstray' /\ CloseIsFinal'
      BY <2>1, <2>3 DEF NothingAstray, CloseIsFinal
    <3>2. PICK kept \in durable .. Len(stored) : stored' = SubSeq(stored, 1, kept)
      BY <2>3 DEF FlushErr
    <3>3. kept \in 0 .. Len(stored)
      BY <3>2, LenProperties
    <3>4. StoredFollowsAccepted'
      BY <2>1, <3>2, <3>3, PrefixOfPrefix DEF StoredFollowsAccepted
    <3> QED
      BY <3>1, <3>4
  <2> QED
    BY <1>7, <2>2, <2>3 DEF DrainFlush
<1> QED
  BY <1>1, <1>2, <1>3, <1>4, <1>5, <1>6, <1>7 DEF Drain

\* Closing decides its result once the drain is done and has not failed.
LEMMA CloseStep ==
    ASSUME SinkInv, Close
    PROVE  (NothingAstray /\ CloseIsFinal /\ StoredFollowsAccepted)'
<1> USE DEF SinkInv
<1>1. CASE BeginClose
  <2>1. NothingAstray' /\ StoredFollowsAccepted'
    BY <1>1 DEF BeginClose, NothingAstray, StoredFollowsAccepted, storeVars
  <2>2. CloseIsFinal'
    BY <1>1 DEF BeginClose, CloseIsFinal, storeVars
  <2> QED
    BY <2>1, <2>2
<1>2. CASE EndClose
  <2>1. NothingAstray' /\ StoredFollowsAccepted'
    BY <1>2 DEF EndClose, NothingAstray, StoredFollowsAccepted, storeVars
  <2>2. closing' = "ok" => ~failed
    BY <1>2 DEF EndClose
  <2>3. CloseIsFinal'
    BY <1>2, <2>2 DEF EndClose, CloseIsFinal, NothingAstray, storeVars
  <2> QED
    BY <2>1, <2>3
<1>3. CASE DropSink
  <2>1. NothingAstray' /\ StoredFollowsAccepted'
    BY <1>3 DEF DropSink, NothingAstray, StoredFollowsAccepted, storeVars
  <2>2. CloseIsFinal'
    BY <1>3 DEF DropSink, CloseIsFinal, storeVars
  <2> QED
    BY <2>1, <2>2
<1> QED
  BY <1>1, <1>2, <1>3 DEF Close

\* Every step, of whichever actor, keeps the inductive invariant.
LEMMA InvStep == SinkInv /\ [Next]_vars => SinkInv'
<1> SUFFICES ASSUME SinkInv, [Next]_vars PROVE SinkInv'
  OBVIOUS
<1>1. TypeOK'
  BY TypeStep DEF SinkInv
<1>2. ASSUME NEW p \in Emitters, Emit(p) PROVE SinkInv'
  BY <1>1, <1>2, EmitterStep DEF SinkInv
<1>3. CASE Drain
  BY <1>1, <1>3, DrainStep DEF SinkInv
<1>4. CASE Close
  BY <1>1, <1>4, CloseStep DEF SinkInv
<1>5. CASE UNCHANGED vars
  BY <1>1, <1>5 DEF vars, sinkVars, storeVars, SinkInv, NothingAstray, CloseIsFinal,
                    StoredFollowsAccepted
<1> QED
  BY <1>2, <1>3, <1>4, <1>5 DEF Next

\* At every stage of the drain the accepted events are in the log, in the
\* drain's hand and in the channel, in that order; no event is lost unless the
\* failure flag of the sink's health is up.
THEOREM SinkInvariant == Spec => []SinkInv
<1> QED
  BY InvInit, InvStep, PTL DEF Spec

-------------------------------------------------------------------------------
(* The safety properties *)

\* The inductive invariant contains what a run relies on once close has answered.
LEMMA InvImplies ==
    SinkInv => /\ OkCloseIsDurable
               /\ OkCloseRefusedNothing
               /\ QuietDrainIsComplete
<1> SUFFICES ASSUME SinkInv
             PROVE  OkCloseIsDurable /\ OkCloseRefusedNothing /\ QuietDrainIsComplete
  OBVIOUS
<1> USE DEF SinkInv
<1>1. stored \in Seq(Events)
  BY DEF TypeOK, StoreTypeOK
<1>2. SubSeq(stored, 1, Len(stored)) = stored
  BY <1>1, SubSeqFull
<1>3. OkCloseIsDurable
  BY <1>2 DEF OkCloseIsDurable, CloseIsFinal, DurableEvents
<1>4. OkCloseRefusedNothing
  BY DEF OkCloseRefusedNothing, CloseIsFinal
<1>5. QuietDrainIsComplete
  BY <1>2 DEF QuietDrainIsComplete, NothingAstray, DurableEvents
<1> QED
  BY <1>3, <1>4, <1>5

\* A close that answers Ok finds every accepted event synced and in order.
THEOREM OkCloseDurable == Spec => []OkCloseIsDurable
<1>1. SinkInv => OkCloseIsDurable
  BY InvImplies
<1> QED
  BY <1>1, SinkInvariant, PTL

\* A close that answers Ok follows a run in which no emit was refused.
THEOREM OkCloseRefusals == Spec => []OkCloseRefusedNothing
<1>1. SinkInv => OkCloseRefusedNothing
  BY InvImplies
<1> QED
  BY <1>1, SinkInvariant, PTL

\* The log is at all times a prefix of what was accepted, failed appends included.
THEOREM StoredPrefix == Spec => []StoredFollowsAccepted
<1>1. SinkInv => StoredFollowsAccepted
  BY DEF SinkInv
<1> QED
  BY <1>1, SinkInvariant, PTL

\* A drain that returns without the failure flag has made everything durable,
\* whether the sink was closed or dropped.
THEOREM QuietDrain == Spec => []QuietDrainIsComplete
<1>1. SinkInv => QuietDrainIsComplete
  BY InvImplies
<1> QED
  BY <1>1, SinkInvariant, PTL

-------------------------------------------------------------------------------
(* The sink implements the durable feed *)

\* The durable events start the accepted ones, and no drain step shortens them.
LEMMA DurablePrefix ==
    ASSUME NEW s \in Seq(Events), NEW t \in Seq(Events), PrefixOf(s, t),
           NEW k \in 0 .. Len(s)
    PROVE  SubSeq(s, 1, k) = SubSeq(t, 1, k) /\ Len(SubSeq(s, 1, k)) = k
<1>1. /\ Len(s) \in Nat /\ Len(t) \in Nat
      /\ \A i \in 1 .. Len(s) : s[i] \in Events
      /\ \A i \in 1 .. Len(t) : t[i] \in Events
  BY LenProperties, ElementOfSeq
<1>2. Len(s) <= Len(t) /\ s = SubSeq(t, 1, Len(s))
  BY DEF PrefixOf
<1>3. /\ SubSeq(s, 1, k) \in Seq(Events) /\ Len(SubSeq(s, 1, k)) = k
      /\ \A i \in 1 .. k : SubSeq(s, 1, k)[i] = s[i]
  BY <1>1, SubSeqProperties
<1>4. /\ SubSeq(t, 1, k) \in Seq(Events) /\ Len(SubSeq(t, 1, k)) = k
      /\ \A i \in 1 .. k : SubSeq(t, 1, k)[i] = t[i]
  BY <1>1, <1>2, SubSeqProperties
<1>5. \A i \in 1 .. Len(s) : s[i] = t[i]
  BY <1>1, <1>2, SubSeqProperties
<1>6. \A i \in 1 .. k : SubSeq(s, 1, k)[i] = SubSeq(t, 1, k)[i]
  BY <1>1, <1>3, <1>4, <1>5
<1> QED
  BY <1>3, <1>4, <1>6, SeqEqual

\* Every step keeps the durable count within what is stored and never lowers it.
LEMMA DurableStep ==
    ASSUME TypeOK, Drain
    PROVE  durable' >= durable
<1> USE DEF TypeOK, StoreTypeOK
<1> QED
  BY LenProperties DEF Drain, Receive, ReceiveClosed, DrainAppend, AppendOk, ReleaseBytes,
        DrainAppendFails, AppendErr, Discard, DrainFlush, FlushOk, FlushErr, storeVars

\* An open sink that has accepted nothing is an open feed that has accepted nothing.
LEMMA FeedInitially == Init => Feed!FeedInit
<1> SUFFICES ASSUME Init PROVE Feed!FeedInit
  OBVIOUS
<1>1. accepted = <<>> /\ stored = <<>> /\ durable = 0 /\ closing = "unset"
  BY DEF Init, StoreInit
<1>2. SubSeq(<<>>, 1, 0) = <<>>
  BY SubSeqEmpty
<1> QED
  BY <1>1, <1>2 DEF Feed!FeedInit

\* One step of the sink is one step of the feed, or none: a send accepts, an
\* append or a flush persists, the end of close answers.
LEMMA FeedStep ==
    SinkInv /\ SinkInv' /\ [Next]_vars => [Feed!FeedNext]_(Feed!feedVars)
<1> SUFFICES ASSUME SinkInv, SinkInv', [Next]_vars
             PROVE  [Feed!FeedNext]_(Feed!feedVars)
  OBVIOUS
<1> USE DEF SinkInv
<1> DEFINE outcome == IF closing \in {"ok", "err"} THEN closing ELSE "open"
<1>1. ASSUME UNCHANGED <<accepted, closing, stored, durable>>
      PROVE  UNCHANGED Feed!feedVars
  BY <1>1 DEF Feed!feedVars
<1>2. ASSUME NEW p \in Emitters, Emit(p) PROVE [Feed!FeedNext]_(Feed!feedVars)
  <2>1. CASE Send(p)
    <3>1. /\ holding[p] \in Events /\ closing = "unset"
      BY <2>1 DEF Send, CanSend, CloseIsFinal, TypeOK
    <3>2. /\ accepted' = Append(accepted, holding[p])
          /\ UNCHANGED <<closing, stored, durable>>
      BY <2>1 DEF Send, storeVars
    <3>3. Feed!Accept(holding[p])
      BY <3>1, <3>2 DEF Feed!Accept
    <3> QED
      BY <3>1, <3>3 DEF Feed!FeedNext
  <2>2. CASE ~Send(p)
    BY <1>1, <1>2, <2>2 DEF Emit, EmitStep, RefuseFailed, CheckHealth, RefuseOversize,
          Reserve, RefuseOverBudget, RefuseSend, storeVars
  <2> QED
    BY <2>1, <2>2
<1>3. CASE Drain
  <2>1. UNCHANGED <<accepted, closing>>
    BY <1>3 DEF Drain, Receive, ReceiveClosed, DrainAppend, ReleaseBytes,
          DrainAppendFails, Discard, DrainFlush
  <2>2. closing \notin {"ok", "err"}
    BY <1>3 DEF Drain, Receive, ReceiveClosed, DrainAppend, ReleaseBytes,
          DrainAppendFails, Discard, DrainFlush, CloseIsFinal
  <2>3. durable' >= durable
    BY <1>3, DurableStep
  <2>4. /\ stored \in Seq(Events) /\ durable \in 0 .. Len(stored)
        /\ stored' \in Seq(Events) /\ durable' \in 0 .. Len(stored')
        /\ accepted \in Seq(Events) /\ accepted' \in Seq(Events)
    BY LenProperties DEF TypeOK, StoreTypeOK
  <2>5. SubSeq(stored', 1, durable') = SubSeq(accepted', 1, durable')
    BY <2>4, DurablePrefix DEF StoredFollowsAccepted
  <2>6. Len(SubSeq(stored, 1, durable)) = durable
    BY <2>4, DurablePrefix DEF StoredFollowsAccepted
  <2>7. durable' <= Len(accepted)
    BY <2>1, <2>4, LenProperties DEF StoredFollowsAccepted, PrefixOf
  <2>8. durable' \in Len(SubSeq(stored, 1, durable)) .. Len(accepted)
    BY <2>3, <2>4, <2>6, <2>7, LenProperties
  <2>9. Feed!Persist
    BY <2>1, <2>2, <2>5, <2>8 DEF Feed!Persist
  <2> QED
    BY <2>9 DEF Feed!FeedNext
<1>4. CASE Close
  <2>1. CASE EndClose
    <3>1. /\ closing = "draining" /\ closing' \in {"ok", "err"}
          /\ UNCHANGED <<accepted, stored, durable>>
      BY <2>1 DEF EndClose, storeVars
    <3>2. closing' = "ok" => SubSeq(stored, 1, durable) = accepted
      <4>1. stored \in Seq(Events)
        BY DEF TypeOK, StoreTypeOK
      <4>2. closing' = "ok" => accepted = stored /\ durable = Len(stored)
        BY <3>1 DEF CloseIsFinal
      <4> QED
        BY <4>1, <4>2, SubSeqFull
    <3>3. Feed!Answer(closing')
      BY <3>1, <3>2 DEF Feed!Answer
    <3> QED
      BY <3>1, <3>3 DEF Feed!FeedNext
  <2>2. CASE BeginClose \/ DropSink
    <3>1. /\ UNCHANGED <<accepted, stored, durable>>
          /\ closing = "unset" /\ closing' \in {"draining", "dropped"}
      BY <2>2 DEF BeginClose, DropSink, storeVars
    <3> QED
      BY <3>1 DEF Feed!feedVars
  <2> QED
    BY <1>4, <2>1, <2>2 DEF Close
<1>5. CASE UNCHANGED vars
  BY <1>1, <1>5 DEF vars, sinkVars, storeVars
<1> QED
  BY <1>2, <1>3, <1>4, <1>5 DEF Next

\* The refinement: queue, budget, drain thread and close of the sink implement
\* the three steps of a durable feed.
THEOREM Refinement == Spec => ImplementsDurableFeed
<1> QED
  BY FeedInitially, FeedStep, SinkInvariant, PTL
     DEF Spec, ImplementsDurableFeed, Feed!FeedSpec

-------------------------------------------------------------------------------
(* Induction *)

\* Induction over the naturals, for a set rather than for a predicate.
LEMMA EveryNatural ==
    ASSUME NEW S \in SUBSET Nat, 0 \in S, \A n \in S : n + 1 \in S
    PROVE  S = Nat
<1> DEFINE T == Nat \ S
           R == OpToRel(<, Nat)
<1>1. SUFFICES ASSUME T # {} PROVE FALSE
  OBVIOUS
<1>2. IsWellFoundedOn(R, Nat) /\ T \subseteq Nat
  BY NatLessThanWellFounded
<1>3. \A x, y \in Nat : y < x => <<y, x>> \in R
  BY DEF OpToRel
<1> HIDE DEF R
<1>4. PICK x \in T : \A y \in T : ~ (<<y, x>> \in R)
  BY <1>1, <1>2, WFMin
<1>5. x # 0 /\ x \in Nat /\ x - 1 \in Nat /\ (x - 1) + 1 = x /\ x - 1 < x
  OBVIOUS
<1>6. <<x - 1, x>> \in R
  BY <1>3, <1>5
<1>7. x - 1 \notin T
  BY <1>4, <1>6
<1>8. x - 1 \in S
  BY <1>5, <1>7
<1>9. x \in S
  BY <1>5, <1>8
<1> QED
  BY <1>9

-------------------------------------------------------------------------------
(* The channel and the budget have a bound *)

\* An empty sink is within its bounds.
LEMMA BoundedInit == Init => Bounded
<1>1. Len(<<>>) = 0
  BY EmptySeq
<1> QED
  BY <1>1, SinkAssumption DEF Init, Bounded

\* Reserve and Send check the bounds, every other step gives back.
LEMMA BoundedStep == TypeOK /\ Bounded /\ [Next]_vars => Bounded'
<1> SUFFICES ASSUME TypeOK, Bounded, [Next]_vars PROVE Bounded'
  OBVIOUS
<1> USE SinkAssumption DEF Bounded
<1>1. ASSUME UNCHANGED <<reservedBytes, queue>> PROVE Bounded'
  BY <1>1
<1>2. ASSUME NEW p \in Emitters, Emit(p) PROVE Bounded'
  <2>1. CASE Reserve(p)
    BY <2>1 DEF Reserve
  <2>2. CASE Send(p)
    <3>1. holding[p] \in Events /\ queue \in Seq(Events) /\ Len(queue) < Capacity
      BY <2>2 DEF Send, CanSend, TypeOK
    <3>2. Len(queue') = Len(queue) + 1 /\ Len(queue) \in Nat
      BY <2>2, <3>1, AppendProperties, LenProperties DEF Send
    <3> QED
      BY <2>2, <3>1, <3>2 DEF Send
  <2>3. CASE RefuseSend(p)
    <3>1. holding[p] \in Events /\ Cost[holding[p]] \in Nat /\ reservedBytes \in Int
      BY <2>3 DEF RefuseSend, TypeOK
    <3> QED
      BY <2>3, <3>1 DEF RefuseSend
  <2>4. CASE RefuseOversize(p) \/ RefuseOverBudget(p)
    BY <1>1, <2>4 DEF RefuseOversize, RefuseOverBudget
  <2>5. ASSUME NEW e \in Events, RefuseFailed(p, e) \/ CheckHealth(p, e) PROVE Bounded'
    BY <1>1, <2>5 DEF RefuseFailed, CheckHealth
  <2> QED
    BY <1>2, <2>1, <2>2, <2>3, <2>4, <2>5 DEF Emit, EmitStep
<1>3. ASSUME queue # <<>>, queue' = Tail(queue) PROVE Len(queue') <= Capacity
  <2>1. queue \in Seq(Events)
    BY DEF TypeOK
  <2>2. Len(queue') = Len(queue) - 1 /\ Len(queue) \in Nat
    BY <1>3, <2>1, HeadTailProperties, LenProperties
  <2> QED
    BY <2>2
<1>4. CASE Receive
  BY <1>3, <1>4 DEF Receive
<1>5. CASE ReleaseBytes \/ DrainAppendFails
  <2>1. inflight \in Events /\ Cost[inflight] \in Nat /\ reservedBytes \in Int
    BY <1>5 DEF ReleaseBytes, DrainAppendFails, TypeOK
  <2> QED
    BY <1>5, <2>1 DEF ReleaseBytes, DrainAppendFails
<1>6. CASE Discard
  <2>1. CASE queue = <<>>
    BY <1>1, <1>6, <2>1 DEF Discard
  <2>2. CASE queue # <<>>
    <3>1. Head(queue) \in Events /\ reservedBytes \in Int
      BY <2>2, HeadTailProperties DEF TypeOK
    <3>2. Cost[Head(queue)] \in Nat
      BY <3>1
    <3> QED
      BY <1>3, <1>6, <2>2, <3>1, <3>2 DEF Discard
  <2> QED
    BY <2>1, <2>2
<1>7. CASE ReceiveClosed \/ DrainAppend \/ DrainFlush
  BY <1>1, <1>7 DEF ReceiveClosed, DrainAppend, DrainFlush
<1>8. CASE Close
  BY <1>1, <1>8 DEF Close, BeginClose, EndClose, DropSink
<1>9. CASE UNCHANGED vars
  BY <1>1, <1>9 DEF vars, sinkVars
<1> QED
  BY <1>2, <1>4, <1>5, <1>6, <1>7, <1>8, <1>9 DEF Next, Drain

\* The channel never holds more events than its capacity, and the budget is never
\* overdrawn, whatever emitters race for the last bytes and slots.
THEOREM WithinBounds == Spec => []Bounded
<1> QED
  BY BoundedInit, BoundedStep, TypeCorrect, PTL DEF Spec

-------------------------------------------------------------------------------
(* The bytes of a sequence of events *)

\* The running sums that BytesOf is defined by.
Sums(s, h) ==
    /\ h \in [0 .. Len(s) -> Int]
    /\ h[0] = 0
    /\ \A n \in 1 .. Len(s) : h[n] = h[n - 1] + Cost[s[n]]

\* Every sequence of events has running sums.
LEMMA SumsExist ==
    ASSUME NEW s \in Seq(Events)
    PROVE  \E h : Sums(s, h)
<1> DEFINE Upto(k, h) == /\ h \in [0 .. k -> Int]
                         /\ h[0] = 0
                         /\ \A n \in 1 .. k : h[n] = h[n - 1] + Cost[s[n]]
           S == {k \in Nat : k <= Len(s) => \E h : Upto(k, h)}
<1>1. 0 \in S
  <2>1. Upto(0, [n \in 0 .. 0 |-> 0])
    OBVIOUS
  <2> QED
    BY <2>1
<1>2. ASSUME NEW k \in S PROVE k + 1 \in S
  <2>1. SUFFICES ASSUME k + 1 <= Len(s) PROVE \E h : Upto(k + 1, h)
    <3> HIDE DEF Upto
    <3> QED
      OBVIOUS
  <2>2. k \in Nat /\ k <= Len(s) /\ Len(s) \in Nat /\ k + 1 \in 1 .. Len(s)
    BY <2>1, LenProperties
  <2>3. PICK h : Upto(k, h)
    BY <2>2
  <2>4. Cost[s[k + 1]] \in Int
    BY <2>2, ElementOfSeq, SinkAssumption
  <2> DEFINE g == [n \in 0 .. k + 1 |-> IF n = k + 1 THEN h[k] + Cost[s[k + 1]] ELSE h[n]]
  <2>5. h[k] \in Int /\ g \in [0 .. k + 1 -> Int] /\ g[0] = 0
    BY <2>2, <2>3, <2>4
  <2>6. ASSUME NEW n \in 1 .. k + 1 PROVE g[n] = g[n - 1] + Cost[s[n]]
    <3>1. CASE n = k + 1
      BY <2>2, <3>1
    <3>2. CASE n \in 1 .. k
      BY <2>2, <2>3, <3>2
    <3> QED
      BY <2>2, <3>1, <3>2
  <2>7. Upto(k + 1, g)
    BY <2>5, <2>6
  <2> QED
    BY <2>7
<1>3. S = Nat
  <2> HIDE DEF S
  <2>1. S \in SUBSET Nat
    BY DEF S
  <2> QED
    BY <1>1, <1>2, <2>1, EveryNatural
<1>4. Len(s) \in Nat
  BY LenProperties
<1>5. Len(s) \in S
  BY <1>3, <1>4
<1>6. \E h : Upto(Len(s), h)
  BY <1>4, <1>5
<1> QED
  BY <1>6 DEF Sums

\* Running sums are determined by the sequence.
LEMMA SumsUnique ==
    ASSUME NEW s \in Seq(Events), NEW g, NEW h, Sums(s, g), Sums(s, h)
    PROVE  g[Len(s)] = h[Len(s)]
<1> DEFINE S == {k \in Nat : k <= Len(s) => g[k] = h[k]}
<1>1. Len(s) \in Nat
  BY LenProperties
<1>2. 0 \in S
  BY DEF Sums
<1>3. ASSUME NEW k \in S PROVE k + 1 \in S
  <2>1. SUFFICES ASSUME k + 1 <= Len(s) PROVE g[k + 1] = h[k + 1]
    OBVIOUS
  <2>2. k + 1 \in 1 .. Len(s) /\ g[k] = h[k] /\ (k + 1) - 1 = k
    BY <1>1, <2>1
  <2> QED
    BY <2>2 DEF Sums
<1>4. S = Nat
  <2> HIDE DEF S
  <2>1. S \in SUBSET Nat
    BY DEF S
  <2> QED
    BY <1>2, <1>3, <2>1, EveryNatural
<1> QED
  BY <1>1, <1>4

\* BytesOf is the last of the running sums.
LEMMA BytesAreSums ==
    ASSUME NEW s \in Seq(Events), NEW h, Sums(s, h)
    PROVE  BytesOf(s) = h[Len(s)]
<1>1. Len(s) \in Nat
  BY LenProperties
<1>2. h = [n \in 0 .. Len(s) |-> IF n = 0 THEN 0 ELSE h[n - 1] + Cost[s[n]]]
  BY <1>1 DEF Sums
<1>3. PICK g : /\ g = [n \in 0 .. Len(s) |-> IF n = 0 THEN 0 ELSE g[n - 1] + Cost[s[n]]]
               /\ BytesOf(s) = g[Len(s)]
  BY <1>2 DEF BytesOf
<1>4. \A n \in 1 .. Len(s) : Cost[s[n]] \in Int
  BY ElementOfSeq, SinkAssumption
<1>5. /\ g[0] = 0 /\ DOMAIN g = 0 .. Len(s)
      /\ \A n \in 1 .. Len(s) : g[n] = g[n - 1] + Cost[s[n]]
  BY <1>1, <1>3
<1>6. \A n \in 0 .. Len(s) : g[n] = h[n]
  <2> DEFINE S == {k \in Nat : k <= Len(s) => g[k] = h[k]}
  <2>1. 0 \in S
    BY <1>5 DEF Sums
  <2>2. ASSUME NEW k \in S PROVE k + 1 \in S
    <3>1. SUFFICES ASSUME k + 1 <= Len(s) PROVE g[k + 1] = h[k + 1]
      OBVIOUS
    <3>2. k + 1 \in 1 .. Len(s) /\ g[k] = h[k] /\ (k + 1) - 1 = k
      BY <1>1, <3>1
    <3> QED
      BY <1>5, <3>2 DEF Sums
  <2>3. S = Nat
    <3> HIDE DEF S
    <3>1. S \in SUBSET Nat
      BY DEF S
    <3> QED
      BY <2>1, <2>2, <3>1, EveryNatural
  <2> QED
    BY <1>1, <2>3
<1> QED
  BY <1>1, <1>3, <1>6

\* An event appended adds its cost.
LEMMA BytesOfAppend ==
    ASSUME NEW s \in Seq(Events), NEW e \in Events
    PROVE  BytesOf(Append(s, e)) = BytesOf(s) + Cost[e] /\ BytesOf(s) \in Int
<1> DEFINE t == Append(s, e)
<1>1. PICK h : Sums(t, h)
  <2>1. t \in Seq(Events)
    BY AppendProperties
  <2> QED
    BY <2>1, SumsExist
<1>2. /\ t \in Seq(Events) /\ Len(t) = Len(s) + 1 /\ Len(s) \in Nat
      /\ t[Len(s) + 1] = e /\ \A i \in 1 .. Len(s) : t[i] = s[i]
  BY AppendProperties, LenProperties
<1> HIDE DEF t
<1> DEFINE g == [n \in 0 .. Len(s) |-> h[n]]
<1>3. Sums(s, g)
  <2>1. g \in [0 .. Len(s) -> Int] /\ g[0] = 0
    BY <1>1, <1>2 DEF Sums
  <2>2. ASSUME NEW n \in 1 .. Len(s) PROVE g[n] = g[n - 1] + Cost[s[n]]
    <3>1. n \in 1 .. Len(t) /\ t[n] = s[n] /\ n \in 0 .. Len(s) /\ n - 1 \in 0 .. Len(s)
      BY <1>2
    <3> QED
      BY <1>1, <3>1 DEF Sums
  <2> QED
    BY <2>1, <2>2 DEF Sums
<1>4. BytesOf(s) = h[Len(s)] /\ h[Len(s)] \in Int
  <2>1. s \in Seq(Events) /\ Len(s) \in Nat /\ Len(s) \in 0 .. Len(s)
    BY <1>2
  <2>2. g[Len(s)] = h[Len(s)] /\ g[Len(s)] \in Int
    BY <1>3, <2>1 DEF Sums
  <2> HIDE DEF g
  <2>3. BytesOf(s) = g[Len(s)]
    BY <1>3, <2>1, BytesAreSums
  <2> QED
    BY <2>2, <2>3
<1>5. BytesOf(t) = h[Len(s) + 1]
  BY <1>1, <1>2, BytesAreSums
<1>6. h[Len(s) + 1] = h[Len(s)] + Cost[e]
  <2>1. Len(s) + 1 \in 1 .. Len(t) /\ (Len(s) + 1) - 1 = Len(s)
    BY <1>2
  <2> QED
    BY <1>1, <1>2, <2>1 DEF Sums
<1> QED
  BY <1>4, <1>5, <1>6 DEF t

\* An event taken from the channel takes its cost away.
LEMMA BytesOfTail ==
    ASSUME NEW s \in Seq(Events), s # <<>>
    PROVE  BytesOf(s) = Cost[Head(s)] + BytesOf(Tail(s)) /\ BytesOf(Tail(s)) \in Int
<1> DEFINE t == Tail(s)
<1>1. PICK h : Sums(s, h)
  BY SumsExist
<1>2. /\ t \in Seq(Events) /\ Len(t) = Len(s) - 1
      /\ \A i \in 1 .. Len(t) : t[i] = s[i + 1]
      /\ Head(s) = s[1] /\ Head(s) \in Events
      /\ Len(s) \in Nat /\ Len(t) \in Nat
  BY HeadTailProperties, LenProperties
<1> HIDE DEF t
<1>3. Cost[Head(s)] \in Int
  BY <1>2, SinkAssumption
<1> DEFINE g == [n \in 0 .. Len(t) |-> h[n + 1] - Cost[Head(s)]]
<1>4. h[1] = Cost[Head(s)]
  <2>1. 1 \in 1 .. Len(s) /\ 1 - 1 = 0
    BY <1>2
  <2> QED
    BY <1>1, <1>2, <1>3, <2>1 DEF Sums
<1>5. Sums(t, g)
  <2>1. \A n \in 0 .. Len(t) : n + 1 \in 0 .. Len(s) /\ h[n + 1] \in Int
    BY <1>1, <1>2 DEF Sums
  <2>2. g \in [0 .. Len(t) -> Int] /\ g[0] = 0
    BY <1>2, <1>3, <1>4, <2>1
  <2>3. ASSUME NEW n \in 1 .. Len(t) PROVE g[n] = g[n - 1] + Cost[t[n]]
    <3>1. /\ n + 1 \in 1 .. Len(s) /\ t[n] = s[n + 1] /\ (n + 1) - 1 = n
          /\ n \in 0 .. Len(t) /\ n - 1 \in 0 .. Len(t) /\ (n - 1) + 1 = n
      BY <1>2
    <3>2. h[n + 1] = h[n] + Cost[t[n]]
      BY <1>1, <3>1 DEF Sums
    <3>3. t[n] \in Events /\ Cost[t[n]] \in Int /\ h[n] \in Int
      <4>1. t[n] \in Events
        BY <1>2, ElementOfSeq
      <4>2. h[(n - 1) + 1] \in Int
        BY <2>1, <3>1
      <4> QED
        BY <3>1, <4>1, <4>2, SinkAssumption
    <3>4. g[n] = h[n + 1] - Cost[Head(s)] /\ g[n - 1] = h[n] - Cost[Head(s)]
      BY <3>1
    <3> HIDE DEF g
    <3> QED
      BY <1>3, <3>2, <3>3, <3>4
  <2> QED
    BY <2>2, <2>3 DEF Sums
<1>6. BytesOf(t) = h[Len(s)] - Cost[Head(s)] /\ h[Len(s)] \in Int
  <2>1. BytesOf(t) = g[Len(t)]
    BY <1>2, <1>5, BytesAreSums
  <2>2. Len(t) \in 0 .. Len(t) /\ Len(t) + 1 = Len(s) /\ Len(s) \in 0 .. Len(s)
    BY <1>2
  <2> QED
    BY <1>1, <2>1, <2>2 DEF Sums
<1>7. BytesOf(s) = h[Len(s)]
  BY <1>1, BytesAreSums
<1> QED
  BY <1>3, <1>6, <1>7 DEF t

\* An empty channel holds no bytes.
LEMMA BytesOfNone == BytesOf(<<>>) = 0
<1>1. <<>> \in Seq(Events) /\ Len(<<>>) = 0
  BY EmptySeq
<1>2. PICK h : Sums(<<>>, h)
  BY <1>1, SumsExist
<1> QED
  BY <1>1, <1>2, BytesAreSums DEF Sums

-------------------------------------------------------------------------------
(* The bytes of a set of events *)

\* What BudgetIsExact adds up for the events that emitters hold.
BytesOfSet(E) ==
    LET held[S \in SUBSET E] ==
          IF S = {} THEN 0
          ELSE LET e == CHOOSE x \in S : TRUE IN Cost[e] + held[S \ {e}]
    IN  held[E]

\* A function on the subsets of E that adds up their costs, in any order.
Totals(E, h) ==
    /\ h \in [SUBSET E -> Int]
    /\ h[{}] = 0
    /\ \A S \in SUBSET E : \A e \in S : h[S] = Cost[e] + h[S \ {e}]

\* One more event extends the totals.
LEMMA TotalsExtend ==
    ASSUME NEW E \in SUBSET Events, NEW e \in Events \ E, NEW h, Totals(E, h)
    PROVE  \E g : Totals(E \cup {e}, g)
<1> DEFINE F == E \cup {e}
           g == [S \in SUBSET F |-> h[S \ {e}] + (IF e \in S THEN Cost[e] ELSE 0)]
<1>1. Cost[e] \in Int /\ \A S \in SUBSET F : S \ {e} \in SUBSET E
  BY SinkAssumption
<1>2. \A S \in SUBSET F : h[S \ {e}] \in Int
  BY <1>1 DEF Totals
<1>3. \A S \in SUBSET F : g[S] = h[S \ {e}] + (IF e \in S THEN Cost[e] ELSE 0)
  OBVIOUS
<1>4. g \in [SUBSET F -> Int]
  <2>1. \A S \in SUBSET F : h[S \ {e}] + (IF e \in S THEN Cost[e] ELSE 0) \in Int
    BY <1>1, <1>2
  <2> QED
    BY <2>1
<1> HIDE DEF g
<1>5. g[{}] = 0
  <2>1. {} \in SUBSET F /\ {} \ {e} = {} /\ e \notin {}
    OBVIOUS
  <2>2. g[{}] = h[{}] + 0
    BY <1>3, <2>1
  <2> QED
    BY <2>2 DEF Totals
<1>6. ASSUME NEW S \in SUBSET F, NEW d \in S PROVE g[S] = Cost[d] + g[S \ {d}]
  <2>1. S \ {d} \in SUBSET F
    OBVIOUS
  <2>2. CASE d = e
    <3>1. (S \ {d}) \ {e} = S \ {e} /\ e \notin S \ {d} /\ e \in S
      BY <2>2
    <3>2. g[S] = h[S \ {e}] + Cost[e]
      BY <1>3, <3>1
    <3>3. g[S \ {d}] = h[S \ {e}] + 0
      BY <1>3, <2>1, <3>1
    <3>4. h[S \ {e}] \in Int
      BY <1>2
    <3> QED
      BY <1>1, <2>2, <3>2, <3>3, <3>4
  <2>3. CASE d # e
    <3>1. S \ {e} \in SUBSET E /\ d \in S \ {e} /\ (S \ {d}) \ {e} = (S \ {e}) \ {d}
      BY <1>1, <2>3
    <3>2. h[S \ {e}] = Cost[d] + h[(S \ {d}) \ {e}]
      BY <3>1 DEF Totals
    <3>3. e \in S \ {d} <=> e \in S
      BY <2>3
    <3>4. h[S \ {e}] \in Int /\ h[(S \ {d}) \ {e}] \in Int /\ Cost[d] \in Int
      <4>1. d \in Events
        BY <2>3
      <4>2. Cost[d] \in Int
        BY <4>1, SinkAssumption
      <4>3. h[S \ {e}] \in Int
        BY <1>2
      <4>4. h[(S \ {d}) \ {e}] \in Int
        BY <1>2, <2>1
      <4> QED
        BY <4>2, <4>3, <4>4
    <3>5. /\ g[S] = h[S \ {e}] + (IF e \in S THEN Cost[e] ELSE 0)
          /\ g[S \ {d}] = h[(S \ {d}) \ {e}] + (IF e \in S THEN Cost[e] ELSE 0)
      BY <1>3, <2>1, <3>3
    <3> QED
      BY <1>1, <3>2, <3>4, <3>5
  <2> QED
    BY <2>2, <2>3
<1>7. Totals(F, g)
  BY <1>4, <1>5, <1>6 DEF Totals
<1> QED
  BY <1>7

\* Every finite set of events has totals.
LEMMA TotalsExist ==
    ASSUME NEW E \in SUBSET Events, IsFiniteSet(E)
    PROVE  \E h : Totals(E, h)
<1> DEFINE S == {n \in Nat : \A F \in SUBSET Events :
                    IsFiniteSet(F) /\ Cardinality(F) = n => \E h : Totals(F, h)}
<1>1. 0 \in S
  <2>1. SUFFICES ASSUME NEW F \in SUBSET Events, IsFiniteSet(F), Cardinality(F) = 0
                 PROVE  \E h : Totals(F, h)
    OBVIOUS
  <2>2. F = {}
    BY <2>1, FS_EmptySet
  <2>3. Totals({}, [T \in SUBSET {} |-> 0])
    BY DEF Totals
  <2> QED
    BY <2>2, <2>3
<1>2. ASSUME NEW n \in S PROVE n + 1 \in S
  <2>1. SUFFICES ASSUME NEW F \in SUBSET Events, IsFiniteSet(F), Cardinality(F) = n + 1
                 PROVE  \E h : Totals(F, h)
    OBVIOUS
  <2>2. n \in Nat
    OBVIOUS
  <2>3. F # {}
    <3>1. Cardinality({}) = 0
      BY FS_EmptySet
    <3>2. n + 1 # 0
      BY <2>2
    <3> QED
      BY <2>1, <3>1, <3>2
  <2>4. PICK e \in F : TRUE
    BY <2>3
  <2> DEFINE G == F \ {e}
  <2>5. IsFiniteSet(G) /\ Cardinality(G) = n
    <3>1. IsFiniteSet(G) /\ Cardinality(G) = Cardinality(F) - 1
      BY <2>1, <2>4, FS_RemoveElement
    <3> QED
      BY <2>1, <2>2, <3>1
  <2>6. G \in SUBSET Events /\ e \in Events \ G /\ G \cup {e} = F
    BY <2>1, <2>4
  <2>7. PICK h : Totals(G, h)
    BY <2>5, <2>6
  <2> HIDE DEF G
  <2> QED
    BY <2>6, <2>7, TotalsExtend
<1>3. S = Nat
  <2> HIDE DEF S
  <2>1. S \in SUBSET Nat
    BY DEF S
  <2> QED
    BY <1>1, <1>2, <2>1, EveryNatural
<1>4. Cardinality(E) \in Nat
  BY FS_CardinalityType
<1> QED
  BY <1>3, <1>4

\* The order in which BudgetIsExact adds up does not matter.
LEMMA BytesAreTotals ==
    ASSUME NEW E \in SUBSET Events, IsFiniteSet(E), NEW h, Totals(E, h)
    PROVE  BytesOfSet(E) = h[E]
<1>1. h = [S \in SUBSET E |-> IF S = {} THEN 0
                              ELSE Cost[CHOOSE x \in S : TRUE] + h[S \ {CHOOSE x \in S : TRUE}]]
  <2>1. \A S \in SUBSET E : S # {} => (CHOOSE x \in S : TRUE) \in S
    OBVIOUS
  <2>2. \A S \in SUBSET E :
            h[S] = IF S = {} THEN 0
                   ELSE Cost[CHOOSE x \in S : TRUE] + h[S \ {CHOOSE x \in S : TRUE}]
    BY <2>1 DEF Totals
  <2> QED
    BY <2>2 DEF Totals
<1>2. PICK g : /\ g = [S \in SUBSET E |->
                         IF S = {} THEN 0
                         ELSE Cost[CHOOSE x \in S : TRUE] + g[S \ {CHOOSE x \in S : TRUE}]]
               /\ BytesOfSet(E) = g[E]
  BY <1>1 DEF BytesOfSet
<1> DEFINE S == {n \in Nat : \A F \in SUBSET E :
                    IsFiniteSet(F) /\ Cardinality(F) = n => g[F] = h[F]}
<1>3. 0 \in S
  <2>1. SUFFICES ASSUME NEW F \in SUBSET E, IsFiniteSet(F), Cardinality(F) = 0
                 PROVE  g[F] = h[F]
    OBVIOUS
  <2>2. F = {} /\ {} \in SUBSET E
    BY <2>1, FS_EmptySet
  <2>3. g[{}] = 0
    BY <1>2, <2>2
  <2> QED
    BY <2>2, <2>3 DEF Totals
<1>4. ASSUME NEW n \in S PROVE n + 1 \in S
  <2>1. SUFFICES ASSUME NEW F \in SUBSET E, IsFiniteSet(F), Cardinality(F) = n + 1
                 PROVE  g[F] = h[F]
    OBVIOUS
  <2>2. n \in Nat
    OBVIOUS
  <2>3. F # {}
    <3>1. Cardinality({}) = 0
      BY FS_EmptySet
    <3>2. n + 1 # 0
      BY <2>2
    <3> QED
      BY <2>1, <3>1, <3>2
  <2>4. PICK e \in F : e = CHOOSE x \in F : TRUE
    BY <2>3
  <2> DEFINE G == F \ {e}
  <2>5. IsFiniteSet(G) /\ Cardinality(G) = n
    <3>1. IsFiniteSet(G) /\ Cardinality(G) = Cardinality(F) - 1
      BY <2>1, <2>4, FS_RemoveElement
    <3> QED
      BY <2>1, <2>2, <3>1
  <2>6. G \in SUBSET E
    OBVIOUS
  <2>7. g[G] = h[G]
    BY <2>5, <2>6
  <2>8. g[F] = Cost[e] + g[G]
    BY <1>2, <2>3, <2>4
  <2>9. h[F] = Cost[e] + h[G]
    BY <2>4 DEF Totals
  <2> QED
    BY <2>7, <2>8, <2>9
<1>5. S = Nat
  <2> HIDE DEF S
  <2>1. S \in SUBSET Nat
    BY DEF S
  <2> QED
    BY <1>3, <1>4, <2>1, EveryNatural
<1>6. Cardinality(E) \in Nat
  BY FS_CardinalityType
<1>7. g[E] = h[E]
  BY <1>5, <1>6
<1> QED
  BY <1>2, <1>7

\* No event, no bytes.
LEMMA BytesOfNothing == BytesOfSet({}) = 0
<1>1. {} \in SUBSET Events /\ IsFiniteSet({})
  BY FS_EmptySet
<1>2. PICK h : Totals({}, h)
  BY <1>1, TotalsExist
<1> QED
  BY <1>1, <1>2, BytesAreTotals DEF Totals

\* An event that joins the set brings its cost.
LEMMA BytesOfMore ==
    ASSUME NEW E \in SUBSET Events, IsFiniteSet(E), NEW e \in Events \ E
    PROVE  BytesOfSet(E \cup {e}) = Cost[e] + BytesOfSet(E) /\ BytesOfSet(E) \in Int
<1> DEFINE F == E \cup {e}
<1>1. IsFiniteSet(F) /\ F \in SUBSET Events /\ F \ {e} = E /\ e \in F /\ E \in SUBSET F
  BY FS_AddElement
<1>2. PICK h : Totals(F, h)
  BY <1>1, TotalsExist
<1> HIDE DEF F
<1>3. h[F] = Cost[e] + h[E] /\ h[E] \in Int
  BY <1>1, <1>2 DEF Totals
<1> DEFINE g == [S \in SUBSET E |-> h[S]]
<1>4. Totals(E, g)
  <2>1. \A S \in SUBSET E : S \in SUBSET F /\ g[S] = h[S] /\ \A d \in S : S \ {d} \in SUBSET E
    BY <1>1
  <2>2. g \in [SUBSET E -> Int] /\ {} \in SUBSET E
    BY <1>2, <2>1 DEF Totals
  <2> HIDE DEF g
  <2> QED
    BY <1>2, <2>1, <2>2 DEF Totals
<1>5. BytesOfSet(E) = h[E]
  BY <1>4, BytesAreTotals
<1>6. BytesOfSet(F) = h[F]
  BY <1>1, <1>2, BytesAreTotals
<1> QED
  BY <1>3, <1>5, <1>6 DEF F

-------------------------------------------------------------------------------
(* The budget counts the events between reservation and release *)

\* An event has one emitter, and the drain holds one only while it appends.
OneHolder == \A p, q \in Emitters : holding[p] # NoEvent /\ holding[p] = holding[q] => p = q
HandIsFull == inflight # NoEvent => drain \in {"append", "release"}

Accounted(held, channel, hand) ==
    BytesOfSet(held) + BytesOf(channel) + (IF hand = NoEvent THEN 0 ELSE Cost[hand])

BudgetInv ==
    /\ TypeOK
    /\ OneHolder
    /\ HandIsFull
    /\ IsFiniteSet(EventsHeld)
    /\ reservedBytes = Accounted(EventsHeld, queue, inflight)

LEMMA BudgetInvImplies == BudgetInv => BudgetIsExact
BY DEF BudgetInv, BudgetIsExact, Accounted, BytesOfSet

\* A sink that has just been opened has reserved nothing.
LEMMA BudgetInit == Init => BudgetInv
<1> SUFFICES ASSUME Init PROVE BudgetInv
  OBVIOUS
<1>1. TypeOK
  BY TypeInit
<1>2. OneHolder /\ HandIsFull
  BY DEF Init, OneHolder, HandIsFull
<1>3. EventsHeld = {}
  BY DEF Init, EventsHeld
<1>4. IsFiniteSet({})
  BY FS_EmptySet
<1>5. Accounted({}, <<>>, NoEvent) = 0
  BY BytesOfNothing, BytesOfNone DEF Accounted
<1>6. reservedBytes = 0 /\ queue = <<>> /\ inflight = NoEvent
  BY DEF Init
<1> QED
  BY <1>1, <1>2, <1>3, <1>4, <1>5, <1>6 DEF BudgetInv

\* The events that emitters hold a reservation for are events.
LEMMA HeldAreEvents == TypeOK => EventsHeld \in SUBSET Events
BY DEF TypeOK, EventsHeld

\* What the emitters hold when one of them has lost or got its event: the others
\* hold what they held.
LEMMA HeldStep ==
    ASSUME TypeOK, TypeOK', OneHolder, NEW p \in Emitters,
           \A q \in Emitters \ {p} : pc'[q] = pc[q] /\ holding'[q] = holding[q]
    PROVE  /\ pc[p] # "reserved" /\ pc'[p] # "reserved" => EventsHeld' = EventsHeld
           /\ pc[p] \notin {"idle", "reserved"} /\ pc'[p] = "reserved" /\ holding' = holding =>
                 /\ EventsHeld' = EventsHeld \cup {holding[p]}
                 /\ holding[p] \in Events \ EventsHeld
           /\ pc[p] = "reserved" /\ pc'[p] # "reserved" =>
                 /\ EventsHeld = EventsHeld' \cup {holding[p]}
                 /\ holding[p] \in Events \ EventsHeld'
<1> USE SinkAssumption DEF TypeOK, EventsHeld
<1>1. ASSUME pc[p] # "reserved", pc'[p] # "reserved" PROVE EventsHeld' = EventsHeld
  <2>1. {q \in Emitters : pc'[q] = "reserved"} = {q \in Emitters : pc[q] = "reserved"}
    BY <1>1
  <2>2. \A q \in {r \in Emitters : pc[r] = "reserved"} : holding'[q] = holding[q]
    BY <1>1
  <2> QED
    BY <2>1, <2>2
<1>2. ASSUME pc[p] \notin {"idle", "reserved"}, pc'[p] = "reserved", holding' = holding
      PROVE  /\ EventsHeld' = EventsHeld \cup {holding[p]}
             /\ holding[p] \in Events \ EventsHeld
  <2>1. {q \in Emitters : pc'[q] = "reserved"} = {q \in Emitters : pc[q] = "reserved"} \cup {p}
    BY <1>2
  <2>2. EventsHeld' = EventsHeld \cup {holding[p]}
    BY <1>2, <2>1
  <2>3. holding[p] \in Events /\ holding[p] # NoEvent
    BY <1>2
  <2>4. holding[p] \notin EventsHeld
    BY <1>2, <2>3 DEF OneHolder
  <2> QED
    BY <2>2, <2>3, <2>4
<1>3. ASSUME pc[p] = "reserved", pc'[p] # "reserved"
      PROVE  /\ EventsHeld = EventsHeld' \cup {holding[p]}
             /\ holding[p] \in Events \ EventsHeld'
  <2> DEFINE R == {q \in Emitters : pc'[q] = "reserved"}
  <2>1. {q \in Emitters : pc[q] = "reserved"} = R \cup {p} /\ p \notin R
    BY <1>3
  <2>2. R \subseteq Emitters \ {p}
    BY <2>1
  <2>3. EventsHeld' = {holding'[q] : q \in R}
    OBVIOUS
  <2>4. EventsHeld = {holding[q] : q \in R \cup {p}}
    BY <2>1
  <2>5. \A q \in R : holding'[q] = holding[q]
    BY <2>2
  <2>6. EventsHeld' = {holding[q] : q \in R}
    BY <2>3, <2>5
  <2>7. holding[p] \in Events /\ holding[p] # NoEvent
    BY <1>3
  <2>8. holding[p] \notin {holding[q] : q \in R}
    BY <2>2, <2>7 DEF OneHolder
  <2> HIDE DEF R, EventsHeld
  <2> QED
    BY <2>4, <2>6, <2>7, <2>8
<1> QED
  BY <1>1, <1>2, <1>3

\* No step of an emitter unbalances the account.
LEMMA BudgetEmit ==
    ASSUME BudgetInv, TypeOK', NEW p \in Emitters, Emit(p)
    PROVE  BudgetInv'
<1> USE SinkAssumption
<1>1. /\ TypeOK /\ OneHolder /\ IsFiniteSet(EventsHeld) /\ HandIsFull
      /\ reservedBytes = Accounted(EventsHeld, queue, inflight)
  BY DEF BudgetInv
<1>2. queue \in Seq(Events) /\ BytesOf(queue) \in Int
  <2>1. queue \in Seq(Events)
    BY <1>1 DEF TypeOK
  <2>2. PICK e : e \in Events
    BY <1>1, HeldAreEvents DEF Emit, EmitStep, RefuseFailed, CheckHealth, RefuseOversize,
          Reserve, RefuseOverBudget, Send, RefuseSend, TypeOK
  <2> QED
    BY <2>1, <2>2, BytesOfAppend
<1>3. \A q \in Emitters \ {p} : pc'[q] = pc[q] /\ holding'[q] = holding[q]
  BY <1>1 DEF Emit, EmitStep, RefuseFailed, CheckHealth, RefuseOversize,
        Reserve, RefuseOverBudget, Send, RefuseSend, Refuse, TypeOK
<1>4. OneHolder'
  <2>1. \/ holding'[p] = NoEvent \/ holding' = holding
        \/ \A q \in Emitters : holding[q] # holding'[p]
    BY <1>1 DEF Emit, EmitStep, RefuseFailed, CheckHealth, RefuseOversize,
          Reserve, RefuseOverBudget, Send, RefuseSend, Refuse, Fresh, TypeOK
  <2> QED
    BY <1>1, <1>3, <2>1 DEF OneHolder
<1>5. UNCHANGED <<drain, inflight>> /\ HandIsFull'
  BY <1>1 DEF HandIsFull, Emit, EmitStep, RefuseFailed, CheckHealth, RefuseOversize,
        Reserve, RefuseOverBudget, Send, RefuseSend
<1>6. /\ pc[p] # "reserved" /\ pc'[p] # "reserved" => EventsHeld' = EventsHeld
      /\ pc[p] \notin {"idle", "reserved"} /\ pc'[p] = "reserved" /\ holding' = holding =>
            /\ EventsHeld' = EventsHeld \cup {holding[p]}
            /\ holding[p] \in Events \ EventsHeld
      /\ pc[p] = "reserved" /\ pc'[p] # "reserved" =>
            /\ EventsHeld = EventsHeld' \cup {holding[p]}
            /\ holding[p] \in Events \ EventsHeld'
  BY <1>1, <1>3, HeldStep
<1>7. EventsHeld \in SUBSET Events
  BY <1>1, HeldAreEvents
<1>8. EventsHeld' \in SUBSET Events
  BY HeldAreEvents DEF TypeOK, EventsHeld
<1>9. SUFFICES IsFiniteSet(EventsHeld') /\ reservedBytes' = Accounted(EventsHeld', queue', inflight)
  BY <1>4, <1>5 DEF BudgetInv
<1>10. ASSUME UNCHANGED <<reservedBytes, queue>>, pc[p] # "reserved", pc'[p] # "reserved"
       PROVE  IsFiniteSet(EventsHeld') /\ reservedBytes' = Accounted(EventsHeld', queue', inflight)
  BY <1>1, <1>6, <1>10
<1>11. CASE Reserve(p) /\ reservedBytes + Cost[holding[p]] <= MaxBytes
  <2>1. /\ reservedBytes' = reservedBytes + Cost[holding[p]] /\ pc[p] = "checked"
        /\ pc'[p] = "reserved" /\ holding' = holding /\ queue' = queue
    BY <1>1, <1>11 DEF Reserve, TypeOK
  <2>2. EventsHeld' = EventsHeld \cup {holding[p]} /\ holding[p] \in Events \ EventsHeld
    BY <1>6, <2>1
  <2>3. IsFiniteSet(EventsHeld')
    BY <1>1, <2>2, FS_AddElement
  <2>4. /\ BytesOfSet(EventsHeld') = Cost[holding[p]] + BytesOfSet(EventsHeld)
        /\ BytesOfSet(EventsHeld) \in Int
    BY <1>1, <1>7, <2>2, BytesOfMore
  <2>5. Cost[holding[p]] \in Int /\ (inflight # NoEvent => Cost[inflight] \in Int)
    BY <1>1, <2>2 DEF TypeOK
  <2>6. reservedBytes = Accounted(EventsHeld, queue, inflight)
    BY <1>1
  <2> QED
    BY <1>2, <2>1, <2>3, <2>4, <2>5, <2>6 DEF Accounted
<1>12. CASE Reserve(p) /\ ~(reservedBytes + Cost[holding[p]] <= MaxBytes)
  BY <1>1, <1>10, <1>12 DEF Reserve, TypeOK
<1>13. ASSUME Send(p) \/ RefuseSend(p)
       PROVE  /\ IsFiniteSet(EventsHeld')
              /\ holding[p] \in Events
              /\ BytesOfSet(EventsHeld) = Cost[holding[p]] + BytesOfSet(EventsHeld')
              /\ BytesOfSet(EventsHeld') \in Int
  <2>1. pc[p] = "reserved" /\ pc'[p] # "reserved"
    BY <1>1, <1>13 DEF Send, RefuseSend, Refuse, TypeOK
  <2>2. EventsHeld = EventsHeld' \cup {holding[p]} /\ holding[p] \in Events \ EventsHeld'
    BY <1>6, <2>1
  <2>3. IsFiniteSet(EventsHeld')
    <3>1. EventsHeld' \subseteq EventsHeld
      BY <2>2
    <3> QED
      BY <1>1, <3>1, FS_Subset
  <2> QED
    BY <1>8, <2>2, <2>3, BytesOfMore
<1>14. CASE Send(p)
  <2>1. BytesOf(queue') = BytesOf(queue) + Cost[holding[p]] /\ reservedBytes' = reservedBytes
    BY <1>2, <1>13, <1>14, BytesOfAppend DEF Send
  <2>2. Cost[holding[p]] \in Int /\ (inflight # NoEvent => Cost[inflight] \in Int)
    BY <1>1, <1>13, <1>14 DEF TypeOK
  <2> QED
    BY <1>1, <1>2, <1>13, <1>14, <2>1, <2>2 DEF Accounted
<1>15. CASE RefuseSend(p)
  <2>1. queue' = queue /\ reservedBytes' = reservedBytes - Cost[holding[p]]
    BY <1>15 DEF RefuseSend
  <2>2. Cost[holding[p]] \in Int /\ (inflight # NoEvent => Cost[inflight] \in Int)
    BY <1>1, <1>13, <1>15 DEF TypeOK
  <2> QED
    BY <1>1, <1>2, <1>13, <1>15, <2>1, <2>2 DEF Accounted
<1>16. CASE RefuseOversize(p) \/ RefuseOverBudget(p)
  BY <1>1, <1>10, <1>16 DEF RefuseOversize, RefuseOverBudget, Refuse, TypeOK
<1>17. ASSUME NEW e \in Events, RefuseFailed(p, e) \/ CheckHealth(p, e)
       PROVE  IsFiniteSet(EventsHeld') /\ reservedBytes' = Accounted(EventsHeld', queue', inflight)
  BY <1>1, <1>10, <1>17 DEF RefuseFailed, CheckHealth, TypeOK
<1> QED
  BY <1>11, <1>12, <1>14, <1>15, <1>16, <1>17 DEF Emit, EmitStep

\* The drain gives back what it takes from the channel and the hand.
LEMMA BudgetDrain ==
    ASSUME BudgetInv, TypeOK', Drain
    PROVE  BudgetInv'
<1> USE SinkAssumption
<1>1. /\ TypeOK /\ OneHolder /\ IsFiniteSet(EventsHeld) /\ HandIsFull
      /\ reservedBytes = Accounted(EventsHeld, queue, inflight)
  BY DEF BudgetInv
<1>2. UNCHANGED <<pc, holding>>
  BY DEF Drain, Receive, ReceiveClosed, DrainAppend, ReleaseBytes, DrainAppendFails, Discard,
        DrainFlush
<1>3. EventsHeld' = EventsHeld /\ OneHolder'
  BY <1>1, <1>2 DEF EventsHeld, OneHolder
<1>4. HandIsFull'
  BY <1>1 DEF HandIsFull, Drain, Receive, ReceiveClosed, DrainAppend, ReleaseBytes,
        DrainAppendFails, Discard, DrainFlush
<1>5. SUFFICES reservedBytes' = Accounted(EventsHeld, queue', inflight')
  BY <1>1, <1>3, <1>4 DEF BudgetInv
<1>6. ASSUME NEW e \in Events
      PROVE  BytesOfSet(EventsHeld) \in Int /\ BytesOf(queue) \in Int /\ Cost[e] \in Int
  <2>1. queue \in Seq(Events) /\ Cost[e] \in Int
    BY <1>1 DEF TypeOK
  <2>2. EventsHeld \in SUBSET Events
    BY <1>1, HeldAreEvents
  <2>3. PICK h : Totals(EventsHeld, h)
    BY <1>1, <2>2, TotalsExist
  <2>4. h[EventsHeld] \in Int
    BY <2>3 DEF Totals
  <2>5. BytesOfSet(EventsHeld) \in Int
    BY <1>1, <2>2, <2>3, <2>4, BytesAreTotals
  <2> QED
    BY <2>1, <2>5, BytesOfAppend
<1>7. ASSUME queue # <<>>
      PROVE  /\ Head(queue) \in Events
             /\ BytesOf(queue) = Cost[Head(queue)] + BytesOf(Tail(queue))
             /\ BytesOf(Tail(queue)) \in Int
  <2>1. queue \in Seq(Events)
    BY <1>1 DEF TypeOK
  <2> QED
    BY <1>7, <2>1, BytesOfTail, HeadTailProperties
<1>8. CASE Receive
  <2>1. /\ queue # <<>> /\ inflight = NoEvent /\ inflight' = Head(queue) /\ queue' = Tail(queue)
        /\ reservedBytes' = reservedBytes
    BY <1>1, <1>8 DEF Receive, HandIsFull
  <2>2. inflight' \in Events /\ inflight' # NoEvent
    BY <1>7, <2>1
  <2> QED
    BY <1>1, <1>6, <1>7, <2>1, <2>2 DEF Accounted
<1>9. CASE ReleaseBytes \/ DrainAppendFails
  <2>1. /\ inflight \in Events /\ inflight' = NoEvent /\ queue' = queue
        /\ reservedBytes' = reservedBytes - Cost[inflight]
    BY <1>1, <1>9 DEF ReleaseBytes, DrainAppendFails, TypeOK
  <2> QED
    BY <1>1, <1>6, <2>1 DEF Accounted
<1>10. CASE Discard
  <2>1. CASE queue = <<>>
    BY <1>1, <1>10, <2>1 DEF Discard
  <2>2. CASE queue # <<>>
    <3>1. /\ inflight = NoEvent /\ inflight' = NoEvent /\ queue' = Tail(queue)
          /\ reservedBytes' = reservedBytes - Cost[Head(queue)]
      BY <1>1, <1>10, <2>2 DEF Discard, HandIsFull
    <3> QED
      BY <1>1, <1>6, <1>7, <2>2, <3>1 DEF Accounted
  <2> QED
    BY <2>1, <2>2
<1>11. CASE ReceiveClosed \/ DrainAppend \/ DrainFlush
  BY <1>1, <1>11 DEF ReceiveClosed, DrainAppend, DrainFlush
<1> QED
  BY <1>8, <1>9, <1>10, <1>11 DEF Drain

\* Every step of the sink keeps the account.
LEMMA BudgetStep == BudgetInv /\ [Next]_vars => BudgetInv'
<1> SUFFICES ASSUME BudgetInv, [Next]_vars PROVE BudgetInv'
  OBVIOUS
<1>1. TypeOK'
  BY TypeStep DEF BudgetInv
<1>2. ASSUME NEW p \in Emitters, Emit(p) PROVE BudgetInv'
  BY <1>1, <1>2, BudgetEmit
<1>3. CASE Drain
  BY <1>1, <1>3, BudgetDrain
<1>4. CASE Close \/ UNCHANGED vars
  <2>1. UNCHANGED <<reservedBytes, queue, inflight, drain, pc, holding>>
    BY <1>4 DEF Close, BeginClose, EndClose, DropSink, vars, sinkVars
  <2>2. OneHolder' /\ HandIsFull' /\ EventsHeld' = EventsHeld
    BY <2>1 DEF BudgetInv, OneHolder, HandIsFull, EventsHeld
  <2> QED
    BY <1>1, <2>1, <2>2 DEF BudgetInv
<1> QED
  BY <1>2, <1>3, <1>4 DEF Next

\* reserved_bytes is the cost of the events an emitter is about to send, of those
\* in the channel and of the one the drain is appending: no path through
\* enqueue_session_event and drain_session_events leaks or forgets a reservation.
THEOREM BudgetBalances == Spec => []BudgetIsExact
<1> QED
  BY BudgetInit, BudgetStep, BudgetInvImplies, PTL DEF Spec

===============================================================================
