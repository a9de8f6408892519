-------------------------- MODULE HarnessRunEndProofs --------------------------
(* How a run ends: the last owner of a clone finalizes it (LastOwner), it has   *)
(* one terminal event (OneCompletion), and its exporters saw what the canonical *)
(* sink saw (ExportsInOrder).                                                   *)
(*                                                                             *)
(* None of these is inductive, and none needs what the success of a run        *)
(* needs.  They share Lists, which adds the other owners to the invariant of    *)
(* HarnessRunProofs: who has a step left holds a clone, a helper has at most    *)
(* one event in hand, a session that has reported has nothing left but its drop, *)
(* and the finalizer drops its clone only of a finalized run, or when its runtime *)
(* ends.  On top of it                                                         *)
(*   Ends    counts the clones: who is releasing one leaves the run settled or  *)
(*           another owner behind, and two release at a time only if their      *)
(*           drops overlapped;                                                  *)
(*   Once    says that nobody who could still write a terminal event is left    *)
(*           when there is one, and that none will be spawned;                  *)
(*   Follow  says how far the exporters are while an owner is at its export;    *)
(*   Closers says that a close ahead of anybody finds the sink open, from which *)
(*           it follows that a closed sink is left alone (SinkLeftAlone).       *)
EXTENDS HarnessRunProofs, FiniteSetTheorems

\* The session or another owner has nothing left to do but to drop its clone.
Gone(l) == l = <<>> \/ LastPhase(l)

HelperList(l) == Gone(l) \/ \E k \in Emission, e \in Items : l = <<<<k, e>>>>

Lists ==
    /\ \A p \in Owners : todo[p] # <<>> => p \in clones
    /\ \A h \in Helpers : HelperList(todo[h])
    /\ ~Live => Gone(todo[Session])
    /\ LastPhase(todo[Finalizer]) => finalized \/ stranded
    /\ Live => vanishedAt = "nowhere"

LInv == HInv /\ Lists

LEMMA Basics ==
    ASSUME LInv
    PROVE  /\ HInv /\ CInv /\ Lists /\ SessionIsNoHelper
           /\ todo \in [Owners -> Seq(Steps)]
           /\ {finalized, taken} \subseteq BOOLEAN
           /\ \A h \in Helpers : h \in Owners
BY Facts, Distinct DEF LInv, HInv, Owners

LEMMA Single ==
    ASSUME todo \in [Owners -> Seq(Steps)], NEW p \in Owners, NEW x, todo[p] = <<x>>
    PROVE  /\ Then(p, <<>>) => todo'[p] = <<>>
           /\ \A y : Then(p, <<y>>) => todo'[p] = <<y>>
<1>1. Then(p, <<>>) => todo'[p] = <<>>
  BY DEF Then
<1>2. ASSUME NEW y, Then(p, <<y>>) PROVE todo'[p] = <<y>>
  <2>1. todo'[p] = <<y>> \o Tail(<<x>>)
    BY <1>2 DEF Then
  <2>2. Tail(<<x>>) = <<>> /\ <<y>> \in Seq({y})
    OBVIOUS
  <2> QED
    BY <2>1, <2>2, ConcatEmptySeq
<1> QED
  BY <1>1, <1>2

\* The step of a list by its phase.
LEMMA PhaseStep ==
    ASSUME NEW p \in Owners
    PROVE  /\ ExitPhase(todo[p]) => /\ Step(p) \in Emission \cup {"finish", "exports", "close", "return"}
                                    /\ ~Gone(todo[p])
           /\ LastPhase(todo[p]) => Step(p) \in {"drop", "release"}
           /\ LastPhase(todo[p]) /\ Step(p) = "drop" => todo[p] = <<<<"drop">>>>
           /\ LastPhase(todo[p]) /\ Step(p) = "release" => todo[p] = <<<<"release">>>>
           /\ todo[p] = <<>> => Step(p) = "none"
BY DEF ExitPhase, FinishPhase, LastPhase, Gone, Step, Emission

LEMMA GoneStep ==
    ASSUME NEW p \in Owners, Gone(todo[p])
    PROVE  Step(p) \in {"none", "drop", "release"}
BY PhaseStep DEF Gone

LEMMA HelperAt ==
    ASSUME LInv, NEW h \in Helpers
    PROVE  /\ Step(h) \in Emission \cup {"none", "drop", "release"}
           /\ Step(h) \in Emission => Event(h) \in Items /\ todo[h] = <<<<Step(h), Event(h)>>>>
           /\ Step(h) = "drop" => todo[h] = <<<<"drop">>>>
           /\ Step(h) = "release" => todo[h] = <<<<"release">>>>
<1>1. h \in Owners /\ HelperList(todo[h])
  BY Basics DEF Lists
<1>2. CASE Gone(todo[h])
  BY <1>1, <1>2, PhaseStep, GoneStep DEF Gone, Emission
<1>3. CASE \E k \in Emission, e \in Items : todo[h] = <<<<k, e>>>>
  BY <1>3 DEF Step, Event, Emission
<1> QED
  BY <1>1, <1>2, <1>3 DEF HelperList

\* Only the lists and the clones of the owners in P change.
LEMMA ListsFrame ==
    ASSUME LInv, NEW P \in SUBSET Owners,
           \A q \in Owners \ P : todo'[q] = todo[q] /\ (q \in clones => q \in clones'),
           \A p \in P : /\ todo'[p] # <<>> => p \in clones'
                        /\ p \in Helpers => HelperList(todo'[p]),
           ~Live' => Gone(todo'[Session]),
           LastPhase(todo'[Finalizer]) => finalized' \/ stranded',
           Live' => vanishedAt' = "nowhere"
    PROVE  Lists'
<1>1. \A p \in Owners : todo'[p] # <<>> => p \in clones'
  BY Basics DEF Lists
<1>2. \A h \in Helpers : HelperList(todo'[h])
  BY Basics DEF Lists
<1> QED
  BY <1>1, <1>2 DEF Lists, HelperList, Gone, LastPhase

LEMMA InitLists == Init => Lists
<1> SUFFICES ASSUME Init PROVE Lists
  OBVIOUS
<1>1. \A p \in Owners : todo[p] = <<>>
  BY DEF Init
<1>2. /\ todo[Session] = <<>> /\ todo[Finalizer] = <<>>
      /\ \A h \in Helpers : todo[h] = <<>>
  BY <1>1, Distinct DEF SessionIsNoHelper, Owners
<1> QED
  BY <1>1, <1>2 DEF Init, Lists, Gone, HelperList, LastPhase, Live

\* A step of a helper.
LEMMA HelperLists ==
    ASSUME LInv, NEW h \in Helpers, OwnerStep(h) \/ Clone(h) \/ DropHelper(h)
    PROVE  Lists'
<1>1. /\ CInv /\ h \in Owners /\ h # Session /\ h # Finalizer /\ SessionIsNoHelper
      /\ todo \in [Owners -> Seq(Steps)] /\ {h} \in SUBSET Owners
      /\ todo[h] # <<>> => h \in clones
  BY Basics DEF SessionIsNoHelper, Lists
<1> DEFINE Kept == /\ \A q \in Owners \ {h} : todo'[q] = todo[q] /\ (q \in clones => q \in clones')
                   /\ UNCHANGED <<result, vanishedAt, finalized>> /\ (stranded => stranded')
           Done == /\ todo'[h] # <<>> => h \in clones'
                   /\ HelperList(todo'[h])
<1>2. ASSUME Kept, Done PROVE Lists'
  <2>1. todo'[Session] = todo[Session] /\ todo'[Finalizer] = todo[Finalizer] /\ Live' = Live
    BY <1>1, <1>2 DEF Live, SessionIsNoHelper
  <2>2. ~Live' => Gone(todo'[Session])
    BY <2>1, Basics DEF Lists
  <2>3. LastPhase(todo'[Finalizer]) => finalized' \/ stranded'
    BY <1>2, <2>1, Basics DEF Lists, LastPhase
  <2>4. Live' => vanishedAt' = "nowhere"
    BY <1>2, <2>1, Basics DEF Lists
  <2> HIDE DEF Kept, Done
  <2> QED
    BY <1>1, <1>2, <2>2, <2>3, <2>4, ListsFrame DEF Kept, Done
<1>3. Gone(<<>>) /\ Gone(<<<<"drop">>>>) /\ Gone(<<<<"release">>>>)
  BY DEF Gone, LastPhase
<1>4. \A l : Gone(l) => HelperList(l)
  BY DEF HelperList
<1> HIDE DEF Kept, Done
<1>5. CASE EmitItem(h)
  <2>1. PICK e \in items : todo' = [todo EXCEPT ![h] = <<<<"emit", e>>>>] /\ h \in clones
    BY <1>5 DEF EmitItem, Begin
  <2>2. /\ todo'[h] = <<<<"emit", e>>>> /\ e \in Items /\ "emit" \in Emission /\ clones' = clones
        /\ \A q \in Owners \ {h} : todo'[q] = todo[q]
        /\ UNCHANGED <<result, vanishedAt, finalized, stranded>>
    BY <1>1, <1>5, <2>1, Facts DEF EmitItem, Types, Emission, sessionVars, emitterVars, dropVars
  <2> QED
    BY <1>2, <2>1, <2>2 DEF HelperList, Kept, Done
<1>6. CASE Enter(h) \/ Canonical(h) \/ Export(h)
  <2>1. /\ Step(h) \in Emission
        /\ Then(h, <<>>) \/ \E k \in Emission : Then(h, <<<<k, Event(h)>>>>)
        /\ UNCHANGED <<result, clones, finalized>>
        /\ \A q \in Owners \ {h} : todo'[q] = todo[q]
    BY <1>1, <1>6, EmissionStep
  <2>2. UNCHANGED <<vanishedAt, stranded>>
    BY <1>6 DEF Enter, Canonical, Export, dropVars
  <2>3. Event(h) \in Items /\ todo[h] = <<<<Step(h), Event(h)>>>>
    BY <2>1, HelperAt
  <2>4. HelperList(todo'[h])
    BY <1>1, <1>3, <1>4, <2>1, <2>3, Single DEF HelperList
  <2>5. todo[h] # <<>>
    BY <2>3
  <2> QED
    BY <1>1, <1>2, <2>1, <2>2, <2>4, <2>5 DEF Kept, Done
<1>7. CASE Finish(h) \/ FinishExports(h) \/ Close(h) \/ Return(h)
  BY <1>1, <1>7, FinishStep
<1>8. CASE Drop(h)
  <2>1. Step(h) = "drop" /\ UNCHANGED <<result, vanishedAt, finalized>>
    BY <1>8 DEF Drop, sessionVars, emitterVars
  <2>2. todo[h] = <<<<"drop">>>>
    BY <2>1, HelperAt
  <2>3. CASE SpawnFinalizer(h)
    <3>1. /\ clones' = clones \cup {Finalizer}
          /\ todo' = [todo EXCEPT ![h] = <<<<"release">>>>, ![Finalizer] = UnexpectedExit]
      BY <2>3 DEF SpawnFinalizer
    <3>2. /\ todo'[h] = <<<<"release">>>> /\ todo'[Finalizer] = UnexpectedExit
          /\ \A q \in Owners \ {h, Finalizer} : todo'[q] = todo[q]
      BY <1>1, <3>1 DEF SessionIsNoHelper
    <3>3. ~LastPhase(todo'[Finalizer])
      BY <3>2 DEF LastPhase, UnexpectedExit
    <3>4. Live' = Live /\ todo'[Session] = todo[Session]
      BY <1>1, <2>1, <3>2 DEF Live, SessionIsNoHelper
    <3>5. ~Live' => Gone(todo'[Session])
      BY <3>4, Basics DEF Lists
    <3>6. Live' => vanishedAt' = "nowhere"
      BY <2>1, <3>4, Basics DEF Lists
    <3>7. {h, Finalizer} \in SUBSET Owners
      BY <1>1 DEF SessionIsNoHelper
    <3>8. \A q \in Owners \ {h, Finalizer} : q \in clones => q \in clones'
      BY <3>1
    <3>9. h \in clones
      BY <1>1, <2>2
    <3>10. \A p \in {h, Finalizer} : /\ todo'[p] # <<>> => p \in clones'
                                     /\ p \in Helpers => HelperList(todo'[p])
      BY <1>1, <1>3, <1>4, <2>2, <3>1, <3>2, <3>9 DEF SessionIsNoHelper
    <3> QED
      BY <3>2, <3>3, <3>5, <3>6, <3>7, <3>8, <3>10, ListsFrame
  <2>4. CASE LetGo(h)
    <3>1. Then(h, <<<<"release">>>>) /\ UNCHANGED clones /\ (stranded => stranded')
      BY <2>4 DEF LetGo
    <3>2. todo'[h] = <<<<"release">>>> /\ h \in clones'
      BY <1>1, <2>2, <3>1, Single
    <3>3. \A q \in Owners \ {h} : todo'[q] = todo[q]
      BY <1>1, <3>1 DEF Then
    <3> QED
      BY <1>2, <1>3, <1>4, <2>1, <3>1, <3>2, <3>3 DEF Kept, Done
  <2> QED
    BY <1>8, <2>3, <2>4 DEF Drop
<1>9. CASE Release(h)
  <2>1. /\ Step(h) = "release" /\ Then(h, <<>>) /\ clones' = clones \ {h}
        /\ UNCHANGED <<result, vanishedAt, finalized, stranded>>
    BY <1>9 DEF Release, sessionVars, emitterVars, dropVars
  <2>2. todo'[h] = <<>>
    BY <1>1, <2>1, HelperAt, Single
  <2>3. \A q \in Owners \ {h} : todo'[q] = todo[q]
    BY <1>1, <2>1 DEF Then
  <2> QED
    BY <1>2, <1>3, <1>4, <2>1, <2>2, <2>3 DEF Kept, Done
<1>10. CASE DropHelper(h)
  <2>1. h \in clones /\ todo' = [todo EXCEPT ![h] = <<<<"drop">>>>]
        /\ UNCHANGED <<clones, result, vanishedAt, finalized, stranded>>
    BY <1>10 DEF DropHelper, Begin, sessionVars, emitterVars, dropVars
  <2>2. todo'[h] = <<<<"drop">>>> /\ \A q \in Owners \ {h} : todo'[q] = todo[q]
    BY <1>1, <2>1
  <2> QED
    BY <1>2, <1>3, <1>4, <2>1, <2>2 DEF Kept, Done
<1>11. CASE Clone(h)
  <2>1. UNCHANGED <<todo, result, vanishedAt, finalized, stranded>> /\ clones' = clones \cup {h}
    BY <1>11 DEF Clone, sessionVars, emitterVars, dropVars
  <2>2. HelperList(todo'[h])
    BY <2>1, Basics DEF Lists
  <2> QED
    BY <1>2, <2>1, <2>2 DEF Kept, Done
<1> QED
  BY <1>5, <1>6, <1>7, <1>8, <1>9, <1>10, <1>11 DEF OwnerStep

\* A step of the finalizer.  It is at work only when the session has gone.
LEMMA FinalizerLists ==
    ASSUME LInv, OwnerStep(Finalizer)
    PROVE  Lists'
<1>1. /\ CInv /\ HInv /\ SessionIsNoHelper /\ Finalizer \in Owners /\ Session \in Owners
      /\ todo \in [Owners -> Seq(Steps)] /\ {Finalizer} \in SUBSET Owners
      /\ Session # Finalizer /\ Finalizer \notin Helpers
  BY Basics DEF SessionIsNoHelper
<1>2. ~EmitItem(Finalizer)
  BY DEF EmitItem, Begin, LInv, HInv, Phases
<1>3. Step(Finalizer) # "none" /\ todo[Finalizer] # <<>>
  <2>1. Step(Finalizer) # "none"
    BY <1>2 DEF OwnerStep, Enter, Canonical, Export, Finish, FinishExports, Close, Return, Drop, Release
  <2> QED
    BY <1>1, <2>1, PhaseStep
<1>4. Finalizer \in clones /\ ~Live /\ Gone(todo[Session])
  BY <1>1, <1>3, LiveAt, Basics DEF Lists
<1>5. ASSUME UNCHANGED result,
             \A q \in Owners \ {Finalizer} : todo'[q] = todo[q] /\ (q \in clones => q \in clones'),
             todo'[Finalizer] # <<>> => Finalizer \in clones',
             LastPhase(todo'[Finalizer]) => finalized' \/ stranded'
      PROVE  Lists'
  <2>1. ~Live' /\ todo'[Session] = todo[Session]
    BY <1>1, <1>4, <1>5 DEF Live
  <2> QED
    BY <1>1, <1>4, <1>5, <2>1, ListsFrame
<1>6. CASE Enter(Finalizer) \/ Canonical(Finalizer) \/ Export(Finalizer)
  <2>1. /\ Step(Finalizer) \in Emission
        /\ \/ Then(Finalizer, <<>>)
           \/ \E k \in Emission : Then(Finalizer, <<<<k, Event(Finalizer)>>>>)
        /\ UNCHANGED <<result, clones>>
        /\ \A q \in Owners \ {Finalizer} : todo'[q] = todo[q]
    BY <1>1, <1>6, EmissionStep
  <2>2. ExitPhase(todo[Finalizer])
    BY <1>1, <1>3, <2>1, PhaseStep DEF HInv, Phases, Emission
  <2>3. ExitPhase(todo'[Finalizer])
    BY <1>1, <2>1, <2>2, ExitEmission
  <2>4. ~LastPhase(todo'[Finalizer])
    BY <2>3 DEF ExitPhase, FinishPhase, LastPhase, Emission
  <2> QED
    BY <1>4, <1>5, <2>1, <2>4
<1>7. CASE Finish(Finalizer) \/ FinishExports(Finalizer) \/ Close(Finalizer) \/ Return(Finalizer)
  <2>1. /\ Step(Finalizer) \in {"finish", "exports", "close", "return"}
        /\ UNCHANGED clones /\ \A q \in Owners \ {Finalizer} : todo'[q] = todo[q]
    BY <1>1, <1>7, FinishStep
  <2>2. UNCHANGED result
    BY <1>1, <1>7 DEF Finish, FinishExports, Close, Return, sessionVars
  <2>3. ExitPhase(todo[Finalizer])
    BY <1>1, <1>3, <2>1, PhaseStep DEF HInv, Phases
  <2>4. CASE Return(Finalizer)
    <3>1. finalized
      BY <1>1, <2>4, AtStep DEF Return, FinishKinds
    <3>2. finalized'
      BY <2>4, <3>1 DEF Return, emitterVars
    <3> QED
      BY <1>4, <1>5, <2>1, <2>2, <3>2
  <2>5. CASE ~Return(Finalizer)
    <3>1. ExitPhase(todo'[Finalizer])
      BY <1>1, <1>7, <2>3, <2>5, ExitFinish
    <3>2. ~LastPhase(todo'[Finalizer])
      BY <3>1 DEF ExitPhase, FinishPhase, LastPhase, Emission
    <3> QED
      BY <1>4, <1>5, <2>1, <2>2, <3>2
  <2> QED
    BY <2>4, <2>5
<1>8. CASE Drop(Finalizer) \/ Release(Finalizer)
  <2>1. /\ Step(Finalizer) \in {"drop", "release"}
        /\ UNCHANGED <<result, finalized>>
    BY <1>8 DEF Drop, Release, emitterVars, sessionVars
  <2>2. LastPhase(todo[Finalizer])
    BY <1>1, <1>3, <2>1, PhaseStep DEF HInv, Phases, Emission
  <2>3. finalized' \/ stranded'
    <3>1. finalized \/ stranded
      BY <2>2, Basics DEF Lists
    <3>2. stranded => stranded'
      BY <1>8 DEF Drop, SpawnFinalizer, LetGo, Release, dropVars
    <3> QED
      BY <2>1, <3>1, <3>2
  <2>4. CASE Drop(Finalizer)
    <3>1. Then(Finalizer, <<<<"release">>>>) /\ UNCHANGED clones
      BY <2>4 DEF Drop, SpawnFinalizer, LetGo
    <3>2. \A q \in Owners \ {Finalizer} : todo'[q] = todo[q]
      BY <1>1, <3>1 DEF Then
    <3> QED
      BY <1>4, <1>5, <2>1, <2>3, <3>1, <3>2
  <2>5. CASE Release(Finalizer)
    <3>1. Then(Finalizer, <<>>) /\ clones' = clones \ {Finalizer} /\ Step(Finalizer) = "release"
      BY <2>5 DEF Release
    <3>2. /\ todo'[Finalizer] = <<>>
          /\ \A q \in Owners \ {Finalizer} : todo'[q] = todo[q]
      BY <1>1, <2>2, <3>1, PhaseStep, Single DEF Then
    <3> QED
      BY <1>5, <2>1, <2>3, <3>1, <3>2
  <2> QED
    BY <1>8, <2>4, <2>5
<1> QED
  BY <1>2, <1>6, <1>7, <1>8 DEF OwnerStep

\* A step of the session.
LEMMA SessionLists ==
    ASSUME LInv, OwnerStep(Session) \/ SessionStep
    PROVE  Lists'
<1>1. /\ CInv /\ HInv /\ SessionIsNoHelper /\ Finalizer \in Owners /\ Session \in Owners
      /\ todo \in [Owners -> Seq(Steps)] /\ {Session} \in SUBSET Owners
      /\ Session # Finalizer /\ Session \notin Helpers
  BY Basics DEF SessionIsNoHelper
<1>2. Gone(<<>>) /\ Gone(<<<<"drop">>>>) /\ Gone(<<<<"release">>>>)
  BY DEF Gone, LastPhase
<1>3. ASSUME \A q \in Owners \ {Session} : todo'[q] = todo[q] /\ (q \in clones => q \in clones'),
             todo'[Session] # <<>> => Session \in clones',
             finalized => finalized', stranded => stranded',
             (Live' /\ vanishedAt' = "nowhere") \/ (~Live' /\ Gone(todo'[Session]))
      PROVE  Lists'
  <2>1. todo'[Finalizer] = todo[Finalizer]
    BY <1>1, <1>3
  <2>2. LastPhase(todo'[Finalizer]) => finalized' \/ stranded'
    BY <1>3, <2>1, Basics DEF Lists
  <2>3. ~Live' => Gone(todo'[Session])
    BY <1>3
  <2>4. Live' => vanishedAt' = "nowhere"
    BY <1>3
  <2> QED
    BY <1>1, <1>3, <2>2, <2>3, <2>4, ListsFrame
<1>13. ASSUME \A q \in Owners \ {Session} : todo'[q] = todo[q],
              clones' = clones, finalized => finalized', stranded' = stranded,
              Live', vanishedAt' = "nowhere", Session \in clones
      PROVE  Lists'
  <2>1. \A q \in Owners \ {Session} : todo'[q] = todo[q] /\ (q \in clones => q \in clones')
    BY <1>13
  <2>2. todo'[Session] # <<>> => Session \in clones'
    BY <1>13
  <2>3. (finalized => finalized') /\ (stranded => stranded')
    BY <1>13
  <2>4. (Live' /\ vanishedAt' = "nowhere") \/ (~Live' /\ Gone(todo'[Session]))
    BY <1>13
  <2> QED
    BY <1>3, <2>1, <2>2, <2>3, <2>4
<1>4. Step(Session) \notin {"none", "drop", "release"} => Live
  BY <1>1, GoneStep, Basics DEF Lists
<1>5. Live => Session \in clones /\ vanishedAt = "nowhere"
  BY <1>1, LiveAt, Basics DEF Lists
<1>6. CASE EmitItem(Session) \/ Complete \/ Fail
  <2>1. /\ result = "running" /\ result' \in {"running", "completing", "failing"}
        /\ UNCHANGED <<vanishedAt, finalized, clones, stranded>>
        /\ \E script : todo' = [todo EXCEPT ![Session] = script]
    BY <1>6 DEF EmitItem, Complete, Fail, Working, Begin, sessionVars, emitterVars, dropVars
  <2>2. \A q \in Owners \ {Session} : todo'[q] = todo[q]
    BY <1>1, <2>1
  <2>3. Live /\ Live' /\ vanishedAt' = "nowhere" /\ Session \in clones
    BY <1>5, <2>1 DEF Live
  <2> QED
    BY <1>5, <1>13, <2>1, <2>2, <2>3
<1>7. CASE Enter(Session) \/ Canonical(Session) \/ Export(Session)
  <2>1. /\ Step(Session) \in Emission /\ UNCHANGED <<result, clones, finalized>>
        /\ \A q \in Owners \ {Session} : todo'[q] = todo[q]
    BY <1>1, <1>7, EmissionStep
  <2>2. UNCHANGED <<vanishedAt, stranded>>
    BY <1>7 DEF Enter, Canonical, Export, dropVars
  <2>3. Live /\ Live'
    BY <1>4, <2>1 DEF Live, Emission
  <2>4. Live' /\ vanishedAt' = "nowhere" /\ Session \in clones
    BY <1>5, <2>1, <2>2, <2>3
  <2> QED
    BY <1>5, <1>13, <2>1, <2>2, <2>3, <2>4
<1>8. CASE Finish(Session) \/ FinishExports(Session) \/ Close(Session) \/ Notify
  <2>1. /\ Step(Session) \in {"finish", "exports", "close", "notify"}
        /\ UNCHANGED <<clones, result, vanishedAt, stranded>> /\ (finalized => finalized')
    BY <1>8 DEF Finish, FinishExports, Close, Notify, emitterVars, sessionVars, dropVars
  <2>2. \A q \in Owners \ {Session} : todo'[q] = todo[q]
    BY <1>1, <1>8 DEF Finish, FinishExports, Close, Notify, Then
  <2>3. Live /\ Live'
    BY <1>4, <2>1 DEF Live
  <2>4. Live' /\ vanishedAt' = "nowhere" /\ Session \in clones
    BY <1>5, <2>1, <2>3
  <2> QED
    BY <1>13, <2>1, <2>2, <2>4
<1>9. CASE Return(Session)
  <2>1. /\ Step(Session) = "return" /\ Then(Session, <<>>) /\ result' \in {"ok", "err"}
        /\ UNCHANGED <<clones, finalized, stranded>>
    BY <1>9 DEF Return, emitterVars, dropVars
  <2>2. Live /\ ~Live'
    BY <1>4, <2>1 DEF Live
  <2>3. todo'[Session] = <<<<"drop">>>>
    <3>1. CASE result = "failing"
      BY <1>1, <1>9, <3>1, ExitReturn DEF HInv, Phases
    <3>2. CASE result = "completing"
      <4>1. todo[Session] = <<<<"return", outcome>>, <<"drop">>>>
        BY <1>1, <2>1, <3>2, CompletingAt
      <4> QED
        BY <1>1, <2>1, <4>1 DEF Then
    <3>3. result # "running"
      BY <1>1, <2>1, <2>2, LiveAt DEF Emission
    <3> QED
      BY <2>2, <3>1, <3>2, <3>3 DEF Live
  <2>4. \A q \in Owners \ {Session} : todo'[q] = todo[q]
    BY <1>1, <2>1 DEF Then
  <2> QED
    BY <1>2, <1>3, <1>5, <2>1, <2>2, <2>3, <2>4
<1>10. CASE Vanish
  <2>1. Live
    BY <1>4, <1>10 DEF Vanish, Working, Live
  <2>2. /\ todo' = [todo EXCEPT ![Session] = <<<<"drop">>>>] /\ ~Live'
        /\ UNCHANGED <<clones, finalized, stranded>>
    BY <1>10 DEF Vanish, Live, emitterVars, dropVars
  <2>3. todo'[Session] = <<<<"drop">>>> /\ \A q \in Owners \ {Session} : todo'[q] = todo[q]
    BY <1>1, <2>2
  <2> QED
    BY <1>2, <1>3, <1>5, <2>1, <2>2, <2>3
<1>11. CASE Drop(Session)
  <2>1. Step(Session) = "drop" /\ ~Live /\ ~Live' /\ UNCHANGED <<finalized, vanishedAt>>
    BY <1>1, <1>11, DropAt DEF Live, sessionVars, emitterVars
  <2>2. todo[Session] = <<<<"drop">>>> /\ Session \in clones
    BY <1>1, <2>1, PhaseStep, Basics DEF Lists, Gone
  <2>3. CASE SpawnFinalizer(Session)
    <3>1. /\ clones' = clones \cup {Finalizer}
          /\ todo' = [todo EXCEPT ![Session] = <<<<"release">>>>, ![Finalizer] = UnexpectedExit]
      BY <2>3 DEF SpawnFinalizer
    <3>2. /\ todo'[Session] = <<<<"release">>>> /\ todo'[Finalizer] = UnexpectedExit
          /\ \A q \in Owners \ {Session, Finalizer} : todo'[q] = todo[q]
      BY <1>1, <3>1
    <3>3. ~LastPhase(todo'[Finalizer])
      BY <3>2 DEF LastPhase, UnexpectedExit
    <3>4. {Session, Finalizer} \in SUBSET Owners
      BY <1>1
    <3>5. \A p \in {Session, Finalizer} : p \in clones' /\ p \notin Helpers
      BY <1>1, <2>2, <3>1 DEF SessionIsNoHelper
    <3>6. \A q \in Owners \ {Session, Finalizer} : q \in clones => q \in clones'
      BY <3>1
    <3> QED
      BY <1>2, <2>1, <3>2, <3>3, <3>4, <3>5, <3>6, ListsFrame
  <2>4. CASE LetGo(Session)
    <3>1. Then(Session, <<<<"release">>>>) /\ UNCHANGED clones /\ (stranded => stranded')
      BY <2>4 DEF LetGo
    <3>2. todo'[Session] = <<<<"release">>>>
      BY <1>1, <2>2, <3>1, Single
    <3>3. \A q \in Owners \ {Session} : todo'[q] = todo[q]
      BY <1>1, <3>1 DEF Then
    <3> QED
      BY <1>2, <1>3, <2>1, <2>2, <3>1, <3>2, <3>3
  <2> QED
    BY <1>11, <2>3, <2>4 DEF Drop
<1>12. CASE Release(Session)
  <2>1. /\ Step(Session) = "release" /\ Then(Session, <<>>) /\ clones' = clones \ {Session}
        /\ UNCHANGED <<result, finalized, vanishedAt, stranded>>
    BY <1>12 DEF Release, emitterVars, sessionVars, dropVars
  <2>2. ~Live /\ ~Live'
    BY <1>1, <2>1, LiveAt DEF Live
  <2>3. todo[Session] = <<<<"release">>>>
    BY <1>1, <2>1, <2>2, PhaseStep, Basics DEF Lists, Gone
  <2>4. todo'[Session] = <<>> /\ \A q \in Owners \ {Session} : todo'[q] = todo[q]
    BY <1>1, <2>1, <2>3, Single DEF Then
  <2> QED
    BY <1>2, <1>3, <2>1, <2>2, <2>4
<1> QED
  BY <1>6, <1>7, <1>8, <1>9, <1>10, <1>11, <1>12 DEF OwnerStep, SessionStep

LEMMA RuntimeEndsLists == ASSUME LInv, RuntimeEnds PROVE Lists'
<1>1. /\ CInv /\ HInv /\ Finalizer \in Owners /\ Session \in Owners
      /\ todo \in [Owners -> Seq(Steps)] /\ {Finalizer} \in SUBSET Owners
      /\ Session # Finalizer /\ Finalizer \notin Helpers
  BY Basics DEF SessionIsNoHelper
<1>2. /\ todo' = [todo EXCEPT ![Finalizer] = <<<<"drop">>>>] /\ stranded' = TRUE
      /\ UNCHANGED <<clones, result, vanishedAt>>
  BY DEF RuntimeEnds, sessionVars
<1>3. Step(Finalizer) # "none" /\ todo[Finalizer] # <<>>
  <2>1. Step(Finalizer) # "none"
    BY DEF RuntimeEnds, UnexpectedExit, Step
  <2> QED
    BY <1>1, <2>1, PhaseStep
<1>4. Finalizer \in clones /\ ~Live /\ ~Live' /\ Gone(todo[Session])
  BY <1>1, <1>2, <1>3, LiveAt, Basics DEF Lists, Live
<1>5. \A q \in Owners \ {Finalizer} : todo'[q] = todo[q]
  BY <1>1, <1>2
<1> QED
  BY <1>1, <1>2, <1>4, <1>5, ListsFrame

LEMMA NextLists == ASSUME LInv, [Next]_vars PROVE LInv'
<1>1. HInv'
  BY NextInv DEF LInv
<1> SUFFICES Lists'
  BY <1>1 DEF LInv
<1>2. CASE \E p \in Owners : OwnerStep(p)
  BY <1>2, HelperLists, FinalizerLists, SessionLists DEF Owners
<1>3. CASE SessionStep
  BY <1>3, SessionLists
<1>4. CASE \E h \in Helpers : Clone(h) \/ DropHelper(h)
  BY <1>4, HelperLists
<1>5. CASE DrainStep \/ UNCHANGED vars
  <2>1. UNCHANGED <<todo, clones, result, finalized, vanishedAt, stranded>>
    BY <1>5 DEF DrainStep, vars, emitterVars, sessionVars, dropVars
  <2> QED
    BY <2>1 DEF LInv, Lists, Live, Gone, HelperList, LastPhase
<1>6. CASE RuntimeEnds
  BY <1>6, RuntimeEndsLists
<1> QED
  BY <1>2, <1>3, <1>4, <1>5, <1>6 DEF Next

--------------------------------------------------------------------------------
(* The last owner *)

LEMMA LastAt ==
    ASSUME LInv, NEW p \in Owners, Step(p) \in {"drop", "release"}
    PROVE  /\ Step(p) = "drop" => todo[p] = <<<<"drop">>>>
           /\ Step(p) = "release" => todo[p] = <<<<"release">>>>
           /\ p \in clones /\ todo[p] # <<>>
           /\ p = Session => ~Live
<1>1. HInv /\ CInv /\ todo[p] # <<>> /\ p \in clones
  BY PhaseStep, Basics DEF Lists
<1>2. p = Session => ~Live
  BY <1>1, LiveAt
<1>3. p = Finalizer => LastPhase(todo[p])
  BY <1>1, PhaseStep, Basics DEF HInv, Phases, Emission, Lists
<1>4. p = Session => LastPhase(todo[p])
  BY <1>1, <1>2, Basics DEF Lists, Gone
<1>5. p \in Helpers => LastPhase(todo[p])
  BY HelperAt DEF LastPhase
<1>6. LastPhase(todo[p])
  BY <1>3, <1>4, <1>5 DEF Owners
<1> QED
  BY <1>1, <1>2, <1>3, <1>6, PhaseStep

\* Every list an owner can have.
LEMMA ListIs ==
    ASSUME LInv, NEW p \in Owners
    PROVE  \/ Gone(todo[p])
           \/ \E k \in Emission, e \in Items : todo[p] = <<<<k, e>>>>
           \/ ExitPhase(todo[p])
           \/ \E k \in Emission : todo[p] = <<<<k, Completed>>, <<"notify">>, <<"finish">>, <<"drop">>>>
           \/ todo[p] = <<<<"notify">>, <<"finish">>, <<"drop">>>>
<1>1. CASE p \in Helpers
  BY <1>1, Basics DEF Lists, HelperList
<1>2. CASE p = Finalizer
  BY <1>2, Basics DEF HInv, Phases, Gone
<1>3. CASE p = Session
  <2>1. CASE ~Live
    BY <1>3, <2>1, Basics DEF Lists
  <2>2. CASE result = "running" \/ result = "failing"
    BY <1>3, <2>2, Basics DEF HInv, Phases, Gone
  <2>3. CASE result = "completing"
    <3>1. CompletingPhase /\ outcome \in {"open", "ok", "err"}
      BY <2>3, Basics, Facts DEF HInv, Phases, Types
    <3>2. CASE todo[Session] = <<<<"return", outcome>>, <<"drop">>>>
      <4>1. outcome # "open"
        BY <2>3, <3>2, Basics, AtStep, CompletingAt, StepTypes DEF Step, Owners
      <4> QED
        BY <1>3, <3>1, <3>2, <4>1 DEF ExitPhase, FinishPhase
    <3>3. CASE todo[Session] # <<<<"return", outcome>>, <<"drop">>>>
      BY <1>3, <3>1, <3>3 DEF CompletingPhase, ExitPhase, FinishPhase, Emission
    <3> QED
      BY <3>2, <3>3
  <2> QED
    BY <2>1, <2>2, <2>3 DEF Live
<1> QED
  BY <1>1, <1>2, <1>3 DEF Owners

LEMMA NoLaterRelease ==
    ASSUME LInv, NEW p \in Owners
    PROVE  "release" \notin LaterKinds(p)
<1>1. CASE Gone(todo[p])
  BY <1>1 DEF Gone, LastPhase, LaterKinds
<1>2. CASE \E k \in Emission, e \in Items : todo[p] = <<<<k, e>>>>
  BY <1>2 DEF LaterKinds
<1>3. CASE ExitPhase(todo[p])
  <2>1. CASE \E k \in Emission : todo[p] = <<<<k, Failed>>, <<"emit", Aborted>>, <<"finish">>, <<"drop">>>>
    BY <2>1 DEF LaterKinds
  <2>2. CASE \E k \in Emission : todo[p] = <<<<k, Aborted>>, <<"finish">>, <<"drop">>>>
    BY <2>2 DEF LaterKinds
  <2>3. CASE FinishPhase(todo[p])
    BY <2>3 DEF FinishPhase, LaterKinds
  <2> QED
    BY <1>3, <2>1, <2>2, <2>3 DEF ExitPhase
<1>4. CASE \E k \in Emission : todo[p] = <<<<k, Completed>>, <<"notify">>, <<"finish">>, <<"drop">>>>
  BY <1>4 DEF LaterKinds
<1>5. CASE todo[p] = <<<<"notify">>, <<"finish">>, <<"drop">>>>
  BY <1>5 DEF LaterKinds
<1> QED
  BY <1>1, <1>2, <1>3, <1>4, <1>5, ListIs

LEMMA ClosingAt ==
    ASSUME LInv, NEW p \in Owners
    PROVE  /\ Step(p) = "exports" => todo[p] = <<<<"exports">>, <<"close">>, <<"drop">>>>
           /\ Step(p) \in {"finish", "exports", "close"} => p \in {Session, Finalizer}
<1>1. Step(p) = "exports" => todo[p] = <<<<"exports">>, <<"close">>, <<"drop">>>>
  BY ListIs DEF Step, Gone, LastPhase, ExitPhase, FinishPhase, Emission
<1>2. Step(p) \in {"finish", "exports", "close"} => p \in {Session, Finalizer}
  BY HelperAt DEF Owners, Emission
<1> QED
  BY <1>1, <1>2

\* What becomes of a run that was closed for good: nothing more is to be done, or an
\* owner is at it.  Only overlapped drops release two clones at a time, and who releases
\* one leaves the run settled or somebody else with a clone.
Settled == outcome # "open" \/ stranded \/ vanishedAt \in {"exports", "close"}

Finishing ==
    finalized => Settled \/ \E p \in {Session, Finalizer} : Step(p) \in {"exports", "close"}

OneReleases ==
    ~overlapped => \A p, q \in Owners : Step(p) = "release" /\ Step(q) = "release" => p = q

Guarded ==
    \A p \in Owners : Step(p) = "release" => Settled \/ overlapped \/ \E q \in clones : q # p

Ends == Finishing /\ OneReleases /\ Guarded /\ LastOwnerFinalizes

LEMMA InitEnds == Init => Ends
<1> SUFFICES ASSUME Init PROVE Ends
  OBVIOUS
<1>1. \A p \in Owners : Step(p) = "none"
  BY DEF Init, Step
<1> QED
  BY <1>1 DEF Init, Ends, Finishing, OneReleases, Guarded, LastOwnerFinalizes

LEMMA SettledStays ==
    ASSUME LInv, [Next]_vars
    PROVE  /\ Settled => Settled'
           /\ overlapped => overlapped'
           /\ vanishedAt' # vanishedAt => Vanish
<1>1. overlapped \in BOOLEAN /\ stranded \in BOOLEAN
  BY Basics, Facts DEF Types
<1>2. CASE \E p \in Owners : OwnerStep(p)
  <2>1. PICK p \in Owners : OwnerStep(p)
    BY <1>2
  <2>2. UNCHANGED vanishedAt
    BY <2>1 DEF OwnerStep, EmitItem, Enter, Canonical, Export, Finish, FinishExports, Close, Return,
                Drop, Release, sessionVars
  <2>3. outcome' = outcome \/ outcome = "open"
    BY <2>1 DEF OwnerStep, EmitItem, Enter, Canonical, Export, Finish, FinishExports, Close, Return,
                Drop, Release, SinkRefuses, Accept, Answer, feedVars
  <2>4. (overlapped => overlapped') /\ (stranded => stranded')
    BY <1>1, <2>1 DEF OwnerStep, EmitItem, Enter, Canonical, Export, Finish, FinishExports, Close,
                Return, Drop, SpawnFinalizer, LetGo, Release, dropVars
  <2> QED
    BY <2>2, <2>3, <2>4 DEF Settled
<1>3. CASE Vanish
  <2>1. Live /\ vanishedAt = "nowhere"
    BY <1>3, Basics, GoneStep DEF Vanish, Working, Live, Lists, Owners
  <2> QED
    BY <1>3, <2>1 DEF Vanish, Settled, feedVars, dropVars
<1>4. CASE \/ Complete \/ Fail \/ Notify \/ DrainStep \/ UNCHANGED vars
           \/ \E h \in Helpers : Clone(h) \/ DropHelper(h)
  BY <1>4 DEF Complete, Fail, Notify, DrainStep, Persist, Clone, DropHelper, vars, feedVars,
              sessionVars, dropVars, Settled
<1>5. CASE RuntimeEnds
  BY <1>5 DEF RuntimeEnds, sessionVars, Settled
<1> QED
  BY <1>2, <1>3, <1>4, <1>5 DEF Next, SessionStep

LEMMA SameStep == ASSUME NEW q, todo'[q] = todo[q] PROVE Step(q)' = Step(q)
BY DEF Step

\* Owner p does something else than drop or release.
LEMMA QuietEnds ==
    ASSUME LInv, Ends, [Next]_vars, NEW p \in Owners,
           \A q \in Owners \ {p} : todo'[q] = todo[q],
           Step(p)' # "release", clones \subseteq clones', overlapped' = overlapped,
           Finishing'
    PROVE  Ends'
<1>1. \A q \in Owners : Step(q)' = "release" => Step(q) = "release" /\ q # p
  BY SameStep
<1>2. OneReleases'
  BY <1>1 DEF Ends, OneReleases
<1>3. Guarded'
  BY <1>1, SettledStays DEF Ends, Guarded
<1>4. LastOwnerFinalizes'
  <2>1. SUFFICES ASSUME clones' = {} PROVE Settled' \/ overlapped'
    BY DEF LastOwnerFinalizes, Settled
  <2>2. Settled \/ overlapped
    BY <2>1 DEF Ends, LastOwnerFinalizes, Settled
  <2> QED
    BY <2>2, SettledStays
<1> QED
  BY <1>2, <1>3, <1>4 DEF Ends

\* Nobody who is closing stops.
LEMMA StillFinishing ==
    ASSUME LInv, Finishing, [Next]_vars, NEW p \in Owners,
           \A q \in Owners \ {p} : todo'[q] = todo[q],
           finalized' = finalized,
           Step(p) \in {"exports", "close"} => Settled' \/ Step(p)' \in {"exports", "close"}
    PROVE  Finishing'
<1> SUFFICES ASSUME finalized'
             PROVE  Settled' \/ \E q \in {Session, Finalizer} : Step(q)' \in {"exports", "close"}
  BY DEF Finishing
<1>1. CASE Settled
  BY <1>1, SettledStays
<1>2. CASE \E q \in {Session, Finalizer} : Step(q) \in {"exports", "close"}
  <2>1. PICK q \in {Session, Finalizer} : Step(q) \in {"exports", "close"}
    BY <1>2
  <2>2. q \in Owners
    BY <2>1 DEF Owners
  <2>3. q # p => Step(q)' \in {"exports", "close"}
    BY <2>1, <2>2, SameStep
  <2> QED
    BY <2>1, <2>3
<1> QED
  BY <1>1, <1>2 DEF Finishing

LEMMA EmissionEnds ==
    ASSUME LInv, Ends, NEW p \in Owners, Enter(p) \/ Canonical(p) \/ Export(p)
    PROVE  Ends'
<1>1. CInv /\ [Next]_vars
  BY Basics DEF Next, OwnerStep
<1>2. /\ Step(p) \in Emission
      /\ Then(p, <<>>) \/ \E k \in Emission : Then(p, <<<<k, Event(p)>>>>)
      /\ UNCHANGED <<clones, finalized>>
      /\ \A q \in Owners \ {p} : todo'[q] = todo[q]
  BY <1>1, EmissionStep
<1>3. todo[p] # <<>> /\ Event(p) \in Events
  BY <1>1, <1>2, AtStep DEF Emission
<1>4. Step(p)' # "release"
  <2>1. CASE Then(p, <<>>)
    BY <1>1, <1>3, <2>1, Facts, ThenNothing, NoLaterRelease
  <2>2. ASSUME NEW k \in Emission, Then(p, <<<<k, Event(p)>>>>)
        PROVE  Step(p)' # "release"
    <3>1. <<k, Event(p)>> \in Steps
      BY <1>3 DEF Steps, Emission
    <3>2. Step(p)' = k
      BY <1>1, <1>3, <2>2, <3>1, Facts, ThenOne
    <3> QED
      BY <3>2 DEF Emission
  <2> QED
    BY <1>2, <2>1, <2>2
<1>5. overlapped' = overlapped
  BY DEF Enter, Canonical, Export, dropVars
<1>6. Finishing'
  BY <1>1, <1>2, StillFinishing DEF Ends, Emission
<1> QED
  BY <1>1, <1>2, <1>4, <1>5, <1>6, QuietEnds

LEMMA FinishEnds ==
    ASSUME LInv, Ends, NEW p \in Owners, Finish(p) \/ FinishExports(p) \/ Close(p) \/ Return(p)
    PROVE  Ends'
<1>1. CInv /\ [Next]_vars
  BY Basics DEF Next, OwnerStep
<1>2. /\ Step(p) \in {"finish", "exports", "close", "return"}
      /\ UNCHANGED clones
      /\ \A q \in Owners \ {p} : todo'[q] = todo[q]
  BY <1>1, FinishStep
<1>3. todo[p] # <<>> /\ todo \in [Owners -> Seq(Steps)] /\ "release" \notin LaterKinds(p)
  BY <1>1, <1>2, AtStep, Facts, NoLaterRelease
<1>4. overlapped' = overlapped
  BY DEF Finish, FinishExports, Close, Return, dropVars
<1>5. ASSUME Step(p)' # "release", Finishing' PROVE Ends'
  BY <1>1, <1>2, <1>4, <1>5, QuietEnds
<1>6. ASSUME NEW answer \in {"ok", "err"}, Then(p, <<<<"return", answer>>>>)
      PROVE  Step(p)' = "return"
  <2>1. <<"return", answer>> \in Steps
    BY DEF Steps
  <2> QED
    BY <1>3, <1>6, <2>1, ThenOne
<1>7. CASE Finish(p) /\ finalized
  <2>1. Step(p)' = "return" /\ finalized' = finalized /\ Step(p) = "finish"
    BY <1>6, <1>7, Facts, Basics DEF Finish
  <2>2. Finishing'
    BY <1>1, <1>2, <2>1, StillFinishing DEF Ends
  <2> QED
    BY <1>5, <2>1, <2>2
<1>8. CASE Finish(p) /\ ~finalized
  <2>1. Step(p) = "finish" /\ Then(p, <<<<"exports">>, <<"close">>>>)
    BY <1>8 DEF Finish
  <2>2. /\ <<"exports">> \in Steps /\ <<"close">> \in Steps
    BY DEF Steps
  <2>3. Step(p)' = "exports"
    <3>1. <<<<"exports">>, <<"close">>>> \in Seq(Steps)
      BY <2>2
    <3>2. todo'[p] = <<<<"exports">>, <<"close">>>> \o Tail(todo[p])
      BY <1>3, <2>1, <3>1, ThenType
    <3>3. Tail(todo[p]) \in Seq(Steps)
      BY <1>3, TailOf
    <3>4. todo'[p] # <<>> /\ Head(todo'[p]) = <<"exports">>
      BY <3>1, <3>2, <3>3
    <3> QED
      BY <3>4 DEF Step
  <2>4. p \in {Session, Finalizer}
    BY <2>1, ClosingAt
  <2>5. Finishing'
    BY <2>3, <2>4 DEF Finishing
  <2> QED
    BY <1>5, <2>3, <2>5
<1>9. CASE FinishExports(p)
  <2>1. Step(p) = "exports" /\ Then(p, <<>>) /\ finalized' = finalized
    BY <1>9 DEF FinishExports
  <2>2. todo'[p] = <<<<"close">>, <<"drop">>>>
    <3>1. todo[p] = <<<<"exports">>, <<"close">>, <<"drop">>>>
      BY <2>1, ClosingAt
    <3>2. todo'[p] = Tail(todo[p])
      BY <1>3, <2>1, ThenNothing
    <3> QED
      BY <3>1, <3>2
  <2>3. Step(p)' = "close"
    BY <2>2 DEF Step
  <2>4. Finishing'
    BY <1>1, <1>2, <2>1, <2>3, StillFinishing DEF Ends
  <2> QED
    BY <1>5, <2>3, <2>4
<1>10. CASE Close(p)
  <2>1. Step(p)' = "return"
    BY <1>6, <1>10 DEF Close
  <2>2. finalized' = finalized /\ Settled'
    BY <1>10 DEF Close, Answer, Settled, emitterVars
  <2>3. Finishing'
    BY <2>2 DEF Finishing
  <2> QED
    BY <1>5, <2>1, <2>3
<1>11. CASE Return(p)
  <2>1. Then(p, <<>>) /\ Step(p) = "return" /\ finalized' = finalized
    BY <1>11 DEF Return, emitterVars
  <2>2. Step(p)' # "release"
    BY <1>3, <2>1, ThenNothing
  <2>3. Finishing'
    BY <1>1, <1>2, <2>1, StillFinishing DEF Ends
  <2> QED
    BY <1>5, <2>2, <2>3
<1> QED
  BY <1>7, <1>8, <1>9, <1>10, <1>11

LEMMA DropEnds == ASSUME LInv, Ends, NEW p \in Owners, Drop(p) PROVE Ends'
<1>1. CInv /\ [Next]_vars /\ SessionIsNoHelper /\ todo \in [Owners -> Seq(Steps)]
  BY Basics DEF Next, OwnerStep
<1>2. /\ Step(p) = "drop" /\ todo[p] = <<<<"drop">>>> /\ p \in clones
      /\ UNCHANGED finalized
      /\ overlapped' = (overlapped \/ \E q \in clones \ {p} : Step(q) = "release")
  BY LastAt DEF Drop, emitterVars
<1>3. \A q \in Owners : Step(q) = "release" => q \in clones \ {p}
  BY <1>2, LastAt
<1>4. CASE SpawnFinalizer(p)
  <2>1. /\ clones = {p} /\ ~finalized /\ clones' = clones \cup {Finalizer} /\ p # Finalizer
        /\ todo' = [todo EXCEPT ![p] = <<<<"release">>>>, ![Finalizer] = UnexpectedExit]
    BY <1>4 DEF SpawnFinalizer, LastClone
  <2>2. /\ todo'[Finalizer] = UnexpectedExit
        /\ \A q \in Owners \ {p, Finalizer} : todo'[q] = todo[q]
    BY <1>1, <2>1 DEF SessionIsNoHelper
  <2>3. Step(Finalizer)' = "emit"
    BY <2>2 DEF Step, UnexpectedExit
  <2>4. \A q \in Owners : Step(q)' = "release" => q = p
    BY <1>3, <2>1, <2>2, <2>3, SameStep
  <2>5. Finalizer \in clones' /\ ~finalized'
    BY <1>2, <2>1
  <2> QED
    BY <2>1, <2>4, <2>5 DEF Ends, Finishing, OneReleases, Guarded, LastOwnerFinalizes
<1>5. CASE LetGo(p)
  <2>1. Then(p, <<<<"release">>>>) /\ UNCHANGED clones
    BY <1>5 DEF LetGo
  <2>2. \A q \in Owners \ {p} : todo'[q] = todo[q]
    BY <1>1, <2>1 DEF Then
  <2>3. Finishing'
    BY <1>1, <1>2, <2>2, StillFinishing DEF Ends
  <2>4. \A q \in Owners : q # p /\ Step(q)' = "release" => Step(q) = "release" /\ q \in clones \ {p}
    BY <1>3, <2>2, SameStep
  <2>5. OneReleases'
    BY <1>2, <2>4 DEF OneReleases
  <2>6. Guarded'
    <3>1. ASSUME NEW q \in Owners, Step(q)' = "release", q # p
          PROVE  \E r \in clones' : r # q
      BY <1>2, <2>1, <3>1
    <3>2. CASE LastClone(p)
      <4>1. Settled'
        BY <1>5, <3>2 DEF LetGo, Settled
      <4> QED
        BY <4>1 DEF Guarded
    <3>3. CASE clones = {p} /\ finalized
      <4>1. finalized /\ ~\E q \in {Session, Finalizer} : Step(q) \in {"exports", "close"}
        <5>1. ASSUME NEW q \in {Session, Finalizer}, Step(q) \in {"exports", "close"}
              PROVE  FALSE
          <6>1. q \in Owners /\ todo[q] # <<>>
            BY <5>1, PhaseStep DEF Owners
          <6>2. q \in clones
            BY <6>1, Basics DEF Lists
          <6> QED
            BY <1>2, <3>3, <5>1, <6>2
        <5> QED
          BY <3>3, <5>1
      <4>2. Settled'
        BY <1>1, <4>1, SettledStays DEF Ends, Finishing
      <4> QED
        BY <4>2 DEF Guarded
    <3>4. CASE clones # {p}
      <4>1. \E r \in clones' : r # p
        BY <1>2, <2>1, <3>4
      <4> QED
        BY <3>1, <4>1 DEF Guarded
    <3> QED
      BY <3>2, <3>3, <3>4 DEF LastClone
  <2>7. LastOwnerFinalizes'
    BY <1>2, <2>1 DEF LastOwnerFinalizes
  <2> QED
    BY <2>3, <2>5, <2>6, <2>7 DEF Ends
<1> QED
  BY <1>4, <1>5 DEF Drop

LEMMA ReleaseEnds == ASSUME LInv, Ends, NEW p \in Owners, Release(p) PROVE Ends'
<1>1. CInv /\ [Next]_vars /\ todo \in [Owners -> Seq(Steps)]
  BY Basics DEF Next, OwnerStep
<1>2. /\ Step(p) = "release" /\ clones' = clones \ {p} /\ Then(p, <<>>)
      /\ UNCHANGED <<finalized, overlapped>>
  BY DEF Release, emitterVars, dropVars
<1>3. \A q \in Owners \ {p} : todo'[q] = todo[q]
  BY <1>1, <1>2 DEF Then
<1>4. Step(p)' = "none"
  <2>1. todo'[p] = <<>>
    BY <1>1, <1>2, LastAt, Single
  <2> QED
    BY <2>1 DEF Step
<1>5. Finishing'
  BY <1>1, <1>2, <1>3, StillFinishing DEF Ends
<1>6. \A q \in Owners : Step(q)' = "release" => Step(q) = "release" /\ q # p
  BY <1>3, <1>4, SameStep
<1>7. OneReleases'
  BY <1>2, <1>6 DEF Ends, OneReleases
<1>8. Guarded'
  <2>1. ASSUME NEW q \in Owners, Step(q)' = "release" PROVE overlapped'
    BY <1>2, <1>6, <2>1 DEF Ends, OneReleases
  <2> QED
    BY <2>1 DEF Guarded
<1>9. LastOwnerFinalizes'
  <2>1. SUFFICES ASSUME clones' = {} PROVE Settled' \/ overlapped'
    BY DEF LastOwnerFinalizes, Settled
  <2>2. ~\E q \in clones : q # p
    BY <1>2, <2>1
  <2>3. Settled \/ overlapped
    BY <1>2, <2>2 DEF Ends, Guarded
  <2> QED
    BY <1>1, <2>3, SettledStays
<1> QED
  BY <1>5, <1>7, <1>8, <1>9 DEF Ends

\* The steps that give an owner a list it did not have.
LEMMA BeginEnds ==
    ASSUME LInv, Ends,
           \/ \E p \in Owners : EmitItem(p)
           \/ Complete \/ Fail \/ Vanish \/ Notify \/ RuntimeEnds
           \/ \E h \in Helpers : DropHelper(h)
    PROVE  Ends'
<1>1. /\ CInv /\ [Next]_vars /\ SessionIsNoHelper /\ todo \in [Owners -> Seq(Steps)]
      /\ Session \in Owners /\ \A h \in Helpers : h \in Owners
  BY Basics DEF Next, OwnerStep, SessionStep, SessionIsNoHelper
<1>2. UNCHANGED <<clones, finalized, overlapped>>
  BY DEF EmitItem, Complete, Fail, Vanish, Notify, RuntimeEnds, DropHelper, emitterVars, dropVars
<1>3. ASSUME NEW p \in Owners, NEW script, todo' = [todo EXCEPT ![p] = script],
             script # <<>>, Head(script)[1] # "release",
             Step(p) \in {"exports", "close"} => Settled'
      PROVE  Ends'
  <2>1. \A q \in Owners \ {p} : todo'[q] = todo[q]
    BY <1>1, <1>3
  <2>2. Step(p)' # "release"
    BY <1>1, <1>3 DEF Step
  <2>3. Finishing'
    BY <1>1, <1>2, <1>3, <2>1, StillFinishing DEF Ends
  <2> QED
    BY <1>1, <1>2, <2>1, <2>2, <2>3, QuietEnds
<1>4. \A p \in Owners : todo[p] = <<>> => Step(p) \notin {"exports", "close"}
  BY DEF Step
<1>5. CASE \E p \in Owners : EmitItem(p)
  <2>1. PICK p \in Owners, e \in items : /\ todo[p] = <<>>
                                         /\ todo' = [todo EXCEPT ![p] = <<<<"emit", e>>>>]
    BY <1>5 DEF EmitItem, Begin
  <2>2. <<<<"emit", e>>>> # <<>> /\ Head(<<<<"emit", e>>>>)[1] = "emit"
    OBVIOUS
  <2> QED
    BY <1>3, <1>4, <2>1, <2>2
<1>6. CASE Complete \/ Fail
  <2> DEFINE script == IF result' = "completing"
                       THEN <<<<"emit", Completed>>, <<"notify">>, <<"finish">>, <<"drop">>>>
                       ELSE UnexpectedExit
  <2>1. todo[Session] = <<>> /\ todo' = [todo EXCEPT ![Session] = script]
    BY <1>6 DEF Complete, Fail, Begin
  <2>2. script # <<>> /\ Head(script)[1] = "emit"
    BY DEF UnexpectedExit
  <2> HIDE DEF script
  <2> QED
    BY <1>1, <1>3, <1>4, <2>1, <2>2
<1>7. CASE \E h \in Helpers : DropHelper(h)
  <2>1. PICK h \in Helpers : todo[h] = <<>> /\ todo' = [todo EXCEPT ![h] = <<<<"drop">>>>]
    BY <1>7 DEF DropHelper, Begin
  <2>2. <<<<"drop">>>> # <<>> /\ Head(<<<<"drop">>>>)[1] = "drop"
    OBVIOUS
  <2> QED
    BY <1>1, <1>3, <1>4, <2>1, <2>2
<1>8. CASE Vanish
  <2>1. todo' = [todo EXCEPT ![Session] = <<<<"drop">>>>]
    BY <1>8 DEF Vanish
  <2>2. <<<<"drop">>>> # <<>> /\ Head(<<<<"drop">>>>)[1] = "drop"
    OBVIOUS
  <2>3. Step(Session) \in {"exports", "close"} => Settled'
    BY <1>8 DEF Vanish, Settled
  <2> QED
    BY <1>1, <1>3, <2>1, <2>2, <2>3
<1>9. CASE Notify
  <2>1. Step(Session) = "notify" /\ Then(Session, <<>>) /\ todo[Session] # <<>>
    BY <1>1, <1>9, PhaseStep DEF Notify
  <2>2. Step(Session)' # "release" /\ \A q \in Owners \ {Session} : todo'[q] = todo[q]
    BY <1>1, <2>1, ThenNothing, NoLaterRelease
  <2>3. Finishing'
    BY <1>1, <1>2, <2>1, <2>2, StillFinishing DEF Ends
  <2> QED
    BY <1>1, <1>2, <2>2, <2>3, QuietEnds
<1>10. CASE RuntimeEnds
  <2>1. todo' = [todo EXCEPT ![Finalizer] = <<<<"drop">>>>] /\ Settled'
    BY <1>10 DEF RuntimeEnds, Settled
  <2>2. <<<<"drop">>>> # <<>> /\ Head(<<<<"drop">>>>)[1] = "drop"
    OBVIOUS
  <2> QED
    BY <1>1, <1>3, <2>1, <2>2 DEF SessionIsNoHelper
<1> QED
  BY <1>5, <1>6, <1>7, <1>8, <1>9, <1>10

LEMMA NextEnds == ASSUME LInv, Ends, [Next]_vars PROVE Ends'
<1>1. CASE \E p \in Owners : OwnerStep(p)
  BY <1>1, BeginEnds, EmissionEnds, FinishEnds, DropEnds, ReleaseEnds DEF OwnerStep
<1>2. CASE SessionStep \/ RuntimeEnds
  BY <1>2, BeginEnds DEF SessionStep
<1>3. CASE \E h \in Helpers : DropHelper(h)
  BY <1>3, BeginEnds
<1>4. CASE \E h \in Helpers : Clone(h)
  <2>1. PICK h \in Helpers : Clone(h)
    BY <1>4
  <2>2. h \in Owners /\ UNCHANGED <<todo, finalized, overlapped>> /\ clones \subseteq clones' /\ todo[h] = <<>>
    BY <2>1, Basics DEF Clone, emitterVars, dropVars
  <2>3. Step(h)' = "none" /\ Step(h) = "none" /\ \A q \in Owners \ {h} : todo'[q] = todo[q]
    BY <2>2 DEF Step
  <2>4. Finishing'
    BY <2>2, <2>3, StillFinishing DEF Ends
  <2> QED
    BY <2>2, <2>3, <2>4, QuietEnds
<1>5. CASE DrainStep \/ UNCHANGED vars
  <2>1. UNCHANGED <<todo, clones, finalized, overlapped, stranded, outcome, vanishedAt>>
    BY <1>5 DEF DrainStep, Persist, vars, feedVars, emitterVars, sessionVars, dropVars
  <2>2. \A q : Step(q)' = Step(q)
    BY <2>1 DEF Step
  <2> QED
    BY <2>1, <2>2 DEF Ends, Finishing, OneReleases, Guarded, LastOwnerFinalizes, Settled
<1> QED
  BY <1>1, <1>2, <1>3, <1>4, <1>5 DEF Next

LEMMA ListsInvariant == Spec => []LInv
<1>1. Init => LInv
  BY InitInv, InitLists DEF LInv
<1>2. LInv /\ [Next]_vars => LInv'
  BY NextLists
<1> QED
  BY <1>1, <1>2, PTL DEF Spec

\* Arc::strong_count is looked at in the Drop of every clone: the last one finds
\* out that it is the last and spawns the task that finalizes the run, unless two
\* drops overlapped, the session vanished in the middle of its own finish, or no
\* runtime took the task or carried it to its end.
THEOREM LastOwner == Spec => []LastOwnerFinalizes
<1>1. Init => Ends
  BY InitEnds
<1>2. LInv /\ Ends /\ [Next]_vars => Ends'
  BY NextEnds
<1>3. Ends => LastOwnerFinalizes
  BY DEF Ends
<1> QED
  BY <1>1, <1>2, <1>3, ListsInvariant, PTL DEF Spec

--------------------------------------------------------------------------------
(* The sink after its answer *)

\* The steps of a list that lead to the close of the sink.
Closing == {"exports", "close"}

Closers == \A p \in Owners : Kinds(p) \cap Closing # {} => outcome = "open"

\* Who has a closing step ahead is the session or, when that one has gone, the finalizer.
LEMMA OneCloses ==
    ASSUME LInv, NEW p \in Owners, NEW q \in Owners,
           Kinds(p) \cap Closing # {}, Kinds(q) \cap Closing # {}
    PROVE  p = q
<1>1. HInv /\ CInv /\ Lists
  BY Basics
<1>2. p \notin Helpers /\ q \notin Helpers
  BY <1>1, OwnerFacts DEF Closing, Emission
<1>3. ASSUME NEW r \in Owners, Gone(todo[r]) PROVE Kinds(r) \cap Closing = {}
  BY <1>3 DEF Gone, LastPhase, Kinds, Closing
<1>4. Live => Kinds(Finalizer) \cap Closing = {}
  BY <1>1, <1>3, Basics DEF HInv, Phases, Gone, SessionIsNoHelper
<1>5. ~Live => Kinds(Session) \cap Closing = {}
  BY <1>1, <1>3, Basics DEF Lists, SessionIsNoHelper
<1> QED
  BY <1>2, <1>4, <1>5 DEF Owners

\* Steps after which no owner has a closing step that it had not before.
LEMMA ClosersFrame ==
    ASSUME Closers, UNCHANGED outcome,
           \A q \in Owners : \/ todo'[q] = todo[q]
                             \/ Kinds(q)' \cap Closing = {}
                             \/ Kinds(q)' \cap Closing \subseteq Kinds(q)
    PROVE  Closers'
<1>1. ASSUME NEW q \in Owners, Kinds(q)' \cap Closing # {} PROVE Kinds(q) \cap Closing # {}
  BY <1>1, Elsewhere
<1> QED
  BY <1>1 DEF Closers

\* A step of a list that is done, or another one that closes nothing put before the rest.
LEMMA ClosersThen ==
    ASSUME LInv, Closers, UNCHANGED outcome, NEW p \in Owners, Step(p) # "none",
           Then(p, <<>>) \/ \E x \in Steps : x[1] \notin Closing /\ Then(p, <<x>>)
    PROVE  Closers'
<1>1. CInv /\ todo \in [Owners -> Seq(Steps)] /\ todo[p] # <<>> /\ Kinds(p) = {Step(p)} \cup LaterKinds(p)
  BY Basics, AtStep
<1>2. CASE Then(p, <<>>)
  BY <1>1, <1>2, ThenNothing, ClosersFrame
<1>3. ASSUME NEW x \in Steps, x[1] \notin Closing, Then(p, <<x>>) PROVE Closers'
  BY <1>1, <1>3, ThenOne, ClosersFrame
<1> QED
  BY <1>2, <1>3

\* finish_once lets one owner through, and that one finds the sink open.
LEMMA FinishClosers == ASSUME LInv, Closers, NEW p \in Owners, Finish(p) PROVE Closers'
<1>1. CInv /\ Step(p) = "finish" /\ UNCHANGED outcome
  BY Basics DEF Finish, feedVars
<1>2. CASE finalized
  <2>1. <<"return", "ok">> \in Steps /\ <<"return", "ok">>[1] \notin Closing
    BY DEF Steps, Closing
  <2> QED
    BY <1>1, <1>2, <2>1, ClosersThen DEF Finish
<1>3. CASE ~finalized
  <2>1. outcome = "open"
    BY <1>1, <1>3, Facts
  <2> QED
    BY <1>1, <2>1 DEF Closers
<1> QED
  BY <1>2, <1>3

\* Whoever closes the sink was the last to have that ahead.
LEMMA CloseClosers == ASSUME LInv, Closers, NEW p \in Owners, Close(p) PROVE Closers'
<1>1. CInv /\ Step(p) = "close" /\ todo \in [Owners -> Seq(Steps)]
  BY Basics DEF Close
<1>2. todo[p] # <<>> /\ Kinds(p) = {Step(p)} \cup LaterKinds(p)
  BY <1>1, AtStep
<1>3. todo[p] = <<<<"close">>, <<"drop">>>>
  BY <1>1, ListIs DEF Step, Gone, LastPhase, ExitPhase, FinishPhase, Emission
<1>4. LaterKinds(p) \cap Closing = {}
  BY <1>3 DEF LaterKinds, Closing
<1>5. PICK answer \in {"ok", "err"} : Then(p, <<<<"return", answer>>>>)
  BY DEF Close
<1>6. <<"return", answer>> \in Steps /\ <<"return", answer>>[1] \notin Closing
  BY DEF Steps, Closing
<1>7. Kinds(p)' \cap Closing = {} /\ \A q \in Owners \ {p} : todo'[q] = todo[q]
  BY <1>1, <1>2, <1>4, <1>5, <1>6, ThenOne
<1>8. ASSUME NEW q \in Owners \ {p} PROVE Kinds(q)' \cap Closing = {}
  <2>1. Kinds(q)' = Kinds(q)
    BY <1>7, Elsewhere
  <2>2. Kinds(p) \cap Closing # {}
    BY <1>1, <1>2 DEF Closing
  <2> QED
    BY <2>1, <2>2, OneCloses
<1> QED
  BY <1>7, <1>8 DEF Closers

\* The other steps of an owner.
LEMMA OwnerClosers == ASSUME LInv, Closers, NEW p \in Owners, OwnerStep(p) PROVE Closers'
<1>1. CInv /\ todo \in [Owners -> Seq(Steps)]
  BY Basics
<1>2. CASE EmitItem(p)
  <2>1. PICK e \in items : todo' = [todo EXCEPT ![p] = <<<<"emit", e>>>>]
    BY <1>2 DEF EmitItem, Begin
  <2>2. Kinds(p)' \cap Closing = {} /\ \A q \in Owners \ {p} : todo'[q] = todo[q]
    BY <1>1, <2>1 DEF Kinds, Closing
  <2> QED
    BY <1>2, <2>2, ClosersFrame DEF EmitItem, feedVars
<1>3. CASE Enter(p) \/ Canonical(p) \/ Export(p)
  <2>1. /\ Step(p) \in Emission /\ UNCHANGED outcome
        /\ Then(p, <<>>) \/ \E k \in Emission : Then(p, <<<<k, Event(p)>>>>)
    BY <1>1, <1>3, EmissionStep
  <2>2. Event(p) \in Events /\ Step(p) # "none"
    BY <1>1, <2>1, AtStep DEF Emission
  <2>3. ASSUME NEW k \in Emission
        PROVE  <<k, Event(p)>> \in Steps /\ <<k, Event(p)>>[1] \notin Closing
    BY <2>2 DEF Steps, Closing, Emission
  <2> QED
    BY <2>1, <2>2, <2>3, ClosersThen
<1>4. CASE FinishExports(p) \/ Return(p)
  BY <1>4, ClosersThen DEF FinishExports, Return, feedVars
<1>5. CASE Drop(p)
  <2>1. Step(p) = "drop" /\ UNCHANGED outcome
    BY <1>5 DEF Drop, feedVars
  <2>2. CASE Then(p, <<<<"release">>>>)
    <3>1. <<"release">> \in Steps /\ <<"release">>[1] \notin Closing
      BY DEF Steps, Closing
    <3> QED
      BY <2>1, <2>2, <3>1, ClosersThen
  <2>3. CASE todo' = [todo EXCEPT ![p] = <<<<"release">>>>, ![Finalizer] = UnexpectedExit]
    <3>1. ASSUME NEW q \in Owners
          PROVE  \/ todo'[q] = todo[q] \/ todo'[q] = <<<<"release">>>> \/ todo'[q] = UnexpectedExit
      BY <1>1, <2>3
    <3>2. ASSUME NEW q \in Owners, todo'[q] = <<<<"release">>>> \/ todo'[q] = UnexpectedExit
          PROVE  Kinds(q)' \cap Closing = {}
      BY <3>2 DEF Kinds, Closing, UnexpectedExit
    <3> QED
      BY <2>1, <3>1, <3>2, ClosersFrame
  <2> QED
    BY <1>5, <2>2, <2>3 DEF Drop, SpawnFinalizer, LetGo
<1>6. CASE Release(p)
  BY <1>6, ClosersThen DEF Release, feedVars
<1> QED
  BY <1>2, <1>3, <1>4, <1>5, <1>6, FinishClosers, CloseClosers DEF OwnerStep

\* The steps of the session that are not on a list, the helpers and the drain.
LEMMA NextClosers == ASSUME LInv, Closers, [Next]_vars PROVE Closers'
<1>1. CInv /\ todo \in [Owners -> Seq(Steps)] /\ SessionIsNoHelper
  BY Basics
<1>2. CASE Complete \/ Fail \/ Vanish
  <2>1. UNCHANGED outcome
    BY <1>2 DEF Complete, Fail, Vanish, feedVars
  <2>2. PICK l \in {<<<<"emit", Completed>>, <<"notify">>, <<"finish">>, <<"drop">>>>,
                    UnexpectedExit, <<<<"drop">>>>} : todo' = [todo EXCEPT ![Session] = l]
    BY <1>2 DEF Complete, Fail, Vanish, Begin
  <2>3. ASSUME NEW q \in Owners PROVE todo'[q] = todo[q] \/ todo'[q] = l
    BY <1>1, <2>2
  <2>4. ASSUME NEW q \in Owners, todo'[q] = l PROVE Kinds(q)' \cap Closing = {}
    <3>1. CASE l = <<<<"emit", Completed>>, <<"notify">>, <<"finish">>, <<"drop">>>>
      BY <2>4, <3>1 DEF Kinds, Closing
    <3>2. CASE l = UnexpectedExit
      BY <2>4, <3>2 DEF Kinds, Closing, UnexpectedExit
    <3>3. CASE l = <<<<"drop">>>>
      BY <2>4, <3>3 DEF Kinds, Closing
    <3> QED
      BY <2>2, <3>1, <3>2, <3>3
  <2> QED
    BY <2>1, <2>3, <2>4, ClosersFrame
<1>3. CASE Notify
  BY <1>1, <1>3, ClosersThen DEF Notify, feedVars, SessionIsNoHelper
<1>4. ASSUME NEW h \in Helpers, Clone(h) \/ DropHelper(h) PROVE Closers'
  <2>1. UNCHANGED outcome
    BY <1>4 DEF Clone, DropHelper, feedVars
  <2>2. ASSUME NEW q \in Owners PROVE todo'[q] = todo[q] \/ todo'[q] = <<<<"drop">>>>
    BY <1>1, <1>4 DEF Clone, DropHelper, Begin
  <2>3. ASSUME NEW q \in Owners, todo'[q] = <<<<"drop">>>> PROVE Kinds(q)' \cap Closing = {}
    BY <2>3 DEF Kinds, Closing
  <2> QED
    BY <2>1, <2>2, <2>3, ClosersFrame
<1>5. CASE DrainStep \/ UNCHANGED vars
  <2>1. UNCHANGED <<todo, outcome>>
    BY <1>5 DEF DrainStep, Persist, vars, feedVars
  <2> QED
    BY <2>1, ClosersFrame
<1>6. CASE RuntimeEnds
  <2>1. UNCHANGED outcome /\ todo' = [todo EXCEPT ![Finalizer] = <<<<"drop">>>>]
    BY <1>6 DEF RuntimeEnds, feedVars
  <2>2. ASSUME NEW q \in Owners PROVE todo'[q] = todo[q] \/ todo'[q] = <<<<"drop">>>>
    BY <1>1, <2>1
  <2>3. ASSUME NEW q \in Owners, todo'[q] = <<<<"drop">>>> PROVE Kinds(q)' \cap Closing = {}
    BY <2>3 DEF Kinds, Closing
  <2> QED
    BY <2>1, <2>2, <2>3, ClosersFrame
<1> QED
  BY <1>2, <1>3, <1>4, <1>5, <1>6, OwnerClosers DEF Next, SessionStep

\* After the answer of its close the canonical sink is never used again, by no clone of
\* the emitter: no late event is refused by a closed sink, and there is no second close.
THEOREM SinkLeftAlone == Spec => []ClosedSinkIsLeftAlone
<1>1. Init => Closers
  BY DEF Init, FeedInit, Closers
<1>2. LInv /\ Closers => ClosedSinkIsLeftAlone
  <2> SUFFICES ASSUME LInv, Closers, outcome # "open", NEW p \in Owners
               PROVE  Step(p) \notin {"canonical", "close"}
    BY DEF ClosedSinkIsLeftAlone
  <2>1. CInv
    BY Basics
  <2>2. Step(p) # "canonical"
    <3>1. gate = Nobody
      BY <2>1, Facts
    <3> QED
      BY <2>1, <3>1, OwnerFacts
  <2>3. Step(p) # "close"
    <3>1. Step(p) = "close" => "close" \in Kinds(p)
      BY <2>1, AtStep
    <3> QED
      BY <3>1 DEF Closers, Closing
  <2> QED
    BY <2>2, <2>3
<1>3. LInv /\ Closers /\ [Next]_vars => Closers'
  BY NextClosers
<1> QED
  BY <1>1, <1>2, <1>3, ListsInvariant, PTL DEF Spec

--------------------------------------------------------------------------------
(* One terminal event *)

Terminal == {Completed, Aborted}
Offers == {"emit", "canonical"} \X Terminal

HasTerminal == \E i \in DOMAIN feed : feed[i] \in Terminal
OneTerminal == \A i, j \in DOMAIN feed : feed[i] \in Terminal /\ feed[j] \in Terminal => i = j

\* An owner with this list may still offer a terminal event to the sink.
Pending(l) == \E i \in 1 .. Len(l) : l[i] \in Offers

\* With a terminal event in the sequence nobody offers another one, and no drop
\* of a clone spawns a task that would.
Spoken ==
    /\ result # "running"
    /\ \A p \in {Session, Finalizer} : ~Pending(todo[p])
    /\ finalized \/ Live \/ ~Gone(todo[Finalizer])

Once == vanishedAt # "notify" => OneTerminal /\ (HasTerminal => Spoken)

LEMMA TerminalKinds == Completed # Failed /\ Failed \notin Terminal /\ Items \cap Terminal = {}
BY DEF Completed, Failed, Aborted, Terminal, Items

LEMMA PendingTail ==
    ASSUME todo \in [Owners -> Seq(Steps)], NEW p \in Owners, todo[p] # <<>>, Then(p, <<>>), Pending(todo'[p])
    PROVE  Pending(todo[p])
<1>1. todo'[p] = Tail(todo[p])
  BY ThenNothing
<1>2. PICK i \in 1 .. Len(Tail(todo[p])) : Tail(todo[p])[i] \in Offers
  BY <1>1 DEF Pending, Offers, Terminal
<1>3. /\ Len(Tail(todo[p])) = Len(todo[p]) - 1 /\ Len(todo[p]) \in Nat
      /\ \A k \in 1 .. Len(todo[p]) - 1 : Tail(todo[p])[k] = todo[p][k + 1]
  BY TailOf
<1>4. i + 1 \in 1 .. Len(todo[p]) /\ todo[p][i + 1] \in Offers
  BY <1>2, <1>3
<1> QED
  BY <1>4 DEF Pending

LEMMA PendingReplaced ==
    ASSUME todo \in [Owners -> Seq(Steps)], NEW p \in Owners, todo[p] # <<>>,
           NEW x \in Steps, Then(p, <<x>>), Pending(todo'[p])
    PROVE  Pending(todo[p]) \/ x \in Offers
<1> DEFINE t == <<x>> \o Tail(todo[p])
<1>1. todo'[p] = t
  BY ThenOne
<1>2. /\ t[1] = x /\ Len(t) = Len(todo[p])
      /\ \A i \in 2 .. Len(todo[p]) : t[i] = todo[p][i]
  BY OneBefore
<1>3. Len(todo[p]) \in Nat
  BY TailOf
<1> HIDE DEF t
<1>4. PICK i \in 1 .. Len(t) : t[i] \in Offers
  BY <1>1 DEF Pending, Offers, Terminal
<1>5. CASE i = 1
  BY <1>2, <1>4, <1>5
<1>6. CASE i # 1
  <2>1. i \in 1 .. Len(todo[p]) /\ todo[p][i] \in Offers
    BY <1>2, <1>3, <1>4, <1>6
  <2> QED
    BY <2>1 DEF Pending
<1> QED
  BY <1>5, <1>6

LEMMA OfferPending ==
    ASSUME todo \in [Owners -> Seq(Steps)], NEW p \in Owners, todo[p] # <<>>,
           Step(p) \in {"emit", "canonical"}, Event(p) \in Terminal
    PROVE  Pending(todo[p])
<1>1. todo[p][1] = <<Step(p), Event(p)>>
  BY StepTypes DEF Emission
<1>2. 1 \in 1 .. Len(todo[p])
  BY TailOf
<1>3. todo[p][1] \in Offers
  BY <1>1 DEF Offers
<1> QED
  BY <1>2, <1>3 DEF Pending

\* The last part of every list has nothing to offer.
LEMMA NothingPending ==
    ASSUME NEW l,
           \/ Gone(l) \/ FinishPhase(l)
           \/ l = <<<<"notify">>, <<"finish">>, <<"drop">>>>
           \/ l = <<<<"export", Completed>>, <<"notify">>, <<"finish">>, <<"drop">>>>
           \/ l = <<<<"export", Aborted>>, <<"finish">>, <<"drop">>>>
    PROVE  ~Pending(l)
<1>1. CASE Gone(l)
  BY <1>1 DEF Gone, LastPhase, Pending, Offers
<1>2. CASE FinishPhase(l)
  BY <1>2 DEF FinishPhase, Pending, Offers
<1>3. CASE l = <<<<"notify">>, <<"finish">>, <<"drop">>>>
  BY <1>3 DEF Pending, Offers
<1>4. CASE l = <<<<"export", Completed>>, <<"notify">>, <<"finish">>, <<"drop">>>>
  BY <1>4 DEF Pending, Offers
<1>5. CASE l = <<<<"export", Aborted>>, <<"finish">>, <<"drop">>>>
  BY <1>5 DEF Pending, Offers
<1> QED
  BY <1>1, <1>2, <1>3, <1>4, <1>5

\* What follows the offer of a terminal event.
LEMMA AtOffer ==
    ASSUME LInv, NEW p \in Owners, Step(p) = "canonical", Event(p) \in Terminal
    PROVE  /\ p \in {Session, Finalizer} /\ result # "running" /\ todo[p] # <<>>
           /\ Tail(todo[p]) = IF Event(p) = Completed THEN <<<<"notify">>, <<"finish">>, <<"drop">>>>
                              ELSE <<<<"finish">>, <<"drop">>>>
           /\ p = Session => Live
           /\ p = Finalizer => ~Live
<1>1. HInv /\ CInv /\ todo[p] # <<>> /\ SessionIsNoHelper
  BY Basics, AtStep
<1>2. p \in {Session, Finalizer}
  BY HelperAt, TerminalKinds DEF Owners, Emission
<1>3. p = Session => Live /\ result # "running"
  <2>1. p = Session => Live
    BY GoneStep, Basics DEF Lists
  <2> QED
    BY <1>1, <2>1, LiveAt, TerminalKinds
<1>4. p = Finalizer => ~Live
  BY <1>1, LiveAt
<1>5. Tail(todo[p]) = IF Event(p) = Completed THEN <<<<"notify">>, <<"finish">>, <<"drop">>>>
                      ELSE <<<<"finish">>, <<"drop">>>>
  <2>1. CASE Gone(todo[p])
    BY <2>1, GoneStep
  <2>2. CASE \E k \in Emission, e \in Items : todo[p] = <<<<k, e>>>>
    BY <2>2, TerminalKinds DEF Event
  <2>3. CASE \E k \in Emission : todo[p] = <<<<k, Failed>>, <<"emit", Aborted>>, <<"finish">>, <<"drop">>>>
    BY <2>3, TerminalKinds DEF Event
  <2>4. CASE \E k \in Emission : todo[p] = <<<<k, Aborted>>, <<"finish">>, <<"drop">>>>
    <3>1. Event(p) = Aborted /\ Tail(todo[p]) = <<<<"finish">>, <<"drop">>>>
      BY <2>4 DEF Event
    <3>2. Aborted # Completed
      BY DEF Aborted, Completed
    <3> QED
      BY <3>1, <3>2
  <2>5. CASE FinishPhase(todo[p])
    BY <2>5 DEF FinishPhase, Step
  <2>6. CASE \E k \in Emission : todo[p] = <<<<k, Completed>>, <<"notify">>, <<"finish">>, <<"drop">>>>
    BY <2>6 DEF Event
  <2>7. CASE todo[p] = <<<<"notify">>, <<"finish">>, <<"drop">>>>
    BY <2>7 DEF Step
  <2> QED
    BY <2>1, <2>2, <2>3, <2>4, <2>5, <2>6, <2>7, ListIs DEF ExitPhase
<1> QED
  BY <1>1, <1>2, <1>3, <1>4, <1>5 DEF Live

LEMMA InitOnce == Init => Once
BY DEF Init, FeedInit, Once, OneTerminal, HasTerminal

\* An event that ends nothing changes nothing.
LEMMA SameTerminals ==
    ASSUME CInv, UNCHANGED feed \/ \E e \in Events \ Terminal : Accept(e)
    PROVE  /\ HasTerminal' => HasTerminal
           /\ OneTerminal => OneTerminal'
<1>1. feed \in Seq(Events)
  BY Facts DEF Types
<1>2. CASE UNCHANGED feed
  BY <1>2 DEF HasTerminal, OneTerminal
<1>3. CASE \E e \in Events \ Terminal : Accept(e)
  <2>1. PICK e \in Events \ Terminal : feed' = Append(feed, e)
    BY <1>3 DEF Accept
  <2>2. \A i \in DOMAIN feed' : feed'[i] \in Terminal => i \in DOMAIN feed /\ feed'[i] = feed[i]
    BY <1>1, <2>1
  <2> QED
    BY <2>2 DEF HasTerminal, OneTerminal, Terminal
<1> QED
  BY <1>2, <1>3

\* The first terminal event is the only one.
LEMMA FirstTerminal ==
    ASSUME CInv, NEW e \in Terminal, Accept(e), ~HasTerminal
    PROVE  OneTerminal'
<1>1. feed \in Seq(Events) /\ feed' = Append(feed, e) /\ e \in Events
  BY Facts, HarnessAssumption DEF Types, Accept, Terminal
<1>2. \A i \in DOMAIN feed' : feed'[i] \in Terminal => i = Len(feed) + 1
  <2>1. ASSUME NEW i \in DOMAIN feed', feed'[i] \in Terminal, i # Len(feed) + 1 PROVE FALSE
    <3>1. i \in DOMAIN feed /\ feed'[i] = feed[i]
      BY <1>1, <2>1
    <3> QED
      BY <2>1, <3>1 DEF HasTerminal
  <2> QED
    BY <2>1
<1> QED
  BY <1>2 DEF OneTerminal, Terminal

LEMMA OnceFrame ==
    ASSUME LInv, Once, UNCHANGED feed \/ \E e \in Events \ Terminal : Accept(e),
           vanishedAt' # "notify" => vanishedAt # "notify",
           HasTerminal /\ Spoken /\ vanishedAt' # "notify" => Spoken'
    PROVE  Once'
BY SameTerminals, Basics DEF Once

\* A finalizer at work leaves its script at its end, or when its runtime ends.
LEMMA FinalizerGoesOn ==
    ASSUME LInv, [Next]_vars, ~Gone(todo[Finalizer]), ~Return(Finalizer), ~RuntimeEnds
    PROVE  ~Gone(todo'[Finalizer])
<1>1. /\ CInv /\ HInv /\ SessionIsNoHelper /\ todo \in [Owners -> Seq(Steps)]
      /\ Finalizer \in Owners /\ Session \in Owners /\ Session # Finalizer
      /\ \A h \in Helpers : h # Finalizer
  BY Basics DEF SessionIsNoHelper
<1>2. ExitPhase(todo[Finalizer]) /\ todo[Finalizer] # <<>>
  BY <1>1 DEF HInv, Phases, Gone
<1>3. Step(Finalizer) \in Emission \cup {"finish", "exports", "close", "return"}
  BY <1>1, <1>2, PhaseStep
<1>4. \A l : ExitPhase(l) => ~Gone(l)
  BY DEF ExitPhase, FinishPhase, LastPhase, Gone, Emission
<1>5. CASE todo'[Finalizer] = todo[Finalizer]
  BY <1>5
<1>6. CASE Enter(Finalizer) \/ Canonical(Finalizer) \/ Export(Finalizer)
  <2>1. \/ Then(Finalizer, <<>>)
        \/ \E k \in Emission : Then(Finalizer, <<<<k, Event(Finalizer)>>>>)
    BY <1>1, <1>6, EmissionStep
  <2>2. Step(Finalizer) \in Emission
    BY <1>1, <1>6, EmissionStep
  <2>3. ExitPhase(todo'[Finalizer])
    BY <1>1, <1>2, <2>1, <2>2, ExitEmission
  <2> QED
    BY <1>4, <2>3
<1>7. CASE Finish(Finalizer) \/ FinishExports(Finalizer) \/ Close(Finalizer)
  <2>1. ExitPhase(todo'[Finalizer])
    BY <1>1, <1>2, <1>7, ExitFinish
  <2> QED
    BY <1>4, <2>1
<1>8. CASE EmitItem(Finalizer) \/ Drop(Finalizer) \/ Release(Finalizer)
  BY <1>2, <1>3, <1>8 DEF EmitItem, Begin, Drop, Release, Emission
<1>9. ASSUME NEW p \in Owners, p # Finalizer, OwnerStep(p)
      PROVE  todo'[Finalizer] = todo[Finalizer] \/ todo'[Finalizer] = UnexpectedExit
  <2>1. CASE Enter(p) \/ Canonical(p) \/ Export(p)
    BY <1>1, <1>9, <2>1, EmissionStep
  <2>2. CASE Finish(p) \/ FinishExports(p) \/ Close(p) \/ Return(p)
    BY <1>1, <1>9, <2>2, FinishStep
  <2>3. CASE EmitItem(p) \/ Release(p)
    BY <1>1, <1>9, <2>3 DEF EmitItem, Begin, Release, Then
  <2>4. CASE Drop(p)
    BY <1>1, <1>9, <2>4 DEF Drop, SpawnFinalizer, LetGo, Then
  <2> QED
    BY <1>9, <2>1, <2>2, <2>3, <2>4 DEF OwnerStep
<1>10. CASE SessionStep \/ DrainStep \/ UNCHANGED vars
            \/ \E h \in Helpers : Clone(h) \/ DropHelper(h)
  <2>1. todo'[Finalizer] = todo[Finalizer]
    BY <1>1, <1>10 DEF SessionStep, Complete, Fail, Notify, Vanish, Begin, Then, DrainStep, Clone,
       DropHelper, vars
  <2> QED
    BY <2>1
<1>11. ~Gone(UnexpectedExit)
  BY DEF Gone, LastPhase, UnexpectedExit
<1>12. CASE \E p \in Owners : OwnerStep(p)
  <2>1. PICK p \in Owners : OwnerStep(p)
    BY <1>12
  <2>2. CASE p = Finalizer
    BY <1>6, <1>7, <1>8, <2>1, <2>2 DEF OwnerStep
  <2>3. CASE p # Finalizer
    BY <1>5, <1>9, <1>11, <2>1, <2>3
  <2> QED
    BY <2>2, <2>3
<1> QED
  BY <1>10, <1>12 DEF Next

\* Somebody has finalized the run, or still can.
LEMMA NobodyNew ==
    ASSUME LInv, [Next]_vars, Spoken, vanishedAt' # "notify"
    PROVE  finalized' \/ Live' \/ ~Gone(todo'[Finalizer])
<1>1. CInv /\ HInv /\ SessionIsNoHelper /\ finalized \in BOOLEAN
  BY Basics
<1>2. finalized => finalized'
  BY <1>1 DEF Next, OwnerStep, SessionStep, DrainStep, EmitItem, Enter, Canonical, Export, Finish,
      FinishExports, Close, Return, Complete, Fail, Notify, Vanish, Clone, DropHelper, Drop, Release,
      RuntimeEnds, emitterVars, vars
<1>3. CASE finalized
  BY <1>2, <1>3
<1>4. CASE Live
  <2>1. CASE Return(Session)
    <3>1. finalized
      BY <1>1, <2>1, AtStep DEF Return, FinishKinds, SessionIsNoHelper
    <3> QED
      BY <1>2, <3>1
  <2>2. CASE Vanish
    <3>1. Step(Session) \in {"exports", "close"}
      BY <2>2 DEF Vanish, Working, Spoken
    <3>2. finalized
      BY <1>1, <3>1, AtStep DEF FinishKinds, SessionIsNoHelper
    <3> QED
      BY <1>2, <3>2
  <2>3. CASE ~Return(Session) /\ ~Vanish
    <3>1. UNCHANGED result \/ result' \in {"completing", "failing"}
      BY <2>3 DEF Next, OwnerStep, SessionStep, DrainStep, EmitItem, Enter, Canonical, Export, Finish,
         FinishExports, Close, Return, Complete, Fail, Notify, Clone, DropHelper, Drop, Release,
         RuntimeEnds, sessionVars, vars
    <3> QED
      BY <1>4, <3>1 DEF Live
  <2> QED
    BY <2>1, <2>2, <2>3
<1>5. CASE ~Gone(todo[Finalizer]) /\ ~finalized
  <2>1. ~Return(Finalizer)
    BY <1>1, <1>5, AtStep DEF Return, FinishKinds, SessionIsNoHelper
  <2>2. ~RuntimeEnds
    <3>1. Step(Finalizer) \notin {"exports", "close"}
      BY <1>1, <1>5, AtStep DEF FinishKinds, SessionIsNoHelper
    <3>2. todo[Finalizer] # UnexpectedExit
      <4>1. Pending(UnexpectedExit)
        BY DEF Pending, UnexpectedExit, Offers, Terminal
      <4> QED
        BY <4>1 DEF Spoken
    <3> QED
      BY <3>1, <3>2 DEF RuntimeEnds
  <2> QED
    BY <1>5, <2>1, <2>2, FinalizerGoesOn
<1> QED
  BY <1>3, <1>4, <1>5 DEF Spoken

\* An owner's step gives nobody a terminal event to offer.
LEMMA StillSpoken ==
    ASSUME LInv, [Next]_vars, Spoken, vanishedAt' # "notify",
           result' # "running",
           NEW p \in Owners, \A q \in Owners \ {p} : todo'[q] = todo[q],
           p \in {Session, Finalizer} => ~Pending(todo'[p])
    PROVE  Spoken'
<1>1. \A q \in {Session, Finalizer} : ~Pending(todo'[q])
  BY DEF Spoken, Owners
<1> QED
  BY <1>1, NobodyNew DEF Spoken, Pending, Offers, Terminal, Gone, LastPhase

LEMMA EmissionOnce ==
    ASSUME LInv, Once, NEW p \in Owners, Enter(p) \/ Canonical(p) \/ Export(p)
    PROVE  Once'
<1>1. CInv /\ HInv /\ [Next]_vars /\ SessionIsNoHelper /\ LInv'
  BY Basics, NextLists DEF Next, OwnerStep
<1>2. /\ Step(p) \in Emission
      /\ Then(p, <<>>) \/ \E k \in Emission : Then(p, <<<<k, Event(p)>>>>)
      /\ UNCHANGED <<result, clones, finalized>>
      /\ \A q \in Owners \ {p} : todo'[q] = todo[q]
  BY <1>1, EmissionStep
<1>3. todo[p] # <<>> /\ Event(p) \in Events /\ todo \in [Owners -> Seq(Steps)]
  BY <1>1, <1>2, AtStep, Facts DEF Emission
<1>4. UNCHANGED vanishedAt
  BY DEF Enter, Canonical, Export
<1>5. CASE Canonical(p) /\ Accept(Event(p)) /\ Event(p) \in Terminal
  <2>1. Step(p) = "canonical" /\ Then(p, <<<<"export", Event(p)>>>>)
    <3>1. feed \in Seq(Events) /\ feed' = Append(feed, Event(p))
      BY <1>1, <1>5, Facts DEF Types, Accept
    <3>2. feed' # feed
      BY <1>3, <3>1
    <3> QED
      BY <1>5, <3>2 DEF Canonical, SinkRefuses, feedVars
  <2>2. /\ p \in {Session, Finalizer} /\ result # "running"
        /\ Tail(todo[p]) = IF Event(p) = Completed THEN <<<<"notify">>, <<"finish">>, <<"drop">>>>
                           ELSE <<<<"finish">>, <<"drop">>>>
        /\ p = Session => Live
        /\ p = Finalizer => ~Live
    BY <1>5, <2>1, AtOffer
  <2>3. SUFFICES ASSUME vanishedAt' # "notify" PROVE OneTerminal' /\ Spoken'
    BY DEF Once
  <2>4. ~HasTerminal
    BY <1>3, <1>4, <1>5, <2>1, <2>2, <2>3, OfferPending DEF Once, Spoken
  <2>5. OneTerminal'
    BY <1>1, <1>5, <2>4, FirstTerminal
  <2>6. ~Pending(todo'[p])
    <3>1. <<"export", Event(p)>> \in Steps
      BY <1>3 DEF Steps
    <3>2. todo'[p] = <<<<"export", Event(p)>>>> \o Tail(todo[p])
      BY <1>3, <2>1, <3>1, ThenOne
    <3>3. CASE Event(p) = Completed
      <4>1. todo'[p] = <<<<"export", Completed>>>> \o <<<<"notify">>, <<"finish">>, <<"drop">>>>
        BY <2>2, <3>2, <3>3
      <4>2. todo'[p] = <<<<"export", Completed>>, <<"notify">>, <<"finish">>, <<"drop">>>>
        BY <4>1, OneThenThree
      <4> QED
        BY <4>2, NothingPending
    <3>4. CASE Event(p) # Completed
      <4>1. Event(p) = Aborted
        BY <1>5, <3>4 DEF Terminal
      <4> QED
        BY <2>2, <3>2, <3>4, <4>1, OneThenTwo, NothingPending
    <3> QED
      BY <3>3, <3>4
  <2>7. ASSUME NEW q \in {Session, Finalizer}, q # p PROVE Gone(todo'[q])
    <3>1. q \in Owners /\ todo'[q] = todo[q]
      BY <1>2, <2>7 DEF Owners
    <3>2. CASE p = Session
      BY <1>1, <2>2, <2>7, <3>1, <3>2, LiveAt DEF Gone
    <3>3. CASE p = Finalizer
      BY <1>1, <2>2, <2>7, <3>1, <3>3, Basics DEF Lists
    <3> QED
      BY <2>2, <3>2, <3>3
  <2>8. \A q \in {Session, Finalizer} : ~Pending(todo'[q])
    BY <2>6, <2>7, NothingPending
  <2>9. Live' \/ ~Gone(todo'[Finalizer])
    <3>1. CASE p = Session
      BY <1>2, <2>2, <3>1 DEF Live
    <3>2. CASE p = Finalizer
      <4>1. <<"export", Event(p)>> \in Steps
        BY <1>3 DEF Steps
      <4>2. Step(p)' = "export" /\ todo' \in [Owners -> Seq(Steps)]
            /\ todo'[p] = <<<<"export", Event(p)>>>> \o Tail(todo[p])
        BY <1>3, <2>1, <4>1, ThenOne
      <4>3. todo'[p] # <<>>
        BY <1>3, <4>1, <4>2, OneBefore
      <4> QED
        <5>1. Head(todo'[p])[1] = "export"
          BY <4>2 DEF Step
        <5>2. ~Gone(todo'[p])
          BY <4>3, <5>1 DEF Gone, LastPhase
        <5> QED
          BY <3>2, <5>2
    <3> QED
      BY <2>2, <3>1, <3>2
  <2> QED
    BY <1>2, <2>2, <2>5, <2>8, <2>9 DEF Spoken, Pending, Offers, Terminal, Gone, LastPhase
<1>6. CASE ~(Canonical(p) /\ Accept(Event(p)) /\ Event(p) \in Terminal)
  <2>1. UNCHANGED feed \/ \E e \in Events \ Terminal : Accept(e)
    BY <1>3, <1>6 DEF Enter, Canonical, SinkRefuses, Export, feedVars
  <2>2. ASSUME HasTerminal, Spoken, vanishedAt' # "notify" PROVE Spoken'
    <3>1. ASSUME p \in {Session, Finalizer}, Pending(todo'[p]) PROVE FALSE
      <4>1. ~Pending(todo[p])
        BY <2>2, <3>1 DEF Spoken
      <4>2. CASE Then(p, <<>>)
        BY <1>3, <3>1, <4>1, <4>2, PendingTail
      <4>3. CASE \E k \in Emission : Then(p, <<<<k, Event(p)>>>>)
        <5>1. PICK k \in Emission : Then(p, <<<<k, Event(p)>>>>)
          BY <4>3
        <5>2. <<k, Event(p)>> \in Steps
          BY <1>3 DEF Steps, Emission
        <5>3. <<k, Event(p)>> \in Offers
          BY <1>3, <3>1, <4>1, <5>1, <5>2, PendingReplaced
        <5>4. k # "export" /\ Event(p) \in Terminal
          BY <5>3 DEF Offers
        <5>5. Step(p) = "export"
          BY <1>2, <1>3, <4>1, <5>4, OfferPending DEF Emission
        <5>6. Export(p)
          BY <5>5 DEF Enter, Canonical, Export
        <5>7. Then(p, <<>>)
          BY <5>6 DEF Export, Emitted
        <5> QED
          BY <4>2, <5>7
      <4> QED
        BY <1>2, <4>2, <4>3
    <3> QED
      BY <1>1, <1>2, <2>2, <3>1, StillSpoken DEF Spoken
  <2> QED
    BY <1>4, <2>1, <2>2, OnceFrame
<1> QED
  BY <1>5, <1>6

LEMMA FinishOnce ==
    ASSUME LInv, Once, NEW p \in Owners,
           \/ Finish(p) \/ FinishExports(p) \/ Close(p) \/ Return(p)
           \/ p = Session /\ Notify
    PROVE  Once'
<1>1. CInv /\ [Next]_vars
  BY Basics DEF Next, OwnerStep, SessionStep
<1>2. /\ Step(p) \in {"finish", "exports", "close", "return", "notify"}
      /\ UNCHANGED <<feed, vanishedAt>> /\ (result' = "running" => result = "running")
  BY DEF Finish, FinishExports, Close, Return, Notify, Answer, feedVars, sessionVars
<1>3. todo[p] # <<>> /\ todo \in [Owners -> Seq(Steps)]
  BY <1>1, <1>2, AtStep, Facts
<1>4. \A q \in Owners \ {p} : todo'[q] = todo[q]
  <2>1. CASE p = Session /\ Notify
    BY <1>3, <2>1 DEF Notify, Then
  <2>2. CASE Finish(p) \/ FinishExports(p) \/ Close(p) \/ Return(p)
    BY <1>1, <2>2, FinishStep
  <2> QED
    BY <2>1, <2>2
<1>5. ASSUME Pending(todo'[p]) PROVE Pending(todo[p])
  <2>1. CASE Then(p, <<>>)
    BY <1>3, <1>5, <2>1, PendingTail
  <2>2. CASE \E answer \in {"ok", "err"} : Then(p, <<<<"return", answer>>>>)
    <3>1. PICK answer \in {"ok", "err"} : Then(p, <<<<"return", answer>>>>)
      BY <2>2
    <3>2. <<"return", answer>> \in Steps /\ <<"return", answer>> \notin Offers
      BY DEF Steps, Offers
    <3> QED
      BY <1>3, <1>5, <3>1, <3>2, PendingReplaced
  <2>3. CASE Finish(p) /\ Then(p, <<<<"exports">>, <<"close">>>>)
    <3>1. todo[p] = <<<<"finish">>, <<"drop">>>>
      BY <2>3, ListIs DEF Finish, Step, Gone, LastPhase, ExitPhase, FinishPhase, Emission
    <3>2. todo'[p] = <<<<"exports">>, <<"close">>>> \o <<<<"drop">>>>
      BY <1>3, <2>3, <3>1 DEF Then
    <3>3. FinishPhase(todo'[p])
      BY <3>2, TwoThenOne DEF FinishPhase
    <3> QED
      BY <1>5, <3>3, NothingPending
  <2> QED
    BY <2>1, <2>2, <2>3 DEF Finish, FinishExports, Close, Return, Notify
<1>6. ASSUME HasTerminal, Spoken, vanishedAt' # "notify" PROVE Spoken'
  BY <1>1, <1>2, <1>4, <1>5, <1>6, StillSpoken DEF Spoken
<1> QED
  BY <1>2, <1>6, OnceFrame

LEMMA LeaveOnce ==
    ASSUME LInv, Once, NEW p \in Owners,
           \/ Drop(p) \/ Release(p)
           \/ p = Session /\ Vanish
           \/ p = Finalizer /\ RuntimeEnds
    PROVE  Once'
<1>1. CInv /\ HInv /\ [Next]_vars /\ SessionIsNoHelper /\ todo \in [Owners -> Seq(Steps)]
  BY Basics DEF Next, OwnerStep, SessionStep
<1>2. UNCHANGED feed /\ (result' = "running" => result = "running")
  BY DEF Drop, Release, Vanish, RuntimeEnds, feedVars, sessionVars
<1>3. vanishedAt' # "notify" => vanishedAt # "notify"
  <2>1. CASE Vanish
    <3>1. Live
      BY <1>1, <2>1, GoneStep, Basics DEF Vanish, Working, Live, Lists, SessionIsNoHelper
    <3> QED
      BY <3>1, Basics DEF Lists
  <2>2. CASE ~Vanish
    BY <2>2 DEF Drop, Release, RuntimeEnds, sessionVars
  <2> QED
    BY <2>1, <2>2
<1>4. ASSUME HasTerminal, Spoken, vanishedAt' # "notify" PROVE Spoken'
  <2>1. ASSUME Gone(todo'[p]), \A q \in Owners \ {p} : todo'[q] = todo[q] PROVE Spoken'
    BY <1>1, <1>2, <1>4, <2>1, NothingPending, StillSpoken DEF Spoken
  <2>2. Gone(<<>>) /\ Gone(<<<<"drop">>>>) /\ Gone(<<<<"release">>>>)
    BY DEF Gone, LastPhase
  <2>3. CASE Release(p)
    <3>1. Step(p) = "release" /\ Then(p, <<>>)
      BY <2>3 DEF Release
    <3>2. todo'[p] = <<>> /\ \A q \in Owners \ {p} : todo'[q] = todo[q]
      BY <1>1, <3>1, LastAt, Single DEF Then
    <3> QED
      BY <2>1, <2>2, <3>2
  <2>4. CASE p = Session /\ Vanish
    <3>1. todo'[p] = <<<<"drop">>>> /\ \A q \in Owners \ {p} : todo'[q] = todo[q]
      BY <1>1, <2>4 DEF Vanish
    <3> QED
      BY <2>1, <2>2, <3>1
  <2>5. CASE Drop(p)
    <3>1. Step(p) = "drop" /\ todo[p] = <<<<"drop">>>>
      BY <2>5, LastAt DEF Drop
    <3>2. ~SpawnFinalizer(p)
      <4>1. SUFFICES ASSUME clones = {p}, ~finalized, p # Finalizer PROVE FALSE
        BY DEF SpawnFinalizer, LastClone
      <4>2. ~Live
        BY <2>5, <4>1, <1>1, DropAt
      <4>3. Finalizer \in clones
        BY <1>1, <1>4, <4>1, <4>2 DEF Spoken, HInv, Phases, Gone
      <4> QED
        BY <4>1, <4>3
    <3>3. Then(p, <<<<"release">>>>)
      BY <2>5, <3>2 DEF Drop, LetGo
    <3>4. todo'[p] = <<<<"release">>>> /\ \A q \in Owners \ {p} : todo'[q] = todo[q]
      BY <1>1, <3>1, <3>3, Single DEF Then
    <3> QED
      BY <2>1, <2>2, <3>4
  <2>6. CASE p = Finalizer /\ RuntimeEnds
    <3>1. todo'[p] = <<<<"drop">>>> /\ \A q \in Owners \ {p} : todo'[q] = todo[q]
      BY <1>1, <2>6 DEF RuntimeEnds
    <3> QED
      BY <2>1, <2>2, <3>1
  <2> QED
    BY <2>3, <2>4, <2>5, <2>6
<1> QED
  BY <1>2, <1>3, <1>4, OnceFrame

\* The session and the other owners begin something.  Only a session at work
\* does, and none is at work once there is a terminal event.
LEMMA BeginOnce ==
    ASSUME LInv, Once,
           \/ \E p \in Owners : EmitItem(p)
           \/ Complete \/ Fail
           \/ \E h \in Helpers : Clone(h) \/ DropHelper(h)
           \/ DrainStep \/ UNCHANGED vars
    PROVE  Once'
<1>1. /\ CInv /\ HInv /\ [Next]_vars /\ SessionIsNoHelper /\ todo \in [Owners -> Seq(Steps)]
  BY Basics DEF Next, OwnerStep, SessionStep
<1>2. UNCHANGED <<feed, vanishedAt>>
  BY DEF EmitItem, Complete, Fail, Clone, DropHelper, DrainStep, Persist, feedVars, sessionVars, vars
<1>3. ASSUME HasTerminal, Spoken, vanishedAt' # "notify" PROVE Spoken'
  <2>1. ~Complete /\ ~Fail
    BY <1>3 DEF Complete, Fail, Working, Spoken
  <2>2. ASSUME NEW p \in Owners, EmitItem(p) PROVE p \notin {Session, Finalizer}
    BY <1>1, <1>3, <2>2 DEF EmitItem, Begin, Working, Spoken, HInv, Phases
  <2>3. /\ UNCHANGED result
        /\ todo'[Session] = todo[Session] /\ todo'[Finalizer] = todo[Finalizer]
    BY <1>1, <2>1, <2>2 DEF EmitItem, Begin, Clone, DropHelper, DrainStep, vars, sessionVars, SessionIsNoHelper
  <2>4. Session \in Owners /\ \A p \in {Session, Finalizer} : ~Pending(todo'[p])
    BY <1>3, <2>3 DEF Spoken, Owners
  <2> QED
    BY <1>1, <1>3, <2>3, <2>4, NobodyNew DEF Spoken, Pending, Offers, Terminal, Gone, LastPhase
<1> QED
  BY <1>2, <1>3, OnceFrame

LEMMA NextOnce == ASSUME LInv, Once, [Next]_vars PROVE Once'
<1>1. Session \in Owners /\ Finalizer \in Owners
  BY DEF Owners
<1>2. CASE \E p \in Owners : OwnerStep(p)
  BY <1>2, BeginOnce, EmissionOnce, FinishOnce, LeaveOnce DEF OwnerStep
<1>3. CASE SessionStep
  BY <1>1, <1>3, BeginOnce, FinishOnce, LeaveOnce DEF SessionStep
<1>4. CASE (\E h \in Helpers : Clone(h) \/ DropHelper(h)) \/ DrainStep \/ UNCHANGED vars
  BY <1>4, BeginOnce
<1>5. CASE RuntimeEnds
  BY <1>1, <1>5, LeaveOnce
<1> QED
  BY <1>2, <1>3, <1>4, <1>5 DEF Next

\* Exactly one terminal event for each run: the completion of a session, its
\* failure and the finalizer of the last clone never both write one, unless the
\* session vanished between its own and finish.
THEOREM OneCompletion == Spec => []CompletedOnce
<1>1. Init => Once
  BY InitOnce
<1>2. LInv /\ Once /\ [Next]_vars => Once'
  BY NextOnce
<1>3. Once => CompletedOnce
  <2> DEFINE S == {i \in DOMAIN feed : feed[i] \in Terminal}
  <2>1. SUFFICES ASSUME Once, vanishedAt # "notify" PROVE Cardinality(S) <= 1
    BY DEF CompletedOnce, Terminal
  <2>2. \A i, j \in S : i = j
    BY <2>1 DEF Once, OneTerminal
  <2> HIDE DEF S
  <2>3. CASE S = {}
    BY <2>3, FS_EmptySet
  <2>4. CASE S # {}
    <3>1. PICK i \in S : S = {i}
      BY <2>2, <2>4
    <3>2. Cardinality({i}) = 1
      BY FS_Singleton
    <3> QED
      BY <3>1, <3>2
  <2> QED
    BY <2>3, <2>4
<1> QED
  BY <1>1, <1>2, <1>3, ListsInvariant, PTL DEF Spec

--------------------------------------------------------------------------------
(* The exporters *)

LEMMA ThinnedLonger ==
    ASSUME NEW S, NEW some \in Seq(S), NEW all \in Seq(S), NEW e \in S, Thinned(some, all)
    PROVE  Thinned(some, Append(all, e))
<1>1. PICK at \in [DOMAIN some -> DOMAIN all] :
          /\ \A i, j \in DOMAIN some : i < j => at[i] < at[j]
          /\ \A i \in DOMAIN some : some[i] = all[at[i]]
  BY DEF Thinned
<1>2. /\ DOMAIN all \subseteq DOMAIN Append(all, e)
      /\ \A k \in DOMAIN all : Append(all, e)[k] = all[k]
  OBVIOUS
<1>3. at \in [DOMAIN some -> DOMAIN Append(all, e)]
  BY <1>2
<1>4. \A i \in DOMAIN some : some[i] = Append(all, e)[at[i]]
  BY <1>1, <1>2
<1> QED
  BY <1>1, <1>3, <1>4 DEF Thinned

LEMMA ThinnedBoth ==
    ASSUME NEW S, NEW some \in Seq(S), NEW all \in Seq(S), NEW e \in S, Thinned(some, all)
    PROVE  Thinned(Append(some, e), Append(all, e))
<1>1. PICK at \in [DOMAIN some -> DOMAIN all] :
          /\ \A i, j \in DOMAIN some : i < j => at[i] < at[j]
          /\ \A i \in DOMAIN some : some[i] = all[at[i]]
  BY DEF Thinned
<1> DEFINE s == Append(some, e)
           a == Append(all, e)
           n == Len(some)
           m == Len(all)
           to == [i \in DOMAIN s |-> IF i = n + 1 THEN m + 1 ELSE at[i]]
<1>2. /\ n \in Nat /\ m \in Nat
      /\ DOMAIN some = 1 .. n /\ DOMAIN all = 1 .. m
      /\ DOMAIN s = 1 .. n + 1 /\ DOMAIN a = 1 .. m + 1
      /\ s[n + 1] = e /\ a[m + 1] = e
      /\ \A i \in 1 .. n : s[i] = some[i]
      /\ \A k \in 1 .. m : a[k] = all[k]
  OBVIOUS
<1> HIDE DEF s, a, n, m
<1>3. \A i \in DOMAIN s : i # n + 1 => i \in 1 .. n /\ to[i] = at[i] /\ at[i] \in 1 .. m
  BY <1>1, <1>2
<1>4. n + 1 \in DOMAIN s /\ to[n + 1] = m + 1
  BY <1>2
<1>5. to \in [DOMAIN s -> DOMAIN a]
  <2>1. ASSUME NEW i \in DOMAIN s PROVE to[i] \in DOMAIN a
    BY <1>2, <1>3, <1>4
  <2> QED
    BY <2>1
<1> HIDE DEF to
<1>6. ASSUME NEW i \in DOMAIN s, NEW j \in DOMAIN s, i < j PROVE to[i] < to[j]
  <2>1. i # n + 1 /\ i \in 1 .. n
    BY <1>2, <1>3, <1>6
  <2>2. CASE j = n + 1
    BY <1>2, <1>3, <1>4, <2>1, <2>2
  <2>3. CASE j # n + 1
    BY <1>1, <1>2, <1>3, <1>6, <2>1, <2>3
  <2> QED
    BY <2>2, <2>3
<1>7. ASSUME NEW i \in DOMAIN s PROVE s[i] = a[to[i]]
  <2>1. CASE i = n + 1
    BY <1>2, <1>4, <2>1
  <2>2. CASE i # n + 1
    <3>1. some[i] = all[at[i]] /\ to[i] = at[i] /\ i \in 1 .. n /\ at[i] \in 1 .. m
      BY <1>1, <1>2, <1>3, <2>2
    <3> QED
      BY <1>2, <3>1
  <2> QED
    BY <2>1, <2>2
<1>8. Thinned(s, a)
  BY <1>5, <1>6, <1>7 DEF Thinned
<1> QED
  BY <1>8 DEF s, a

\* What the exporter was fed, next to the sequence.
Seen(x, all) == IF x \in Lossy THEN Thinned(exported[x], all) ELSE exported[x] = all

\* An owner at its export step has had its event accepted, and no exporter has
\* it yet; at every other time no exporter is behind.
Follow ==
    /\ taken => finalized
    /\ \A p \in Owners : Step(p) = "export" =>
           \E before \in Seq(Events) :
               feed = Append(before, Event(p)) /\ \A x \in Exporters : Seen(x, before)
    /\ (\A p \in Owners : Step(p) # "export") => \A x \in Exporters : Seen(x, feed)

LEMMA InitFollow == Init => Follow
<1> SUFFICES ASSUME Init PROVE Follow
  OBVIOUS
<1>1. \A p \in Owners : Step(p) = "none"
  BY DEF Init, Step
<1>2. \A x \in Exporters : exported[x] = <<>> /\ feed = <<>>
  BY DEF Init, FeedInit
<1>3. Thinned(<<>>, <<>>)
  <2>1. DOMAIN <<>> = {}
    OBVIOUS
  <2>2. [i \in {} |-> 0] \in [{} -> {}]
    OBVIOUS
  <2> QED
    BY <2>1, <2>2 DEF Thinned
<1> QED
  BY <1>1, <1>2, <1>3 DEF Init, Follow, Seen

LEMMA GateIs ==
    ASSUME LInv
    PROVE  \A p \in Owners : Step(p) \in {"canonical", "export"} <=> gate = p
BY Basics, OwnerFacts

\* Whoever is at the gate stays there, and the events stay where they are.
LEMMA FollowFrame ==
    ASSUME LInv, [Next]_vars, Follow, UNCHANGED <<feed, exported, gate>>,
           gate \in Owners => todo'[gate] = todo[gate],
           taken' => finalized'
    PROVE  Follow'
<1>1. LInv'
  BY NextLists
<1>2. \A p \in Owners : Step(p)' \in {"canonical", "export"} <=> gate = p
  BY <1>1, GateIs DEF LInv, HInv, CInv, TypeOK
<1>3. \A p \in Owners : gate = p => Step(p)' = Step(p) /\ Event(p)' = Event(p)
  BY DEF Step, Event
<1>4. \A p \in Owners : Step(p)' = "export" <=> Step(p) = "export"
  BY <1>2, <1>3, GateIs
<1>5. \A p \in Owners : Step(p)' = "export" => Event(p)' = Event(p)
  BY <1>2, <1>3
<1>6. ASSUME NEW p \in Owners, Step(p)' = "export"
      PROVE  \E before \in Seq(Events) :
                 /\ feed' = Append(before, Event(p)')
                 /\ \A x \in Exporters : IF x \in Lossy THEN Thinned(exported'[x], before)
                                         ELSE exported'[x] = before
  BY <1>4, <1>5, <1>6 DEF Follow, Seen
<1>7. ASSUME \A p \in Owners : Step(p)' # "export"
      PROVE  \A x \in Exporters : IF x \in Lossy THEN Thinned(exported'[x], feed')
                                  ELSE exported'[x] = feed'
  BY <1>4, <1>7 DEF Follow, Seen
<1> QED
  BY <1>6, <1>7 DEF Follow, Seen, Thinned

LEMMA EnterFollow == ASSUME LInv, Follow, NEW p \in Owners, Enter(p) PROVE Follow'
<1>1. /\ [Next]_vars /\ CInv /\ gate = Nobody /\ UNCHANGED <<feed, exported, taken, finalized>>
  BY Basics DEF Next, OwnerStep, Enter, feedVars
<1>2. \A q \in Owners : Step(q) # "export"
  BY <1>1, GateIs, HarnessAssumption
<1>3. \A q \in Owners \ {p} : todo'[q] = todo[q]
  BY <1>1, EmissionStep
<1>4. Step(p)' # "export"
  <2>1. todo[p] # <<>> /\ Event(p) \in Events /\ todo \in [Owners -> Seq(Steps)]
        /\ "export" \notin LaterKinds(p)
    BY <1>1, AtStep, Facts DEF Enter, Emission
  <2>2. CASE Then(p, <<>>)
    BY <2>1, <2>2, ThenNothing
  <2>3. CASE Then(p, <<<<"canonical", Event(p)>>>>)
    <3>1. <<"canonical", Event(p)>> \in Steps
      BY <2>1 DEF Steps
    <3> QED
      BY <2>1, <2>3, <3>1, ThenOne
  <2> QED
    BY <2>2, <2>3 DEF Enter, Emitted
<1>5. \A q \in Owners : Step(q)' # "export"
  BY <1>2, <1>3, <1>4, SameStep
<1> QED
  BY <1>1, <1>2, <1>5 DEF Follow, Seen, Thinned

LEMMA CanonicalFollow == ASSUME LInv, Follow, NEW p \in Owners, Canonical(p) PROVE Follow'
<1>1. /\ CInv /\ Step(p) = "canonical" /\ UNCHANGED <<exported, taken, finalized>>
      /\ todo \in [Owners -> Seq(Steps)]
  BY Basics DEF Canonical
<1>2. gate = p /\ \A q \in Owners : Step(q) # "export"
  BY <1>1, GateIs
<1>3. \A q \in Owners \ {p} : todo'[q] = todo[q] /\ Step(q)' = Step(q)
  BY <1>1, EmissionStep, SameStep
<1>4. todo[p] # <<>> /\ Event(p) \in Events /\ "export" \notin LaterKinds(p) /\ feed \in Seq(Events)
  BY <1>1, AtStep, Facts DEF Emission, Types
<1>5. \A x \in Exporters : Seen(x, feed)
  BY <1>2 DEF Follow
<1>6. CASE Accept(Event(p)) /\ Then(p, <<<<"export", Event(p)>>>>)
  <2>1. feed' = Append(feed, Event(p))
    BY <1>6 DEF Accept
  <2>2. Step(p)' = "export" /\ Event(p)' = Event(p)
    <3>1. <<"export", Event(p)>> \in Steps
      BY <1>4 DEF Steps
    <3>2. todo'[p] = <<<<"export", Event(p)>>>> \o Tail(todo[p])
      BY <1>1, <1>4, <1>6, <3>1, ThenOne
    <3>3. todo'[p] # <<>> /\ Head(todo'[p]) = <<"export", Event(p)>>
      BY <1>1, <1>4, <3>1, <3>2, OneBefore
    <3> QED
      BY <3>3 DEF Step, Event
  <2>3. ASSUME NEW q \in Owners, Step(q)' = "export"
        PROVE  \E before \in Seq(Events) :
                   /\ feed' = Append(before, Event(q)')
                   /\ \A x \in Exporters : IF x \in Lossy THEN Thinned(exported'[x], before)
                                           ELSE exported'[x] = before
    <3>1. q = p
      BY <1>2, <1>3, <2>3
    <3> QED
      BY <1>1, <1>4, <1>5, <2>1, <2>2, <3>1 DEF Seen
  <2> QED
    BY <1>1, <2>2, <2>3 DEF Follow, Seen, Thinned
<1>7. CASE SinkRefuses(p)
  <2>1. UNCHANGED feed /\ Then(p, <<>>)
    BY <1>7 DEF SinkRefuses, Emitted, feedVars
  <2>2. Step(p)' # "export"
    BY <1>1, <1>4, <2>1, ThenNothing
  <2>3. \A q \in Owners : Step(q)' # "export"
    BY <1>2, <1>3, <2>2
  <2> QED
    BY <1>1, <1>5, <2>1, <2>3 DEF Follow, Seen, Thinned
<1> QED
  BY <1>6, <1>7 DEF Canonical

LEMMA ExportFollow == ASSUME LInv, Follow, NEW p \in Owners, Export(p) PROVE Follow'
<1>1. /\ CInv /\ Step(p) = "export" /\ UNCHANGED <<feed, taken, finalized>> /\ Then(p, <<>>)
      /\ todo \in [Owners -> Seq(Steps)] /\ exported \in [Exporters -> Seq(Events)]
  BY Basics, Facts DEF Export, Emitted, Types, feedVars
<1>2. gate = p /\ \A q \in Owners \ {p} : Step(q) # "export"
  BY <1>1, GateIs
<1>3. ~taken
  <2>1. gate # Nobody
    BY <1>1, <1>2, OwnerFacts
  <2> QED
    BY <1>1, <2>1, Facts DEF Follow
<1>4. todo[p] # <<>> /\ Event(p) \in Events /\ "export" \notin LaterKinds(p)
      /\ \A q \in Owners \ {p} : todo'[q] = todo[q]
  BY <1>1, AtStep, EmissionStep DEF Emission
<1>5. PICK before \in Seq(Events) :
          feed = Append(before, Event(p)) /\ \A x \in Exporters : Seen(x, before)
  BY <1>1 DEF Follow
<1>6. PICK lost \in SUBSET Lossy :
          exported' = [x \in Exporters |-> IF x \in lost THEN exported[x]
                                           ELSE Append(exported[x], Event(p))]
  BY <1>3 DEF Export
<1>7. ASSUME NEW x \in Exporters
      PROVE  IF x \in Lossy THEN Thinned(exported'[x], feed') ELSE exported'[x] = feed'
  <2>1. exported[x] \in Seq(Events) /\ feed' = Append(before, Event(p))
    BY <1>1, <1>5
  <2>2. CASE x \in lost
    <3>1. x \in Lossy /\ exported'[x] = exported[x] /\ Thinned(exported[x], before)
      BY <1>5, <1>6, <2>2 DEF Seen
    <3> QED
      BY <1>4, <2>1, <3>1, ThinnedLonger
  <2>3. CASE x \notin lost /\ x \in Lossy
    <3>1. exported'[x] = Append(exported[x], Event(p)) /\ Thinned(exported[x], before)
      BY <1>5, <1>6, <2>3 DEF Seen
    <3> QED
      BY <1>4, <2>1, <2>3, <3>1, ThinnedBoth
  <2>4. CASE x \notin Lossy
    BY <1>5, <1>6, <2>1, <2>4 DEF Seen
  <2> QED
    BY <2>2, <2>3, <2>4
<1>8. Step(p)' # "export"
  BY <1>1, <1>4, ThenNothing
<1>9. \A q \in Owners : Step(q)' # "export"
  BY <1>2, <1>4, <1>8, SameStep
<1> QED
  BY <1>1, <1>7, <1>9 DEF Follow, Seen, Thinned

\* All the other steps leave the events, the gate and its holder alone.
LEMMA NextFollow == ASSUME LInv, Follow, [Next]_vars PROVE Follow'
<1>1. /\ CInv /\ HInv /\ SessionIsNoHelper /\ todo \in [Owners -> Seq(Steps)]
      /\ finalized \in BOOLEAN /\ taken \in BOOLEAN /\ Session \in Owners /\ Finalizer \in Owners
      /\ \A h \in Helpers : h \in Owners
  BY Basics DEF SessionIsNoHelper
<1>2. CASE \E p \in Owners : Enter(p) \/ Canonical(p) \/ Export(p)
  BY <1>2, EnterFollow, CanonicalFollow, ExportFollow
<1>3. ASSUME NEW p \in Owners, Step(p) \notin {"canonical", "export"},
             UNCHANGED <<feed, exported, gate>>, \A q \in Owners \ {p} : todo'[q] = todo[q],
             taken' => finalized'
      PROVE  Follow'
  <2>1. gate # p
    BY <1>3, GateIs
  <2> QED
    BY <1>3, <2>1, FollowFrame
<1>4. taken => finalized
  BY DEF Follow
<1>5. CASE \E p \in Owners : Finish(p) \/ FinishExports(p) \/ Close(p) \/ Return(p)
  <2>1. PICK p \in Owners : Finish(p) \/ FinishExports(p) \/ Close(p) \/ Return(p)
    BY <1>5
  <2>2. /\ Step(p) \in {"finish", "exports", "close", "return"} /\ UNCHANGED feed
        /\ \A q \in Owners \ {p} : todo'[q] = todo[q]
    BY <1>1, <2>1, FinishStep
  <2>3. UNCHANGED <<exported, gate>>
    BY <2>1 DEF Finish, FinishExports, Close, Return, emitterVars
  <2>4. taken' => finalized'
    <3>1. CASE FinishExports(p)
      BY <1>1, <2>2, <3>1, AtStep DEF FinishExports, FinishKinds
    <3>2. CASE ~FinishExports(p)
      BY <1>4, <2>1, <3>2 DEF Finish, Close, Return, emitterVars
    <3> QED
      BY <3>1, <3>2
  <2> QED
    BY <1>3, <2>2, <2>3, <2>4
<1>6. CASE \E p \in Owners : EmitItem(p) \/ Release(p)
  <2>1. PICK p \in Owners : EmitItem(p) \/ Release(p)
    BY <1>6
  <2>2. /\ Step(p) \in {"none", "release"} /\ \E list : todo' = [todo EXCEPT ![p] = list]
        /\ UNCHANGED <<feed, exported, gate, taken, finalized>>
    BY <2>1 DEF EmitItem, Begin, Release, Then, Step, emitterVars, feedVars
  <2>3. \A q \in Owners \ {p} : todo'[q] = todo[q]
    BY <1>1, <2>2
  <2> QED
    BY <1>3, <1>4, <2>2, <2>3
<1>7. CASE \E p \in Owners : Drop(p)
  <2>1. PICK p \in Owners : Drop(p)
    BY <1>7
  <2>2. /\ Step(p) = "drop" /\ todo[p] # <<>> /\ UNCHANGED <<feed, exported, gate, taken, finalized>>
    BY <2>1, LastAt DEF Drop, emitterVars, feedVars
  <2>3. CASE SpawnFinalizer(p)
    <3>1. todo' = [todo EXCEPT ![p] = <<<<"release">>>>, ![Finalizer] = UnexpectedExit]
      BY <2>3 DEF SpawnFinalizer
    <3>2. p # Finalizer /\ clones = {p}
      BY <2>3 DEF SpawnFinalizer, LastClone
    <3>3. gate # p /\ gate # Finalizer
      <4>1. todo[Finalizer] = <<>>
        BY <1>1, <3>2 DEF HInv, Phases
      <4>2. Step(Finalizer) = "none"
        BY <4>1 DEF Step
      <4> QED
        BY <1>1, <2>2, <4>2, GateIs DEF SessionIsNoHelper
    <3>4. gate \in Owners => todo'[gate] = todo[gate]
      BY <1>1, <3>1, <3>3
    <3> QED
      BY <1>4, <2>2, <3>4, FollowFrame
  <2>4. CASE LetGo(p)
    <3>1. \A q \in Owners \ {p} : todo'[q] = todo[q]
      BY <1>1, <2>4 DEF LetGo, Then
    <3> QED
      BY <1>3, <1>4, <2>2, <3>1
  <2> QED
    BY <2>1, <2>3, <2>4 DEF Drop
<1>8. CASE SessionStep
  <2>1. UNCHANGED <<feed, exported, gate, taken, finalized>>
    BY <1>8 DEF SessionStep, Complete, Fail, Notify, Vanish, emitterVars, feedVars
  <2>2. \A q \in Owners \ {Session} : todo'[q] = todo[q]
    BY <1>1, <1>8 DEF SessionStep, Complete, Fail, Notify, Vanish, Begin, Then
  <2>3. Step(Session) \notin {"canonical", "export"}
    BY <1>8 DEF SessionStep, Complete, Fail, Notify, Vanish, Working, Step
  <2> QED
    BY <1>1, <1>3, <1>4, <2>1, <2>2, <2>3
<1>9. CASE \E h \in Helpers : Clone(h) \/ DropHelper(h)
  <2>1. PICK h \in Helpers : Clone(h) \/ DropHelper(h)
    BY <1>9
  <2>2. /\ h \in Owners /\ UNCHANGED <<feed, exported, gate, taken, finalized>>
        /\ \A q \in Owners \ {h} : todo'[q] = todo[q]
        /\ Step(h) = "none"
    BY <1>1, <2>1 DEF Clone, DropHelper, Begin, Step, emitterVars, feedVars
  <2> QED
    BY <1>3, <1>4, <2>2
<1>10. CASE DrainStep \/ UNCHANGED vars
  <2>1. UNCHANGED <<feed, exported, gate, taken, finalized, todo>>
    BY <1>10 DEF DrainStep, Persist, emitterVars, feedVars, vars
  <2> QED
    BY <1>4, <2>1, FollowFrame
<1>11. CASE RuntimeEnds
  <2>1. /\ UNCHANGED <<feed, exported, gate, taken, finalized>>
        /\ \A q \in Owners \ {Finalizer} : todo'[q] = todo[q]
    BY <1>1, <1>11 DEF RuntimeEnds, emitterVars, feedVars
  <2>2. Step(Finalizer) \in {"emit", "exports", "close"}
    BY <1>11 DEF RuntimeEnds, UnexpectedExit, Step
  <2> QED
    BY <1>1, <1>3, <1>4, <2>1, <2>2
<1> QED
  BY <1>2, <1>5, <1>6, <1>7, <1>8, <1>9, <1>10, <1>11 DEF Next, OwnerStep

\* All consumers are fed while emit holds one gate, so every exporter has the
\* canonical events in their order, also while several owners emit, and nothing
\* that the sink has refused.
THEOREM ExportsInOrder == Spec => []ExportersFollow
<1>1. Init => Follow
  BY InitFollow
<1>2. LInv /\ Follow /\ [Next]_vars => Follow'
  BY NextFollow
<1>3. LInv /\ Follow => ExportersFollow
  <2>1. SUFFICES ASSUME LInv, Follow, gate = Nobody PROVE \A x \in Exporters : Seen(x, feed)
    BY DEF ExportersFollow, Seen
  <2>2. \A p \in Owners : Step(p) # "export"
    BY <2>1, GateIs, HarnessAssumption
  <2> QED
    BY <2>1, <2>2 DEF Follow
<1> QED
  BY <1>1, <1>2, <1>3, ListsInvariant, PTL DEF Spec

================================================================================
