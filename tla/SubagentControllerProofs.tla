----------------------- MODULE SubagentControllerProofs -----------------------
(****************************************************************************)
(* Proofs about SubagentController for any finite set of agents, any tree of *)
(* depth two, any callers and any bounds: its types, that a marked           *)
(* controller takes no more spawns, and that a child that is done has no     *)
(* prompt left.  The induction rests on what the lists of steps may hold: a  *)
(* step about an agent that has no record can only be its insertion, a       *)
(* handle that is still to be stored is the one of a task spawned for that   *)
(* very agent, and only agents that may delegate have a controller to mark.  *)
(****************************************************************************)
EXTENDS SubagentController, FiniteSetTheorems, SequenceTheorems, TLAPS

\* The agents that have a record.
Here == {a \in Agents : child[a] # Absent}

\* Steps that are only ever taken for an agent that has its record.
StepNames == {"launch", "dequeue", "start", "work", "apply", "teardown", "end",
              "restart", "reopen", "reopenNested", "recheck", "closeBegin", "close",
              "closeNested", "rescan", "check", "arm", "asleep"}

\* The steps that a call or a task may have before it.
Plausible ==
    ({"insert"} \X Agents) \cup (StepNames \X Here)
        \cup ({"attach", "seal"} \X (Here \cap Controllers))
        \cup {<<"store", launched[t], t>> : t \in {u \in DOMAIN launched : launched[u] \in Here}}

\* The records, and the handles in them.
RecordsInv ==
    /\ child \in [Agents -> Records \cup {Absent}]
    /\ launched \in Seq(Agents) /\ Len(launched) <= MaxTasks
    /\ \A a \in Here : child[a].handle # Absent =>
          child[a].handle \in DOMAIN launched /\ launched[child[a].handle] = a
    /\ \A a \in Here : child[a].nested => a \in Controllers

\* The inductive invariant.
Inv ==
    /\ RecordsInv
    /\ todo \in [Actors -> Seq(Plausible)]
    /\ shutdown \subseteq Controllers /\ closing \subseteq Controllers
    /\ stopped \subseteq DOMAIN launched
    /\ calls \in 0 .. MaxCalls

LEMMA InvIsTyped == Inv => TypeOK
<1> SUFFICES ASSUME Inv PROVE TypeOK
  OBVIOUS
<1>1. \A a \in Agents : child[a] # Absent =>
          child[a].handle = Absent \/ launched[child[a].handle] = a
  BY DEF Inv, RecordsInv, Here
<1> QED
  BY <1>1 DEF Inv, RecordsInv, TypeOK

----------------------------------------------------------------------------
(* The lists of steps *)

LEMMA SeqGrows ==
    ASSUME NEW S, NEW T, S \subseteq T PROVE Seq(S) \subseteq Seq(T)
BY SeqMonotonic

LEMMA OneStep ==
    ASSUME NEW S, NEW x \in S PROVE <<x>> \in Seq(S)
OBVIOUS

\* The three ways a list of steps changes: going on, giving up, being woken.
LEMMA ThenKeeps ==
    ASSUME NEW S, todo \in [Actors -> Seq(S)], NEW p \in Actors, todo[p] # <<>>,
           NEW T, S \subseteq T, NEW more \in Seq(T)
    PROVE  Then(p, more) \in [Actors -> Seq(T)]
<1>1. todo[p] \in Seq(T) /\ \A q \in Actors : todo[q] \in Seq(T)
  BY SeqGrows
<1>2. Tail(todo[p]) \in Seq(T)
  BY <1>1, HeadTailProperties
<1>3. more \o Tail(todo[p]) \in Seq(T)
  BY <1>2, ConcatProperties
<1> QED
  BY <1>1, <1>3 DEF Then

LEMMA GiveUpKeeps ==
    ASSUME NEW S, todo \in [Actors -> Seq(S)], NEW p \in Actors, todo[p] # <<>>, NEW a
    PROVE  GiveUp(p, a) \in [Actors -> Seq(S)]
<1> DEFINE s == todo[p]
<1>1. Tail(s) \in Seq(S) /\ Len(Tail(s)) = Len(s) - 1 /\ Len(s) \in Nat
  BY HeadTailProperties, LenProperties
<1>2. Len(s) > 1 => Tail(Tail(s)) \in Seq(S)
  <2> SUFFICES ASSUME Len(s) > 1 PROVE Tail(Tail(s)) \in Seq(S)
    OBVIOUS
  <2>1. Tail(s) # <<>>
    <3> DEFINE t == Tail(s)
    <3>1. t \in Seq(S) /\ Len(t) # 0
      <4> DEFINE m == Len(s)
      <4>1. m \in Nat /\ m > 1 /\ Len(t) = m - 1 /\ t \in Seq(S)
        BY <1>1
      <4> HIDE DEF m, t
      <4> QED
        BY ONLY <4>1
    <3> HIDE DEF t
    <3>2. t # <<>>
      BY ONLY <3>1, EmptySeq
    <3> QED
      BY <3>2 DEF t
  <2> QED
    BY <1>1, <2>1, HeadTailProperties
<1> QED
  BY <1>1, <1>2 DEF GiveUp

\* The steps for a set of agents name each of them and nobody else.
LEMMA EachOf ==
    ASSUME NEW step, NEW agents, IsFiniteSet(agents)
    PROVE  Each(step, agents) \in Seq({step} \X agents)
<1> DEFINE n == Cardinality(agents)
<1>1. n \in Nat /\ ExistsBijection(1 .. n, agents)
  BY FS_CardinalityType
<1>2. PICK f \in [1 .. n -> agents] : IsInjective(f)
  BY <1>1 DEF ExistsBijection, Bijection, Injection
<1>3. SetToSeq(agents) \in [1 .. n -> agents]
  BY <1>2 DEF SetToSeq
<1>4. \A i \in 1 .. n : SetToSeq(agents)[i] \in agents
  BY <1>3
<1>5. Each(step, agents) \in [1 .. n -> {step} \X agents]
  BY <1>4 DEF Each
<1> QED
  BY <1>1, <1>5, SeqDef

LEMMA WokenKeeps ==
    ASSUME NEW S, NEW list \in [Actors -> Seq(S)], NEW agents,
           \A a : <<"asleep", a>> \in S => <<"check", a>> \in S
    PROVE  Woken(list, agents) \in [Actors -> Seq(S)]
<1> SUFFICES ASSUME NEW p \in Actors PROVE Woken(list, agents)[p] \in Seq(S)
  BY DEF Woken
<1>1. CASE list[p] # <<>> /\ \E a \in agents : Head(list[p]) = <<"asleep", a>>
  <2>1. PICK a \in agents : Head(list[p]) = <<"asleep", a>>
    BY <1>1
  <2>2. <<"asleep", a>> \in S
    BY <1>1, <2>1, HeadTailProperties
  <2>3. <<<<"check", a>>>> \in Seq(S)
    BY <2>2
  <2>4. Head(list[p])[2] = a
    BY <2>1
  <2>5. Woken(list, agents)[p] = <<<<"check", Head(list[p])[2]>>>>
    BY <1>1 DEF Woken
  <2> QED
    BY <2>3, <2>4, <2>5
<1>2. CASE ~(list[p] # <<>> /\ \E a \in agents : Head(list[p]) = <<"asleep", a>>)
  BY <1>2 DEF Woken
<1> QED
  BY <1>1, <1>2

\* What a plausible step says of its agent.
LEMMA PlausibleSteps ==
    ASSUME NEW step, NEW a, <<step, a>> \in Plausible
    PROVE  /\ a \in Agents
           /\ step # "insert" => a \in Here
           /\ step \in {"attach", "seal"} => a \in Here \cap Controllers
<1>1. \A x : <<step, a>> # <<"store", launched[x], x>>
  OBVIOUS
<1>2. <<step, a>> \notin {<<"store", launched[t], t>> : t \in {u \in DOMAIN launched : launched[u] \in Here}}
  BY <1>1
<1>3. \/ step = "insert" /\ a \in Agents
      \/ step \in StepNames /\ a \in Here
      \/ step \in {"attach", "seal"} /\ a \in Here \cap Controllers
  BY <1>2 DEF Plausible
<1> QED
  BY <1>3 DEF Here, StepNames

LEMMA StoreSteps ==
    ASSUME NEW a, NEW t, <<"store", a, t>> \in Plausible
    PROVE  t \in DOMAIN launched /\ launched[t] = a /\ a \in Here
<1>1. \A x, y : <<"store", a, t>> # <<x, y>>
  OBVIOUS
<1>2. <<"store", a, t>> \in {<<"store", launched[u], u>> : u \in {v \in DOMAIN launched : launched[v] \in Here}}
  BY <1>1 DEF Plausible
<1> QED
  BY <1>2

\* The next step of an actor is plausible.
LEMMA AtStep ==
    ASSUME Inv, NEW p \in Actors, NEW step, NEW a, At(p, step, a)
    PROVE  /\ todo[p] # <<>>
           /\ a \in Agents
           /\ step # "insert" => a \in Here
           /\ step \in {"attach", "seal"} => a \in Here \cap Controllers
<1>1. todo[p] # <<>> /\ <<step, a>> \in Plausible
  BY HeadTailProperties DEF At, Inv
<1> QED
  BY <1>1, PlausibleSteps

LEMMA HerePlausible ==
    ASSUME NEW a \in Here, NEW step \in StepNames
    PROVE  <<step, a>> \in Plausible
BY DEF Plausible

\* The sequence of steps about agents that are here.
LEMMA EachPlausible ==
    ASSUME NEW step \in StepNames \cup {"seal"}, NEW agents \in SUBSET Here,
           step = "seal" => agents \subseteq Controllers
    PROVE  Each(step, agents) \in Seq(Plausible)
<1>1. IsFiniteSet(agents)
  BY ControllerAssumption, FS_Subset DEF Here
<1>2. {step} \X agents \subseteq Plausible
  BY DEF Plausible
<1> QED
  <2>1. Each(step, agents) \in Seq({step} \X agents)
    BY <1>1, EachOf
  <2> QED
    BY ONLY <1>2, <2>1, SeqGrows

\* Records come and handles are given out; neither goes away.
LEMMA PlausibleGrows ==
    ASSUME RecordsInv, Here \subseteq Here',
           \/ launched' = launched
           \/ \E a \in Agents : launched' = Append(launched, a)
    PROVE  Plausible \subseteq Plausible'
<1>1. \A u \in DOMAIN launched : u \in DOMAIN launched' /\ launched'[u] = launched[u]
  BY DEF RecordsInv
<1>2. ASSUME NEW t \in DOMAIN launched, launched[t] \in Here
      PROVE  <<"store", launched[t], t>> \in Plausible'
  BY <1>1, <1>2 DEF Plausible
<1>3. ({"insert"} \X Agents) \cup (StepNames \X Here)
        \cup ({"attach", "seal"} \X (Here \cap Controllers)) \subseteq Plausible'
  BY DEF Plausible
<1> QED
  BY <1>2, <1>3 DEF Plausible

\* A step on one record that leaves it a record.
LEMMA RecordStep ==
    ASSUME RecordsInv, NEW a \in Agents, NEW r \in Records,
           child' = [child EXCEPT ![a] = r],
           launched' = launched,
           r.handle # Absent => r.handle \in DOMAIN launched /\ launched[r.handle] = a,
           r.nested => a \in Controllers
    PROVE  RecordsInv' /\ Here' = Here \cup {a} /\ Plausible \subseteq Plausible'
<1>1. r # Absent
  BY AbsentAssumption
<1>2. /\ child'[a] = r
      /\ \A b \in Agents : b # a => child'[b] = child[b]
      /\ child' \in [Agents -> Records \cup {Absent}]
  BY DEF RecordsInv
<1>3. Here' = Here \cup {a}
  BY <1>1, <1>2 DEF Here
<1>4. RecordsInv'
  BY <1>2, <1>3 DEF RecordsInv
<1>5. Plausible \subseteq Plausible'
  BY <1>3, PlausibleGrows
<1> QED
  BY <1>3, <1>4, <1>5

\* A step that leaves every record alone.
LEMMA SameRecords ==
    ASSUME RecordsInv, UNCHANGED <<child, launched>>
    PROVE  RecordsInv' /\ Here' = Here /\ Plausible' = Plausible
BY DEF RecordsInv, Here, Plausible

\* What is known of the record of an agent that is here.
LEMMA RecordHere ==
    ASSUME RecordsInv, NEW a \in Here
    PROVE  /\ child[a] \in Records
           /\ child[a].status \in Status /\ child[a].queue \in Nat /\ child[a].nested \in BOOLEAN
           /\ child[a].handle \in Tasks \cup {Absent}
           /\ child[a].handle # Absent =>
                child[a].handle \in DOMAIN launched /\ launched[child[a].handle] = a
           /\ child[a].nested => a \in Controllers
BY DEF RecordsInv, Here, Records

\* Only tasks that have been spawned are aborted.
LEMMA AbortStops ==
    ASSUME RecordsInv, stopped \subseteq DOMAIN launched, NEW kids \in SUBSET Here,
           Abort({child[a].handle : a \in kids})
    PROVE  stopped' \subseteq DOMAIN launched
BY DEF Abort, RecordsInv

----------------------------------------------------------------------------
(* The steps of the controller *)

\* Nothing has been spawned and nobody has a step to take.
LEMMA InitInv == Init => Inv
<1> SUFFICES ASSUME Init PROVE Inv
  OBVIOUS
<1> USE DEF Init
<1>1. Here = {}
  BY DEF Here
<1>2. RecordsInv
  BY <1>1, ControllerAssumption DEF RecordsInv
<1>3. todo \in [Actors -> Seq(Plausible)]
  BY EmptySeq
<1> QED
  BY <1>2, <1>3, ControllerAssumption DEF Inv

\* Going on with steps that are plausible afterwards.
LEMMA NextTodo ==
    ASSUME Inv, NEW p \in Actors, todo[p] # <<>>, Plausible \subseteq Plausible',
           NEW more \in Seq(Plausible'), todo' = Then(p, more)
    PROVE  todo' \in [Actors -> Seq(Plausible)]'
<1>1. Then(p, more) \in [Actors -> Seq(Plausible')]
  BY ThenKeeps DEF Inv
<1>2. Actors' = Actors
  BY DEF Actors
<1> QED
  BY <1>1, <1>2

\* A step that only changes what its actor does next.
LEMMA QuietStep ==
    ASSUME Inv, UNCHANGED <<child, shutdown, closing, launched, stopped, calls>>,
           NEW p \in Actors, todo[p] # <<>>,
           \/ \E more \in Seq(Plausible) : todo' = Then(p, more)
           \/ \E a \in Agents : todo' = GiveUp(p, a)
    PROVE  Inv' /\ Here \subseteq Here'
<1>1. RecordsInv' /\ Here' = Here /\ Plausible' = Plausible
  BY SameRecords DEF Inv
<1>2. todo' \in [Actors -> Seq(Plausible)]
  BY ThenKeeps, GiveUpKeeps DEF Inv
<1>3. todo' \in [Actors -> Seq(Plausible)]'
  BY <1>1, <1>2 DEF Actors
<1> QED
  BY <1>1, <1>3 DEF Inv

\* A caller starts a call with the steps of `plan`.
LEMMA CallKeeps ==
    ASSUME Inv, NEW p \in Callers, NEW op, NEW plan \in Seq(Plausible), Call(p, op, plan)
    PROVE  Inv' /\ Here \subseteq Here'
<1> USE DEF Call
<1>1. RecordsInv' /\ Here' = Here /\ Plausible' = Plausible
  BY SameRecords DEF Inv
<1>2. todo' \in [Actors -> Seq(Plausible)]'
  BY <1>1 DEF Inv, Actors
<1>3. calls' \in 0 .. MaxCalls
  BY ControllerAssumption DEF Idle, Inv
<1> QED
  BY <1>1, <1>2, <1>3 DEF Inv

LEMMA CallsKeep ==
    ASSUME Inv, NEW p \in Callers, NEW a \in Agents,
           Spawn(p, a) \/ Resume(p, a) \/ Close(p, a) \/ Wait(p, a)
    PROVE  Inv' /\ Here \subseteq Here'
<1>1. CASE Spawn(p, a)
  <2>1. <<<<"insert", a>>>> \in Seq(Plausible)
    BY DEF Plausible
  <2> QED
    BY <1>1, <2>1, CallKeeps DEF Spawn
<1>2. a \in Present(Root) => \A step \in StepNames : <<<<step, a>>>> \in Seq(Plausible)
  <2>1. a \in Present(Root) => a \in Here
    BY DEF Present, Here
  <2> QED
    BY <2>1, HerePlausible
<1>3. CASE Resume(p, a)
  BY <1>2, <1>3, CallKeeps DEF Resume, StepNames
<1>4. CASE Close(p, a)
  BY <1>2, <1>4, CallKeeps DEF Close, StepNames
<1>5. CASE Wait(p, a)
  BY <1>2, <1>5, CallKeeps DEF Wait, StepNames
<1> QED
  BY <1>1, <1>3, <1>4, <1>5

\* Steps that look at the records and go on.
LEMMA LookingKeeps ==
    ASSUME Inv, NEW p \in Actors, NEW a \in Agents,
           \/ Finish(p, a) \/ Teardown(p, a) \/ ReopenNested(p, a) \/ Recheck(p, a)
           \/ CloseNested(p, a) \/ Check(p, a) \/ Arm(p, a) \/ Timeout(p, a)
    PROVE  Inv' /\ Here \subseteq Here'
<1>1. todo[p] # <<>> /\ a \in Here
  BY AtStep DEF Finish, Teardown, ReopenNested, Recheck, CloseNested, Check, Arm, Timeout
<1>2. \A step \in StepNames : <<<<step, a>>>> \in Seq(Plausible)
  BY <1>1, HerePlausible
<1>3. \A step \in StepNames : Each(step, Present(a)) \in Seq(Plausible)
  BY EachPlausible DEF Present, ChildrenOf, Here, StepNames
<1>4. <<>> \in Seq(Plausible)
  BY EmptySeq
<1>5. CASE Finish(p, a)
  BY <1>1, <1>2, <1>5, QuietStep DEF Finish, StepNames
<1>6. CASE Teardown(p, a)
  <2>1. <<"end", a>> \in Plausible
    BY <1>1, HerePlausible DEF StepNames
  <2>2. Append(Each("close", Present(a)), <<"end", a>>) \in Seq(Plausible)
    BY <1>3, <2>1 DEF StepNames
  <2> QED
    BY <1>1, <1>2, <1>6, <2>2, QuietStep DEF Teardown, StepNames
<1>7. CASE ReopenNested(p, a)
  BY <1>1, <1>3, <1>4, <1>7, QuietStep DEF ReopenNested, StepNames
<1>8. CASE Recheck(p, a)
  BY <1>1, <1>4, <1>8, QuietStep DEF Recheck
<1>9. CASE CloseNested(p, a)
  BY <1>1, <1>3, <1>9, QuietStep DEF CloseNested, StepNames
<1>10. CASE Check(p, a)
  BY <1>1, <1>2, <1>4, <1>10, QuietStep DEF Check, StepNames
<1>11. CASE Arm(p, a)
  BY <1>1, <1>2, <1>11, QuietStep DEF Arm, StepNames
<1>12. CASE Timeout(p, a)
  BY <1>1, <1>4, <1>12, QuietStep DEF Timeout
<1> QED
  BY <1>5, <1>6, <1>7, <1>8, <1>9, <1>10, <1>11, <1>12

\* The marks of a controller: only what may delegate has one.
LEMMA MarksKeep ==
    ASSUME Inv, NEW p \in Actors, NEW a \in Agents,
           CloseBegin(p, a) \/ Rescan(p, a) \/ Seal(p, a)
    PROVE  Inv' /\ Here \subseteq Here'
<1>1. todo[p] # <<>> /\ a \in Here /\ (Seal(p, a) => a \in Controllers)
  BY AtStep DEF CloseBegin, Rescan, Seal
<1>2. child[a].nested => a \in Controllers
  BY <1>1, RecordHere DEF Inv
<1>3. RecordsInv' /\ Here' = Here /\ Plausible' = Plausible
  BY SameRecords DEF Inv, CloseBegin, Rescan, Seal
<1>4. shutdown' \subseteq Controllers /\ closing' \subseteq Controllers
  BY <1>1, <1>2 DEF Inv, CloseBegin, Rescan, Seal
<1>5. \E more \in Seq(Plausible) : todo' = Then(p, more)
  <2>1. <<>> \in Seq(Plausible) /\ Each("close", Present(a)) \in Seq(Plausible)
    BY EmptySeq, EachPlausible DEF Present, ChildrenOf, Here, StepNames
  <2>2. \A step \in StepNames : <<step, a>> \in Plausible
    BY <1>1, HerePlausible
  <2>3. CASE CloseBegin(p, a)
    <3>1. /\ <<<<"close", a>>, <<"closeNested", a>>, <<"rescan", a>>>> \in Seq(Plausible)
          /\ <<<<"close", a>>, <<"rescan", a>>>> \in Seq(Plausible)
      BY <2>2 DEF StepNames
    <3> QED
      BY <2>3, <3>1 DEF CloseBegin
  <2>4. CASE Rescan(p, a)
    BY <2>1, <2>4 DEF Rescan
  <2>5. CASE Seal(p, a)
    BY <2>1, <2>5 DEF Seal
  <2> QED
    BY <2>3, <2>4, <2>5
<1>6. todo' \in [Actors -> Seq(Plausible)]'
  BY <1>1, <1>3, <1>5, NextTodo
<1>7. UNCHANGED <<launched, stopped, calls>>
  BY DEF CloseBegin, Rescan, Seal
<1> QED
  BY <1>3, <1>4, <1>6, <1>7 DEF Inv

\* What p may still do about an agent that is here.
OwnSteps(a) == (StepNames \X {a}) \cup ({"attach"} \X ({a} \cap Controllers))

\* A step of p that writes one record.
LEMMA RecordKeeps ==
    ASSUME Inv, NEW p \in Actors, todo[p] # <<>>, NEW a \in Agents, NEW r \in Records,
           child' = [child EXCEPT ![a] = r],
           r.handle # Absent => r.handle \in DOMAIN launched /\ launched[r.handle] = a,
           r.nested => a \in Controllers,
           UNCHANGED <<shutdown, launched, calls>>,
           closing' \subseteq Controllers, stopped' \subseteq DOMAIN launched,
           NEW more \in Seq(OwnSteps(a)),
           todo' = Then(p, more)
    PROVE  Inv' /\ Here \subseteq Here'
<1>1. RecordsInv' /\ Here' = Here \cup {a} /\ Plausible \subseteq Plausible'
  BY RecordStep DEF Inv
<1>2. OwnSteps(a) \subseteq Plausible'
  BY <1>1 DEF Plausible, OwnSteps
<1>3. more \in Seq(Plausible')
  BY <1>2, SeqGrows
<1>4. todo' \in [Actors -> Seq(Plausible)]'
  BY <1>1, <1>3, NextTodo
<1> QED
  BY <1>1, <1>4 DEF Inv

\* The calls and the task steps that write records, one lemma for each group.
LEMMA InsertKeeps ==
    ASSUME Inv, NEW p \in Actors, NEW a \in Agents, Insert(p, a)
    PROVE  Inv' /\ Here \subseteq Here'
<1>1. todo[p] # <<>>
  BY DEF Insert, At
<1>2. CASE Owner[a] \in shutdown \cup closing
  <2>1. <<>> \in Seq(Plausible)
    BY EmptySeq
  <2> QED
    BY <1>1, <1>2, <2>1, QuietStep DEF Insert
<1>3. CASE Owner[a] \notin shutdown \cup closing
  <2> DEFINE r == [status |-> "Queued", queue |-> 1, handle |-> Absent, nested |-> FALSE]
  <2>1. r \in Records /\ r.handle = Absent /\ ~r.nested
    BY DEF Records, Status
  <2>2. child' = [child EXCEPT ![a] = r] /\ todo' = Then(p, <<<<"launch", a>>>>)
    BY <1>3 DEF Insert
  <2> HIDE DEF r
  <2>3. UNCHANGED <<shutdown, closing, launched, stopped, calls>>
    BY DEF Insert
  <2>4. <<<<"launch", a>>>> \in Seq(OwnSteps(a))
    BY DEF OwnSteps, StepNames
  <2> QED
    BY <1>1, <2>1, <2>2, <2>3, <2>4, RecordKeeps DEF Inv
<1> QED
  BY <1>2, <1>3

LEMMA LaunchKeeps ==
    ASSUME Inv, NEW p \in Actors, NEW a \in Agents, Launch(p, a)
    PROVE  Inv' /\ Here \subseteq Here'
<1> DEFINE t == Len(launched) + 1
           r == [child[a] EXCEPT !.status = "Queued"]
<1>1. todo[p] # <<>> /\ a \in Here
  BY AtStep DEF Launch
<1>2. /\ t \in Tasks /\ t \notin DOMAIN launched
      /\ launched' = Append(launched, a) /\ launched' \in Seq(Agents)
      /\ Len(launched') = t /\ t \in DOMAIN launched' /\ launched'[t] = a
      /\ \A u \in DOMAIN launched : u \in DOMAIN launched' /\ launched'[u] = launched[u]
  BY ControllerAssumption DEF Launch, Inv, RecordsInv, Tasks
<1>3. r \in Records /\ r.handle = child[a].handle /\ r.nested = child[a].nested
  <2>1. child[a] \in Records
    BY <1>1, RecordHere DEF Inv
  <2> QED
    BY ONLY <2>1 DEF Records, Status
<1>4. r # Absent
  BY <1>3, AbsentAssumption
<1>5. /\ child' = [child EXCEPT ![a] = r]
      /\ child'[a] = r /\ \A b \in Agents : b # a => child'[b] = child[b]
      /\ child' \in [Agents -> Records \cup {Absent}]
  BY <1>3 DEF Launch, Inv, RecordsInv
<1> HIDE DEF r
<1>6. Here' = Here
  BY <1>1, <1>4, <1>5 DEF Here
<1>7. RecordsInv'
  <2>1. \A b \in Here' : child'[b].handle = child[b].handle /\ child'[b].nested = child[b].nested
    BY <1>3, <1>5 DEF Here
  <2>2. Len(launched') <= MaxTasks
    BY <1>2 DEF Tasks
  <2> QED
    BY <1>2, <1>5, <1>6, <2>1, <2>2 DEF Inv, RecordsInv
<1>8. Plausible \subseteq Plausible'
  BY <1>2, <1>6, PlausibleGrows DEF Inv
<1>9. todo' \in [Actors -> Seq(Plausible)]'
  <2>1. <<"store", a, t>> \in Plausible'
    BY <1>1, <1>2, <1>6 DEF Plausible
  <2>2. Then(p, <<<<"store", a, t>>>>) \in [Actors -> Seq(Plausible')]
    BY <1>1, <1>8, <2>1, ThenKeeps, OneStep DEF Inv
  <2>3. <<"dequeue", a>> \in Plausible'
    BY <1>1, <1>6 DEF Plausible, StepNames
  <2>4. <<<<"dequeue", a>>>> \in Seq(Plausible')
    BY <2>3
  <2>5. todo' = [Then(p, <<<<"store", a, t>>>>) EXCEPT ![t] = <<<<"dequeue", a>>>>]
    BY DEF Launch
  <2> QED
    BY <2>2, <2>4, <2>5 DEF Actors
<1>10. stopped' \subseteq DOMAIN launched'
  BY <1>2 DEF Launch, Inv
<1> QED
  BY <1>6, <1>7, <1>9, <1>10 DEF Inv, Launch

LEMMA StoreKeeps ==
    ASSUME Inv, NEW p \in Actors, NEW a \in Agents, NEW t \in Tasks, Store(p, a, t)
    PROVE  Inv' /\ Here \subseteq Here'
<1> DEFINE r == [child[a] EXCEPT !.handle = t]
<1>1. todo[p] # <<>> /\ <<"store", a, t>> \in Plausible
  BY HeadTailProperties DEF Store, Inv
<1>2. t \in DOMAIN launched /\ launched[t] = a /\ a \in Here
  BY <1>1, StoreSteps
<1>3. r \in Records /\ r.handle = t /\ r.nested = child[a].nested
  <2>1. child[a] \in Records
    BY <1>2, RecordHere DEF Inv
  <2> QED
    BY ONLY <2>1, t \in Tasks DEF Records
<1>4. child' = [child EXCEPT ![a] = r] /\ todo' = Then(p, <<>>)
  BY DEF Store
<1> HIDE DEF r
<1>5. r.nested => a \in Controllers
  BY <1>2, <1>3, RecordHere DEF Inv
<1>6. <<>> \in Seq(OwnSteps(a))
  BY EmptySeq
<1>7. UNCHANGED <<shutdown, closing, launched, stopped, calls>>
  BY DEF Store
<1> QED
  BY <1>1, <1>2, <1>3, <1>4, <1>5, <1>6, <1>7, RecordKeeps DEF Inv

\* A step of p on the record of an agent that is here, whatever it writes.
LEMMA WriteKeeps ==
    ASSUME Inv, NEW p \in Actors, todo[p] # <<>>, NEW a \in Here, NEW r,
           r \in [status : Status, queue : Nat, nested : BOOLEAN,
                  handle : {Absent, child[a].handle}],
           r.nested => a \in Controllers,
           child' = [child EXCEPT ![a] = r],
           UNCHANGED <<shutdown, launched, calls>>,
           closing' \subseteq Controllers, stopped' \subseteq DOMAIN launched,
           NEW more \in Seq(OwnSteps(a)), todo' = Then(p, more)
    PROVE  Inv' /\ Here \subseteq Here'
<1>1. a \in Agents
  BY DEF Here
<1>2. child[a].handle \in Tasks \cup {Absent}
  BY RecordHere DEF Inv
<1>3. r \in Records
  BY <1>2 DEF Records
<1>4. r.handle # Absent => r.handle \in DOMAIN launched /\ launched[r.handle] = a
  BY RecordHere DEF Inv
<1> QED
  BY <1>1, <1>3, <1>4, RecordKeeps

LEMMA OwnStep ==
    ASSUME NEW a, NEW step \in StepNames
    PROVE  <<step, a>> \in OwnSteps(a) /\ <<<<step, a>>>> \in Seq(OwnSteps(a))
BY DEF OwnSteps

\* Steps of a child's task that write its record.
LEMMA TaskWritesKeep ==
    ASSUME Inv, NEW t \in Tasks, NEW a \in Agents,
           Dequeue(t, a) \/ Start(t, a) \/ Attach(t, a) \/ End(t, a)
    PROVE  Inv' /\ Here \subseteq Here'
<1>1. todo[t] # <<>> /\ a \in Here /\ t \in Actors /\ (Attach(t, a) => a \in Controllers)
  BY AtStep DEF Dequeue, Start, Attach, End, Actors
<1>2. /\ child[a] \in Records
      /\ child[a].status \in Status /\ child[a].queue \in Nat /\ child[a].nested \in BOOLEAN
      /\ child[a].nested => a \in Controllers
  BY <1>1, RecordHere DEF Inv
<1>3. <<>> \in Seq(OwnSteps(a))
  BY EmptySeq
<1>4. CASE Dequeue(t, a) /\ child[a].queue = 0
  <2>1. <<<<"end", a>>>> \in Seq(Plausible)
    BY <1>1, HerePlausible, OneStep DEF StepNames
  <2> QED
    BY <1>1, <1>4, <2>1, QuietStep DEF Dequeue
<1>5. CASE Dequeue(t, a) /\ child[a].queue # 0
  <2> DEFINE r == [child[a] EXCEPT !.queue = @ - 1, !.status = "Running"]
  <2>0. child[a].queue - 1 \in Nat
    BY <1>2, <1>5
  <2>1. r \in [status : Status, queue : Nat, nested : BOOLEAN, handle : {Absent, child[a].handle}]
    BY <1>2, <2>0 DEF Records, Status
  <2>2. r.nested = child[a].nested
    BY <1>2 DEF Records
  <2>3. child' = [child EXCEPT ![a] = r] /\ todo' = Then(t, <<<<"start", a>>>>)
    BY <1>5 DEF Dequeue
  <2> HIDE DEF r
  <2>4. <<<<"start", a>>>> \in Seq(OwnSteps(a))
    BY OwnStep DEF StepNames
  <2>5. UNCHANGED <<shutdown, closing, launched, stopped, calls>>
    BY <1>5 DEF Dequeue
  <2> QED
    BY <1>1, <1>2, <2>1, <2>2, <2>3, <2>4, <2>5, WriteKeeps DEF Inv
<1>6. CASE Start(t, a)
  <2> DEFINE r == [child[a] EXCEPT !.status = "Running"]
  <2>1. r \in [status : Status, queue : Nat, nested : BOOLEAN, handle : {Absent, child[a].handle}]
    BY <1>2 DEF Records, Status
  <2>2. r.nested = child[a].nested
    BY <1>2 DEF Records
  <2>3. PICK next \in {"apply", IF a \in Controllers THEN "attach" ELSE "work"} :
            todo' = Then(t, <<<<next, a>>>>)
    BY <1>6 DEF Start
  <2>4. child' = [child EXCEPT ![a] = r]
    BY <1>6 DEF Start
  <2>5. <<<<next, a>>>> \in Seq(OwnSteps(a))
    <3>1. CASE next = "apply"
      BY <3>1, OwnStep DEF StepNames
    <3>2. CASE next = "work"
      BY <3>2, OwnStep DEF StepNames
    <3>3. CASE next = "attach" /\ a \in Controllers
      <4>1. <<"attach", a>> \in OwnSteps(a)
        BY <3>3 DEF OwnSteps, StepNames
      <4> QED
        BY <3>3, <4>1
    <3> QED
      BY <2>3, <3>1, <3>2, <3>3
  <2> HIDE DEF r
  <2>6. UNCHANGED <<shutdown, closing, launched, stopped, calls>>
    BY <1>6 DEF Start
  <2> QED
    BY <1>1, <1>2, <2>1, <2>2, <2>3, <2>4, <2>5, <2>6, WriteKeeps DEF Inv
<1>7. CASE Attach(t, a)
  <2>1. /\ todo' = Then(t, <<<<"work", a>>>>)
        /\ UNCHANGED <<shutdown, closing, launched, stopped, calls>>
    BY <1>7 DEF Attach
  <2>2. <<<<"work", a>>>> \in Seq(OwnSteps(a)) /\ <<<<"work", a>>>> \in Seq(Plausible)
    BY <1>1, HerePlausible, OneStep, OwnStep DEF StepNames
  <2>3. CASE child' = child
    BY <1>1, <2>1, <2>2, <2>3, QuietStep
  <2>4. CASE child' = [child EXCEPT ![a].nested = TRUE]
    <3> DEFINE r == [child[a] EXCEPT !.nested = TRUE]
    <3>1. r \in [status : Status, queue : Nat, nested : BOOLEAN, handle : {Absent, child[a].handle}]
      BY <1>2 DEF Records, Status
    <3>2. child' = [child EXCEPT ![a] = r]
      BY <2>4
    <3> HIDE DEF r
    <3> QED
      BY <1>1, <1>7, <2>1, <2>2, <3>1, <3>2, WriteKeeps DEF Inv
  <2> QED
    BY <1>7, <2>3, <2>4 DEF Attach
<1>8. CASE End(t, a)
  <2> DEFINE r == [child[a] EXCEPT !.handle = Absent]
  <2>1. r \in [status : Status, queue : Nat, nested : BOOLEAN, handle : {Absent, child[a].handle}]
    BY <1>2 DEF Records
  <2>2. r.nested = child[a].nested
    BY <1>2 DEF Records
  <2>3. child' = [child EXCEPT ![a] = r] /\ todo' = Then(t, <<>>)
    BY <1>8 DEF End
  <2> HIDE DEF r
  <2>4. UNCHANGED <<shutdown, closing, launched, calls>> /\ stopped' \subseteq DOMAIN launched
    BY <1>8 DEF End, Inv
  <2> QED
    BY <1>1, <1>2, <1>3, <2>1, <2>2, <2>3, <2>4, WriteKeeps DEF Inv
<1> QED
  BY <1>4, <1>5, <1>6, <1>7, <1>8

\* What a record may become, leaving aside who acts and what is done next.
LEMMA WriteRecord ==
    ASSUME RecordsInv, NEW a \in Here, NEW r,
           r \in [status : Status, queue : Nat, nested : BOOLEAN,
                  handle : {Absent, child[a].handle}],
           r.nested => a \in Controllers,
           child' = [child EXCEPT ![a] = r], launched' = launched
    PROVE  RecordsInv' /\ Here' = Here /\ Plausible' = Plausible
<1>1. a \in Agents
  BY DEF Here
<1>2. child[a].handle \in Tasks \cup {Absent}
  BY RecordHere
<1>3. r \in Records
  BY <1>2 DEF Records
<1>4. r.handle # Absent => r.handle \in DOMAIN launched /\ launched[r.handle] = a
  BY RecordHere
<1>5. RecordsInv' /\ Here' = Here
  BY <1>1, <1>3, <1>4, RecordStep
<1> QED
  BY <1>5 DEF Plausible

\* Waking the calls that are asleep keeps the lists of steps.
LEMMA WokenTodo ==
    ASSUME NEW list \in [Actors -> Seq(Plausible)], NEW agents, Plausible' = Plausible,
           todo' = Woken(list, agents)
    PROVE  todo' \in [Actors -> Seq(Plausible)]'
<1>1. ASSUME NEW a, <<"asleep", a>> \in Plausible PROVE <<"check", a>> \in Plausible
  <2>1. a \in Here
    BY <1>1, PlausibleSteps
  <2> QED
    BY <2>1, HerePlausible DEF StepNames
<1>2. Woken(list, agents) \in [Actors -> Seq(Plausible)]
  BY <1>1, WokenKeeps
<1> QED
  BY <1>2 DEF Actors

LEMMA ApplyKeeps ==
    ASSUME Inv, NEW t \in Tasks, NEW a \in Agents, Apply(t, a)
    PROVE  Inv' /\ Here \subseteq Here'
<1> DEFINE more == IF child[a].queue > 0 THEN <<<<"dequeue", a>>>> ELSE <<<<"teardown", a>>>>
           r == [child[a] EXCEPT !.status = IF child[a].queue > 0 THEN "Queued" ELSE "Done"]
<1>1. todo[t] # <<>> /\ a \in Here /\ t \in Actors
  BY AtStep DEF Apply, Actors
<1>2. child[a] \in Records /\ (child[a].nested => a \in Controllers)
  BY <1>1, RecordHere DEF Inv
<1>3. r \in [status : Status, queue : Nat, nested : BOOLEAN, handle : {Absent, child[a].handle}]
  BY <1>2 DEF Records, Status
<1>4. r.nested = child[a].nested
  BY <1>2 DEF Records
<1>5. child' = [child EXCEPT ![a] = r] /\ todo' = Woken(Then(t, more), {a})
  BY DEF Apply
<1>6. more \in Seq(Plausible)
  BY <1>1, HerePlausible, OneStep DEF StepNames
<1> HIDE DEF more, r
<1>7. UNCHANGED <<shutdown, closing, launched, stopped, calls>>
  BY DEF Apply
<1>8. RecordsInv' /\ Here' = Here /\ Plausible' = Plausible
  BY <1>1, <1>2, <1>3, <1>4, <1>5, <1>7, WriteRecord DEF Inv
<1>9. Then(t, more) \in [Actors -> Seq(Plausible)]
  BY <1>1, <1>6, ThenKeeps DEF Inv
<1>10. todo' \in [Actors -> Seq(Plausible)]'
  BY <1>5, <1>8, <1>9, WokenTodo
<1> QED
  BY <1>7, <1>8, <1>10 DEF Inv

LEMMA AbortOne ==
    ASSUME Inv, NEW a \in Here, Abort({child[a].handle})
    PROVE  stopped' \subseteq DOMAIN launched
BY RecordHere DEF Abort, Inv

LEMMA CloseKeeps ==
    ASSUME Inv, NEW p \in Actors, NEW a \in Agents, CloseSingle(p, a)
    PROVE  Inv' /\ Here \subseteq Here'
<1> DEFINE r == [child[a] EXCEPT !.handle = Absent, !.status = "Closed"]
<1>1. todo[p] # <<>> /\ a \in Here
  BY AtStep DEF CloseSingle
<1>2. child[a] \in Records /\ (child[a].nested => a \in Controllers)
  BY <1>1, RecordHere DEF Inv
<1>3. <<>> \in Seq(Plausible)
  BY EmptySeq
<1>4. CASE child[a].status = "Closed"
  BY <1>1, <1>3, <1>4, QuietStep DEF CloseSingle
<1>5. CASE child[a].status # "Closed"
  <2>1. r \in [status : Status, queue : Nat, nested : BOOLEAN, handle : {Absent, child[a].handle}]
    BY <1>2 DEF Records, Status
  <2>2. r.nested = child[a].nested
    BY <1>2 DEF Records
  <2>3. child' = [child EXCEPT ![a] = r] /\ todo' = Woken(Then(p, <<>>), {a})
    BY <1>5 DEF CloseSingle
  <2> HIDE DEF r
  <2>4. UNCHANGED <<shutdown, closing, launched, calls>> /\ Abort({child[a].handle})
    BY <1>5 DEF CloseSingle
  <2>5. RecordsInv' /\ Here' = Here /\ Plausible' = Plausible
    BY <1>1, <1>2, <2>1, <2>2, <2>3, <2>4, WriteRecord DEF Inv
  <2>6. Then(p, <<>>) \in [Actors -> Seq(Plausible)]
    BY <1>1, <1>3, ThenKeeps DEF Inv
  <2>7. todo' \in [Actors -> Seq(Plausible)]'
    BY <2>3, <2>5, <2>6, WokenTodo
  <2>8. stopped' \subseteq DOMAIN launched
    BY <1>1, <2>4, AbortOne
  <2> QED
    BY <2>4, <2>5, <2>7, <2>8 DEF Inv
<1> QED
  BY <1>4, <1>5

LEMMA CancelledKeeps ==
    ASSUME Inv, NEW t \in Tasks, Cancelled(t)
    PROVE  Inv' /\ Here \subseteq Here'
<1>1. RecordsInv' /\ Here' = Here /\ Plausible' = Plausible
  BY SameRecords DEF Inv, Cancelled
<1>2. todo' \in [Actors -> Seq(Plausible)]'
  BY <1>1, EmptySeq DEF Inv, Cancelled, Actors
<1> QED
  BY <1>1, <1>2 DEF Inv, Cancelled

LEMMA SpawnNestedKeeps ==
    ASSUME Inv, NEW t \in Tasks, NEW a \in Agents, SpawnNested(t, a)
    PROVE  Inv' /\ Here \subseteq Here'
<1>1. RecordsInv' /\ Here' = Here /\ Plausible' = Plausible
  BY SameRecords DEF Inv, SpawnNested
<1>2. <<<<"insert", a>>>> \o todo[t] \in Seq(Plausible)
  <2>1. <<<<"insert", a>>>> \in Seq(Plausible)
    BY OneStep DEF Plausible
  <2>2. todo[t] \in Seq(Plausible)
    BY DEF Inv, Actors
  <2> QED
    BY <2>1, <2>2, ConcatProperties
<1>3. todo' \in [Actors -> Seq(Plausible)]'
  BY <1>1, <1>2 DEF Inv, SpawnNested, Actors
<1> QED
  BY <1>1, <1>3 DEF Inv, SpawnNested

LEMMA InputKeeps ==
    ASSUME Inv, NEW p \in Callers, NEW a \in Agents, SendInput(p, a) \/ Interrupt(p, a)
    PROVE  Inv' /\ Here \subseteq Here'
<1>1. a \in Here
  BY DEF SendInput, Interrupt, Present, Here
<1>2. child[a] \in Records /\ child[a].queue \in Nat /\ (child[a].nested => a \in Controllers)
  BY <1>1, RecordHere DEF Inv
<1>3. calls' \in 0 .. MaxCalls
  BY ControllerAssumption DEF Inv, Idle, SendInput, Interrupt
<1>4. UNCHANGED <<shutdown, closing, launched>>
  BY DEF SendInput, Interrupt
<1>5. <<>> \in Seq(Plausible) /\ <<<<"restart", a>>>> \in Seq(Plausible)
  BY <1>1, HerePlausible, EmptySeq, OneStep DEF StepNames
<1>6. CASE SendInput(p, a)
  <2> DEFINE busy == child[a].status \in {"Running", "Queued"}
             r == [child[a] EXCEPT !.queue = @ + 1,
                                   !.status = IF busy THEN "Waiting" ELSE "Queued"]
  <2>0. child[a].queue + 1 \in Nat
    BY <1>2
  <2>1. r \in [status : Status, queue : Nat, nested : BOOLEAN, handle : {Absent, child[a].handle}]
    BY <1>2, <2>0 DEF Records, Status
  <2>2. r.nested = child[a].nested
    BY <1>2 DEF Records
  <2>3. child' = [child EXCEPT ![a] = r]
    BY <1>6 DEF SendInput
  <2> HIDE DEF r
  <2>4. RecordsInv' /\ Here' = Here /\ Plausible' = Plausible
    BY <1>1, <1>2, <1>4, <2>1, <2>2, <2>3, WriteRecord DEF Inv
  <2>5. todo' \in [Actors -> Seq(Plausible)]'
    BY <1>5, <1>6, <2>4 DEF SendInput, Inv, Actors
  <2>6. stopped' \subseteq DOMAIN launched'
    BY <1>4, <1>6 DEF SendInput, Inv
  <2> QED
    BY <1>3, <1>4, <2>4, <2>5, <2>6 DEF Inv
<1>7. CASE Interrupt(p, a)
  <2> DEFINE r == [child[a] EXCEPT !.handle = Absent, !.status = "Queued", !.queue = 1]
  <2>1. r \in [status : Status, queue : Nat, nested : BOOLEAN, handle : {Absent, child[a].handle}]
    BY <1>2 DEF Records, Status
  <2>2. r.nested = child[a].nested
    BY <1>2 DEF Records
  <2>3. child' = [child EXCEPT ![a] = r]
    BY <1>7 DEF Interrupt
  <2> HIDE DEF r
  <2>4. RecordsInv' /\ Here' = Here /\ Plausible' = Plausible
    BY <1>1, <1>2, <1>4, <2>1, <2>2, <2>3, WriteRecord DEF Inv
  <2>5. todo' \in [Actors -> Seq(Plausible)]'
    BY <1>5, <1>7, <2>4 DEF Interrupt, Inv, Actors
  <2>6. stopped' \subseteq DOMAIN launched'
    BY <1>1, <1>4, <1>7, AbortOne DEF Interrupt
  <2> QED
    BY <1>3, <1>4, <2>4, <2>5, <2>6 DEF Inv
<1> QED
  BY <1>6, <1>7

LEMMA RestartKeeps ==
    ASSUME Inv, NEW p \in Actors, NEW a \in Agents, Restart(p, a)
    PROVE  Inv' /\ Here \subseteq Here'
<1> DEFINE r == [child[a] EXCEPT !.queue = IF @ = 0 THEN 1 ELSE @]
<1>1. todo[p] # <<>> /\ a \in Here
  BY AtStep DEF Restart
<1>2. child[a] \in Records /\ child[a].queue \in Nat /\ (child[a].nested => a \in Controllers)
  BY <1>1, RecordHere DEF Inv
<1>3. r \in [status : Status, queue : Nat, nested : BOOLEAN, handle : {Absent, child[a].handle}]
  BY <1>2 DEF Records
<1>4. r.nested = child[a].nested
  BY <1>2 DEF Records
<1>5. child' = [child EXCEPT ![a] = r] /\ todo' = Then(p, <<<<"launch", a>>>>)
  BY DEF Restart
<1> HIDE DEF r
<1>6. <<<<"launch", a>>>> \in Seq(OwnSteps(a))
  BY OwnStep DEF StepNames
<1>7. UNCHANGED <<shutdown, closing, launched, stopped, calls>>
  BY DEF Restart
<1> QED
  BY <1>1, <1>2, <1>3, <1>4, <1>5, <1>6, <1>7, WriteKeeps DEF Inv

LEMMA ReopenKeeps ==
    ASSUME Inv, NEW p \in Actors, NEW a \in Agents, Reopen(p, a)
    PROVE  Inv' /\ Here \subseteq Here'
<1> DEFINE active == child[a].status \in {"Running", "Queued"}
           rest == <<<<"reopenNested", a>>, <<"recheck", a>>>>
           r == [child[a] EXCEPT !.status = "Queued", !.queue = @ + 1]
<1>1. todo[p] # <<>> /\ a \in Here
  BY AtStep DEF Reopen
<1>2. CASE Owner[a] \in shutdown
  BY <1>1, <1>2, QuietStep DEF Reopen
<1>3. CASE Owner[a] \notin shutdown /\ active
  <2>1. <<"reopenNested", a>> \in Plausible /\ <<"recheck", a>> \in Plausible
    BY <1>1, HerePlausible DEF StepNames
  <2>2. rest \in Seq(Plausible)
    BY <2>1
  <2> HIDE DEF rest
  <2>3. todo' = Then(p, rest)
    BY <1>3 DEF Reopen, rest
  <2> QED
    BY <1>1, <1>3, <2>2, <2>3, QuietStep DEF Reopen
<1>4. CASE Owner[a] \notin shutdown /\ ~active
  <2>1. child[a] \in Records /\ child[a].queue \in Nat /\ (child[a].nested => a \in Controllers)
    BY <1>1, RecordHere DEF Inv
  <2>0. child[a].queue + 1 \in Nat
    BY <2>1
  <2>2. r \in [status : Status, queue : Nat, nested : BOOLEAN, handle : {Absent, child[a].handle}]
    BY <2>0, <2>1 DEF Records, Status
  <2>3. r.nested = child[a].nested
    BY <2>1 DEF Records
  <2>4. \A step \in StepNames : <<step, a>> \in OwnSteps(a)
    BY OwnStep
  <2>5. rest \in Seq(OwnSteps(a)) /\ Append(rest, <<"restart", a>>) \in Seq(OwnSteps(a))
    BY <2>4 DEF StepNames
  <2>6. child' = [child EXCEPT ![a] = r] /\ todo' = Then(p, Append(rest, <<"restart", a>>))
    BY <1>4 DEF Reopen
  <2> HIDE DEF r, rest
  <2>7. UNCHANGED <<shutdown, launched, stopped, calls>> /\ closing' \subseteq closing
    BY <1>4 DEF Reopen
  <2> QED
    BY <1>1, <2>1, <2>2, <2>3, <2>5, <2>6, <2>7, WriteKeeps DEF Inv
<1> QED
  BY <1>2, <1>3, <1>4

LEMMA ShutdownKeeps ==
    ASSUME Inv, NEW p \in Callers, Shutdown(p)
    PROVE  Inv' /\ Here \subseteq Here'
<1> DEFINE kids == Present(Root)
           nested == {a \in kids : child[a].nested}
           plan == Each("seal", nested) \o Each("closeNested", nested)
           closed(a) == [child[a] EXCEPT !.handle = Absent, !.status = "Closed"]
<1>1. kids \subseteq Here
  BY DEF Present, ChildrenOf, Here
<1>2. \A a \in kids : /\ closed(a) \in Records /\ closed(a) # Absent
                      /\ closed(a).handle = Absent /\ closed(a).nested = child[a].nested
  <2> TAKE a \in kids
  <2>1. child[a] \in Records
    BY <1>1, RecordHere DEF Inv
  <2>2. closed(a) \in Records /\ closed(a).handle = Absent /\ closed(a).nested = child[a].nested
    BY <2>1 DEF Records, Status
  <2> QED
    BY <2>2, AbsentAssumption
<1>3. child' = [a \in Agents |-> IF a \in kids THEN closed(a) ELSE child[a]]
  BY DEF Shutdown
<1>4. UNCHANGED <<closing, launched>> /\ shutdown' = shutdown \cup {Root}
  BY DEF Shutdown
<1> HIDE DEF closed, kids
<1>5. Here' = Here
  BY <1>1, <1>2, <1>3 DEF Here
<1>6. Plausible' = Plausible
  BY <1>4, <1>5 DEF Plausible
<1>7. RecordsInv'
  <2>1. child' \in [Agents -> Records \cup {Absent}]
    BY <1>2, <1>3 DEF Inv, RecordsInv
  <2>2. \A a \in Here : child'[a].handle \in {Absent, child[a].handle}
                          /\ child'[a].nested = child[a].nested
    BY <1>2, <1>3 DEF Here
  <2> QED
    BY <1>4, <1>5, <2>1, <2>2 DEF Inv, RecordsInv
<1>8. plan \in Seq(Plausible)
  <2>1. nested \in SUBSET Here /\ nested \subseteq Controllers
    BY <1>1, RecordHere DEF Inv
  <2>2. Each("seal", nested) \in Seq(Plausible) /\ Each("closeNested", nested) \in Seq(Plausible)
    BY <2>1, EachPlausible DEF StepNames
  <2> QED
    BY <2>2, ConcatProperties
<1>9. todo' = Woken([todo EXCEPT ![p] = plan], kids)
  BY DEF Shutdown, kids
<1> HIDE DEF plan
<1>10. todo' \in [Actors -> Seq(Plausible)]'
  <2>1. [todo EXCEPT ![p] = plan] \in [Actors -> Seq(Plausible)]
    BY <1>8 DEF Inv, Actors
  <2> QED
    BY <1>6, <1>9, <2>1, WokenTodo
<1>11. stopped' \subseteq DOMAIN launched'
  BY <1>1, <1>4, AbortStops DEF Shutdown, Inv, kids
<1>12. calls' \in 0 .. MaxCalls
  <2>1. calls' = calls + 1 /\ calls < MaxCalls
    BY DEF Shutdown, Idle
  <2> QED
    BY <2>1, ControllerAssumption DEF Inv
<1>13. shutdown' \subseteq Controllers
  BY <1>4 DEF Inv, Controllers
<1> QED
  BY <1>4, <1>5, <1>7, <1>10, <1>11, <1>12, <1>13 DEF Inv

\* Every step keeps the invariant, and no record goes away.
LEMMA NextInv == Inv /\ [Next]_vars => Inv' /\ Here \subseteq Here'
<1> SUFFICES ASSUME Inv, [Next]_vars PROVE Inv' /\ Here \subseteq Here'
  OBVIOUS
<1> USE DEF Actors
<1>1. CASE \E p \in Callers, a \in Agents : NewCall(p, a)
  BY <1>1, CallsKeep, InputKeeps DEF NewCall
<1>2. CASE \E p \in Callers, a \in Agents : CallStep(p, a)
  BY <1>2, LookingKeeps, MarksKeep, RestartKeeps, ReopenKeeps DEF CallStep
<1>3. CASE \E p \in Actors, a \in Agents : SharedStep(p, a)
  BY <1>3, InsertKeeps, LaunchKeeps, CloseKeeps, StoreKeeps DEF SharedStep
<1>4. CASE \E t \in Tasks, a \in Agents : TaskStep(t, a)
  BY <1>4, SpawnNestedKeeps, TaskWritesKeep, ApplyKeeps, LookingKeeps DEF TaskStep
<1>5. CASE \E p \in Callers : Shutdown(p)
  BY <1>5, ShutdownKeeps
<1>6. CASE \E t \in Tasks : Cancelled(t)
  BY <1>6, CancelledKeeps
<1>7. CASE UNCHANGED vars
  <2>1. RecordsInv' /\ Here' = Here /\ Plausible' = Plausible
    BY <1>7, SameRecords DEF Inv, vars
  <2> QED
    BY <1>7, <2>1 DEF Inv, vars
<1> QED
  BY <1>1, <1>2, <1>3, <1>4, <1>5, <1>6, <1>7 DEF Next

\* Every record has the shape of ChildRecord, every handle is the one of a task
\* that launch_child spawned for that child, and only such tasks are aborted,
\* although launch_child stores the handle under a lock of its own.
THEOREM TypeCorrect == Spec => []TypeOK
<1>1. Spec => []Inv
  BY InitInv, NextInv, PTL DEF Spec
<1> QED
  BY <1>1, InvIsTyped, PTL

----------------------------------------------------------------------------
(* A marked controller takes no spawns *)

\* Only Insert writes the record of an agent that has none, and only into a
\* controller that takes spawns.
LEMMA OnlyInsertAdds ==
    ASSUME Inv, [Next]_vars, NEW a \in Agents, child[a] = Absent, child'[a] # Absent
    PROVE  Owner[a] \notin shutdown \cup closing
<1>0. a \notin Here /\ child \in [Agents -> Records \cup {Absent}]
  BY DEF Here, Inv, RecordsInv
<1>1. CASE \E p \in Callers, b \in Agents : NewCall(p, b) \/ CallStep(p, b)
  <2>1. PICK p \in Callers, b \in Agents : NewCall(p, b) \/ CallStep(p, b)
    BY <1>1
  <2>2. CASE SendInput(p, b) \/ Interrupt(p, b)
    <3>1. b \in Here
      BY <2>2 DEF SendInput, Interrupt, Present, Here
    <3> QED
      BY <1>0, <2>2, <3>1 DEF SendInput, Interrupt
  <2>3. CASE Restart(p, b) \/ Reopen(p, b)
    <3>1. b \in Here
      BY <2>3, AtStep DEF Restart, Reopen, Actors
    <3> QED
      BY <1>0, <2>3, <3>1 DEF Restart, Reopen
  <2> QED
    BY <2>1, <2>2, <2>3 DEF NewCall, CallStep, Spawn, Resume, Close, Wait, Call, ReopenNested,
       Recheck, CloseBegin, CloseNested, Rescan, Seal, Check, Arm, Timeout
<1>2. CASE \E p \in Actors, b \in Agents : SharedStep(p, b)
  <2>1. PICK p \in Actors, b \in Agents : SharedStep(p, b)
    BY <1>2
  <2>2. CASE Insert(p, b)
    BY <1>0, <2>2 DEF Insert
  <2>3. CASE Launch(p, b) \/ CloseSingle(p, b)
    <3>1. b \in Here
      BY <2>3, AtStep DEF Launch, CloseSingle
    <3> QED
      BY <1>0, <2>3, <3>1 DEF Launch, CloseSingle
  <2>4. ASSUME NEW t \in Tasks, Store(p, b, t) PROVE FALSE
    <3>1. <<"store", b, t>> \in Plausible
      BY <2>4, HeadTailProperties DEF Store, Inv
    <3>2. b \in Here
      BY <3>1, StoreSteps
    <3> QED
      BY <1>0, <2>4, <3>2 DEF Store
  <2> QED
    BY <2>1, <2>2, <2>3, <2>4 DEF SharedStep
<1>3. CASE \E t \in Tasks, b \in Agents : TaskStep(t, b)
  <2>1. PICK t \in Tasks, b \in Agents : TaskStep(t, b)
    BY <1>3
  <2>2. ~SpawnNested(t, b) => b \in Here
    BY <2>1, AtStep DEF TaskStep, Dequeue, Start, Attach, Finish, Apply, Teardown, End, Actors
  <2> QED
    BY <1>0, <2>1, <2>2 DEF TaskStep, SpawnNested, Dequeue, Start, Attach, Finish, Apply,
       Teardown, End
<1>4. CASE \E p \in Callers : Shutdown(p)
  BY <1>0, <1>4 DEF Shutdown, Present
<1>5. CASE (\E t \in Tasks : Cancelled(t)) \/ UNCHANGED vars
  BY <1>5 DEF Cancelled, vars
<1> QED
  BY <1>1, <1>2, <1>3, <1>4, <1>5 DEF Next

\* As long as the mark of signal_shutdown or close_tree stays on a controller, no
\* record comes into it, also not by a spawn_with_spec that passed the gates before,
\* and none leaves it.
THEOREM MarkedTakesNoSpawn == Spec => ClosedToSpawns
<1> DEFINE A == \A k \in Controllers :
                  k \in (shutdown \cap shutdown') \cup (closing \cap closing') =>
                    {a \in ChildrenOf(k) : child'[a] # Absent} = Present(k)
<1>1. Inv /\ [Next]_vars => A
  <2> SUFFICES ASSUME Inv, [Next]_vars, NEW k \in Controllers,
                      k \in (shutdown \cap shutdown') \cup (closing \cap closing'),
                      NEW a \in ChildrenOf(k)
               PROVE  child'[a] # Absent <=> child[a] # Absent
    BY DEF Present
  <2>1. a \in Agents /\ Owner[a] \in shutdown \cup closing
    BY DEF ChildrenOf
  <2>2. child[a] # Absent => child'[a] # Absent
    BY <2>1, NextInv DEF Here
  <2> QED
    BY <2>1, <2>2, OnlyInsertAdds
<1>2. Spec => []Inv
  BY InitInv, NextInv, PTL DEF Spec
<1>3. Spec => [][A]_vars
  BY <1>1, <1>2, PTL DEF Spec
<1> QED
  BY <1>3 DEF ClosedToSpawns

----------------------------------------------------------------------------
(* A child that is done has no prompt left *)

\* A child that reports Completed or Failed with a prompt in its queue.
Undrained(a) == child[a] # Absent /\ child[a].status = "Done" /\ child[a].queue > 0

\* The launch of a call, not of a task: a task may be cancelled before it.
Restarting(a) == \E p \in Callers : At(p, "launch", a)

\* The inductive strengthening: the restart that is under way is a caller's.
DrainInv == \A a \in Agents : Undrained(a) => Restarting(a)

\* Heads that differ are steps of different actors.
LEMMA OtherHead ==
    ASSUME NEW p, NEW q, NEW a, NEW b, NEW step, At(p, "launch", a), At(q, step, b),
           step # "launch"
    PROVE  p # q
BY DEF At

\* A caller that is to launch a child stays so until it does.
LEMMA LaunchStays ==
    ASSUME Inv, [Next]_vars, NEW p \in Callers, NEW a \in Agents, At(p, "launch", a)
    PROVE  At(p, "launch", a)' \/ Launch(p, a)
<1> DEFINE Same == todo'[p] = todo[p]
<1>0. Same => At(p, "launch", a)'
  BY DEF At
<1>1. /\ todo[p] # <<>> /\ p \in Actors /\ p \notin Tasks
      /\ todo \in [Actors -> Seq(Plausible)]
      /\ \A b : Head(todo[p]) # <<"asleep", b>>
  BY ControllerAssumption DEF At, Actors, Inv
<1>2. ASSUME NEW q \in Actors, q # p, NEW more PROVE Then(q, more)[p] = todo[p]
  BY <1>1, <1>2 DEF Then
<1>3. ASSUME NEW q \in Actors, q # p, NEW b PROVE GiveUp(q, b)[p] = todo[p]
  BY <1>1, <1>3 DEF GiveUp
<1>4. ASSUME NEW list, list[p] = todo[p], NEW agents PROVE Woken(list, agents)[p] = todo[p]
  BY <1>1, <1>4 DEF Woken
<1>5. CASE \E q \in Callers, b \in Agents : NewCall(q, b)
  <2>1. PICK q \in Callers, b \in Agents : NewCall(q, b)
    BY <1>5
  <2>2. q # p
    BY <1>1, <2>1 DEF NewCall, Spawn, SendInput, Interrupt, Resume, Close, Wait, Call, Idle
  <2> QED
    BY <1>0, <1>1, <2>1, <2>2 DEF NewCall, Spawn, SendInput, Interrupt, Resume, Close, Wait, Call
<1>6. CASE \E q \in Callers, b \in Agents : CallStep(q, b)
  <2>1. PICK q \in Callers, b \in Agents : CallStep(q, b)
    BY <1>6
  <2>2. q # p
    BY <2>1, OtherHead DEF CallStep, Restart, Reopen, ReopenNested, Recheck, CloseBegin,
       CloseNested, Rescan, Seal, Check, Arm, Timeout
  <2>3. \A more : Then(q, more)[p] = todo[p] /\ GiveUp(q, b)[p] = todo[p]
    BY <1>2, <1>3, <2>2 DEF Actors
  <2> QED
    BY <1>0, <2>1, <2>3 DEF CallStep, Restart, Reopen, ReopenNested, Recheck, CloseBegin,
       CloseNested, Rescan, Seal, Check, Arm, Timeout
<1>7. CASE \E q \in Actors, b \in Agents : SharedStep(q, b)
  <2>1. PICK q \in Actors, b \in Agents : SharedStep(q, b)
    BY <1>7
  <2>2. CASE q = p
    <3>1. ~Insert(q, b) /\ ~CloseSingle(q, b) /\ \A t : ~Store(q, b, t)
      BY <2>2 DEF Insert, CloseSingle, Store, At
    <3>2. Launch(p, b)
      BY <2>1, <2>2, <3>1 DEF SharedStep
    <3>3. <<"launch", b>> = <<"launch", a>>
      BY <3>2 DEF Launch, At
    <3> QED
      BY <3>2, <3>3
  <2>3. CASE q # p
    <3>1. \A more : Then(q, more)[p] = todo[p]
      BY <1>2, <2>3
    <3>2. CASE Insert(q, b) \/ \E t \in Tasks : Store(q, b, t)
      BY <1>0, <3>1, <3>2 DEF Insert, Store
    <3>3. CASE Launch(q, b)
      <4>1. Len(launched) + 1 # p
        BY <1>1, <3>3, ControllerAssumption DEF Launch, Tasks, Inv, RecordsInv
      <4> QED
        BY <1>0, <3>1, <3>3, <4>1 DEF Launch
    <3>4. CASE CloseSingle(q, b)
      BY <1>0, <1>4, <3>1, <3>4 DEF CloseSingle
    <3> QED
      BY <2>1, <3>2, <3>3, <3>4 DEF SharedStep
  <2> QED
    BY <2>2, <2>3
<1>8. CASE \E t \in Tasks, b \in Agents : TaskStep(t, b)
  <2>1. PICK t \in Tasks, b \in Agents : TaskStep(t, b)
    BY <1>8
  <2>2. t # p /\ t \in Actors
    BY <1>1 DEF Actors
  <2>3. \A more : Then(t, more)[p] = todo[p]
    BY <1>2, <2>2
  <2>4. CASE SpawnNested(t, b)
    BY <1>0, <1>1, <2>2, <2>4 DEF SpawnNested
  <2>5. CASE Apply(t, b)
    BY <1>0, <1>4, <2>3, <2>5 DEF Apply
  <2> QED
    BY <1>0, <2>1, <2>3, <2>4, <2>5 DEF TaskStep, Dequeue, Start, Attach, Finish, Teardown, End
<1>9. CASE \E q \in Callers : Shutdown(q)
  <2>1. PICK q \in Callers : Shutdown(q)
    BY <1>9
  <2>2. q # p
    BY <1>1, <2>1 DEF Shutdown, Idle
  <2>3. ASSUME NEW plan PROVE [todo EXCEPT ![q] = plan][p] = todo[p]
    BY <1>1, <2>2
  <2> QED
    BY <1>0, <1>4, <2>1, <2>3 DEF Shutdown
<1>10. CASE \E t \in Tasks : Cancelled(t)
  BY <1>0, <1>1, <1>10 DEF Cancelled
<1>11. CASE UNCHANGED vars
  BY <1>0, <1>11 DEF vars
<1> QED
  BY <1>5, <1>6, <1>7, <1>8, <1>9, <1>10, <1>11 DEF Next

\* A child becomes undrained only by a restart that goes on to launch it.
LEMMA UndrainedComes ==
    ASSUME Inv, [Next]_vars, NEW a \in Agents, Undrained(a)', ~Undrained(a)
    PROVE  Restarting(a)'
<1>0. /\ child \in [Agents -> Records \cup {Absent}]
      /\ child'[a] # Absent /\ child'[a].status = "Done" /\ child'[a].queue > 0
      /\ child'[a] # child[a]
  BY DEF Inv, RecordsInv, Undrained
<1>1. a \in Here => /\ child[a] \in Records /\ child[a].queue \in Nat
                    /\ ~(child[a].status = "Done" /\ child[a].queue > 0)
  BY RecordHere DEF Inv, Here, Undrained
<1>2. CASE \E p \in Callers, b \in Agents : NewCall(p, b)
  <2>1. PICK p \in Callers, b \in Agents : SendInput(p, b) \/ Interrupt(p, b)
    BY <1>0, <1>2 DEF NewCall, Spawn, Resume, Close, Wait, Call
  <2>2. b \in Here
    BY <2>1 DEF SendInput, Interrupt, Present, Here
  <2>3. b = a
    BY <1>0, <2>1 DEF SendInput, Interrupt
  <2>4. child'[a].status \in {"Waiting", "Queued"}
    BY <1>0, <1>1, <2>1, <2>2, <2>3 DEF SendInput, Interrupt, Records
  <2> QED
    BY <1>0, <2>4
<1>3. CASE \E p \in Callers, b \in Agents : CallStep(p, b)
  <2>1. PICK p \in Callers, b \in Agents : Restart(p, b) \/ Reopen(p, b)
    BY <1>0, <1>3 DEF CallStep, ReopenNested, Recheck, CloseBegin, CloseNested, Rescan, Seal,
       Check, Arm, Timeout
  <2>2. b = a
    BY <1>0, <2>1 DEF Restart, Reopen
  <2>3. a \in Here /\ todo[p] # <<>> /\ p \in Actors
    BY <2>1, <2>2, AtStep DEF Restart, Reopen, Actors
  <2>4. CASE Restart(p, a)
    <3>1. todo' = Then(p, <<<<"launch", a>>>>)
      BY <2>4 DEF Restart
    <3>2. todo'[p] = <<<<"launch", a>>>> \o Tail(todo[p])
      BY <2>3, <3>1 DEF Then, Inv
    <3>3. Tail(todo[p]) \in Seq(Plausible) /\ <<"launch", a>> \in Plausible
      BY <2>3, HeadTailProperties, HerePlausible DEF Inv, StepNames
    <3>4. todo'[p] # <<>> /\ Head(todo'[p]) = <<"launch", a>>
      BY <3>2, <3>3
    <3> QED
      BY <3>4 DEF Restarting, At
  <2>5. CASE Reopen(p, a)
    <3>1. child' = [child EXCEPT ![a].status = "Queued", ![a].queue = @ + 1]
      BY <1>0, <2>5 DEF Reopen
    <3>2. child'[a].status = "Queued"
      BY <1>0, <1>1, <2>3, <3>1 DEF Records
    <3> QED
      BY <1>0, <3>2
  <2> QED
    BY <2>1, <2>2, <2>4, <2>5
<1>4. CASE \E p \in Actors, b \in Agents : SharedStep(p, b)
  <2>1. PICK p \in Actors, b \in Agents : SharedStep(p, b)
    BY <1>4
  <2>2. b = a
    BY <1>0, <2>1 DEF SharedStep, Insert, Launch, CloseSingle, Store
  <2>3. CASE Insert(p, a)
    BY <1>0, <2>3 DEF Insert
  <2>4. CASE Launch(p, a) \/ CloseSingle(p, a)
    <3>1. a \in Here
      BY <2>4, AtStep DEF Launch, CloseSingle
    <3>2. child'[a].status \in {"Queued", "Closed"}
      BY <1>0, <1>1, <2>4, <3>1 DEF Launch, CloseSingle, Records
    <3> QED
      BY <1>0, <3>2
  <2>5. ASSUME NEW t \in Tasks, Store(p, a, t) PROVE FALSE
    <3>1. <<"store", a, t>> \in Plausible
      BY <2>5, HeadTailProperties DEF Store, Inv
    <3>2. a \in Here
      BY <3>1, StoreSteps
    <3>3. child'[a].status = child[a].status /\ child'[a].queue = child[a].queue
      BY <1>0, <1>1, <2>5, <3>2 DEF Store, Records
    <3> QED
      BY <1>0, <1>1, <3>2, <3>3
  <2> QED
    BY <2>1, <2>2, <2>3, <2>4, <2>5 DEF SharedStep
<1>5. CASE \E t \in Tasks, b \in Agents : TaskStep(t, b)
  <2>1. PICK t \in Tasks, b \in Agents :
            Dequeue(t, b) \/ Start(t, b) \/ Attach(t, b) \/ Apply(t, b) \/ End(t, b)
    BY <1>0, <1>5 DEF TaskStep, SpawnNested, Finish, Teardown
  <2>2. b = a
    BY <1>0, <2>1 DEF Dequeue, Start, Attach, Apply, End
  <2>3. a \in Here
    BY <2>1, <2>2, AtStep DEF Dequeue, Start, Attach, Apply, End, Actors
  <2>4. CASE Dequeue(t, a) \/ Start(t, a)
    <3>1. child'[a].status = "Running"
      BY <1>0, <1>1, <2>3, <2>4 DEF Dequeue, Start, Records
    <3> QED
      BY <1>0, <3>1
  <2>5. CASE Attach(t, a) \/ End(t, a)
    <3>1. child'[a].status = child[a].status /\ child'[a].queue = child[a].queue
      BY <1>0, <1>1, <2>3, <2>5 DEF Attach, End, Records
    <3> QED
      BY <1>0, <1>1, <2>3, <3>1
  <2>6. CASE Apply(t, a)
    <3>1. /\ child'[a].queue = child[a].queue
          /\ child'[a].status = IF child[a].queue > 0 THEN "Queued" ELSE "Done"
      BY <1>0, <1>1, <2>3, <2>6 DEF Apply, Records
    <3> QED
      BY <1>0, <3>1
  <2> QED
    BY <2>1, <2>2, <2>4, <2>5, <2>6
<1>6. CASE \E p \in Callers : Shutdown(p)
  <2>1. a \in Present(Root)
    BY <1>0, <1>6 DEF Shutdown
  <2>2. a \in Here
    BY <2>1 DEF Present, Here
  <2>3. child'[a].status = "Closed"
    BY <1>0, <1>1, <1>6, <2>1, <2>2 DEF Shutdown, Records
  <2> QED
    BY <1>0, <2>3
<1>7. CASE (\E t \in Tasks : Cancelled(t)) \/ UNCHANGED vars
  BY <1>0, <1>7 DEF Cancelled, vars
<1> QED
  BY <1>2, <1>3, <1>4, <1>5, <1>6, <1>7 DEF Next

\* A restart that is under way ends only by the launch, which queues the child.
LEMMA NextDrain == Inv /\ DrainInv /\ [Next]_vars => DrainInv'
<1> SUFFICES ASSUME Inv, DrainInv, [Next]_vars, NEW a \in Agents, Undrained(a)'
             PROVE  Restarting(a)'
  BY DEF DrainInv
<1>1. CASE ~Undrained(a)
  BY <1>1, UndrainedComes
<1>2. CASE Undrained(a)
  <2>1. PICK p \in Callers : At(p, "launch", a)
    BY <1>2 DEF DrainInv, Restarting
  <2>2. CASE At(p, "launch", a)'
    BY <2>2 DEF Restarting
  <2>3. CASE Launch(p, a)
    <3>1. a \in Here /\ child[a] \in Records
      BY <1>2, RecordHere DEF Undrained, Here, Inv
    <3>2. child'[a].status = "Queued"
      BY <2>3, <3>1 DEF Launch, Records, Inv, RecordsInv
    <3> QED
      BY <3>2 DEF Undrained
  <2> QED
    BY <2>1, <2>2, <2>3, LaunchStays
<1> QED
  BY <1>1, <1>2

\* A child that apply_result has reported completed or failed has worked off every
\* prompt, or restart_child is about to launch it again, whatever runs of it
\* overlap and whoever interrupts, resumes, closes or cancels them meanwhile.
THEOREM DoneIsDrained == Spec => []DoneMeansDrained
<1>1. Init => DrainInv
  BY DEF Init, DrainInv, Undrained
<1>2. Inv /\ DrainInv => DoneMeansDrained
  BY DEF DrainInv, Undrained, Restarting, DoneMeansDrained, Actors
<1> QED
  BY <1>1, <1>2, InitInv, NextInv, NextDrain, PTL DEF Spec

===============================================================================
