---------------------------- MODULE HarnessRunProofs ----------------------------
(* A run that reports success has everything in its log (SuccessComplete).     *)
(*                                                                             *)
(* The inductive invariant HInv has two halves.  Control says who may be where:*)
(* only the first step of a list holds the gate, finalized goes with an open   *)
(* gate, and what comes after the finish of a list comes when the run has been *)
(* finalized.  Phases says which script the session and the finalizer are in,  *)
(* and what the session has seen by then: it reports ok only after a close it  *)
(* called itself, and it calls that one only when its thread.completed was     *)
(* accepted or an error kept.  That nobody else has closed the sink before it  *)
(* is the part with the drops: while the session holds its clone no other      *)
(* owner holds the last one, so there is no finalizer.                         *)
(*                                                                             *)
(* And the run uses the sink as DurableFeed allows (RunFollowsFeed).           *)
EXTENDS HarnessRun, SequenceTheorems, TLAPS

\* What the steps of an owner's list do, and those after its first.
Kinds(p) == {todo[p][i][1] : i \in 1 .. Len(todo[p])}
LaterKinds(p) == {todo[p][i][1] : i \in 2 .. Len(todo[p])}

Emission == {"emit", "canonical", "export"}

--------------------------------------------------------------------------------
(* Lists *)

LEMMA TailOf ==
    ASSUME NEW S, NEW s \in Seq(S), s # <<>>
    PROVE  /\ Tail(s) \in Seq(S)
           /\ Len(s) \in Nat /\ Len(s) >= 1 /\ Len(Tail(s)) = Len(s) - 1
           /\ Head(s) = s[1] /\ s[1] \in S
           /\ \A i \in 1 .. Len(s) - 1 : Tail(s)[i] = s[i + 1]
OBVIOUS

LEMMA OneBefore ==
    ASSUME NEW S, NEW s \in Seq(S), s # <<>>, NEW x \in S, NEW t, t = <<x>> \o Tail(s)
    PROVE  /\ t \in Seq(S) /\ t # <<>> /\ Head(t) = x /\ t[1] = x
           /\ Len(t) = Len(s)
           /\ \A i \in 2 .. Len(s) : t[i] = s[i]
<1>1. Tail(s) \in Seq(S) /\ Len(Tail(s)) = Len(s) - 1 /\ Len(s) \in Nat /\ Len(s) >= 1
  BY TailOf
<1>2. <<x>> \in Seq(S) /\ Len(<<x>>) = 1
  OBVIOUS
<1>3. t \in Seq(S) /\ Len(t) = Len(s)
  BY <1>1, <1>2
<1>4. t[1] = x
  BY <1>1, <1>2, <1>3
<1>5. ASSUME NEW i \in 2 .. Len(s) PROVE t[i] = s[i]
  <2>1. t[i] = Tail(s)[i - 1]
    BY <1>1, <1>2, <1>3
  <2>2. i - 1 \in 1 .. Len(s) - 1 /\ (i - 1) + 1 = i
    BY <1>1
  <2> QED
    BY <2>1, <2>2, TailOf
<1> QED
  BY <1>1, <1>3, <1>4, <1>5

LEMMA OneThenOne == ASSUME NEW a, NEW b PROVE <<a>> \o <<b>> = <<a, b>>
<1> DEFINE S == {a, b}
           s == <<a>> \o <<b>>
           t == <<a, b>>
<1>1. /\ <<a>> \in Seq(S) /\ <<b>> \in Seq(S) /\ t \in Seq(S)
      /\ Len(<<a>>) = 1 /\ Len(<<b>>) = 1 /\ Len(t) = 2
  OBVIOUS
<1>2. s \in Seq(S) /\ Len(s) = 2
  BY <1>1
<1>3. s[1] = a /\ s[2] = b
  BY <1>1
<1>4. \A i \in 1 .. 2 : s[i] = t[i]
  BY <1>3
<1> HIDE DEF S, s, t
<1>5. s = t
  BY <1>1, <1>2, <1>4, SeqEqual
<1> QED
  BY <1>5 DEF s, t

LEMMA OneThenTwo == ASSUME NEW a, NEW b, NEW c PROVE <<a>> \o <<b, c>> = <<a, b, c>>
<1> DEFINE S == {a, b, c}
           s == <<a>> \o <<b, c>>
           t == <<a, b, c>>
<1>1. /\ <<a>> \in Seq(S) /\ <<b, c>> \in Seq(S) /\ t \in Seq(S)
      /\ Len(<<a>>) = 1 /\ Len(<<b, c>>) = 2 /\ Len(t) = 3
  OBVIOUS
<1>2. s \in Seq(S) /\ Len(s) = 3
  BY <1>1
<1>3. s[1] = a /\ s[2] = b /\ s[3] = c
  BY <1>1
<1>4. \A i \in 1 .. 3 : s[i] = t[i]
  BY <1>3
<1> HIDE DEF S, s, t
<1>5. s = t
  BY <1>1, <1>2, <1>4, SeqEqual
<1> QED
  BY <1>5 DEF s, t

LEMMA OneThenThree == ASSUME NEW a, NEW b, NEW c, NEW d PROVE <<a>> \o <<b, c, d>> = <<a, b, c, d>>
<1> DEFINE S == {a, b, c, d}
           s == <<a>> \o <<b, c, d>>
           t == <<a, b, c, d>>
<1>1. /\ <<a>> \in Seq(S) /\ <<b, c, d>> \in Seq(S) /\ t \in Seq(S)
      /\ Len(<<a>>) = 1 /\ Len(<<b, c, d>>) = 3 /\ Len(t) = 4
  OBVIOUS
<1>2. s \in Seq(S) /\ Len(s) = 4
  BY <1>1
<1>3. s[1] = a /\ s[2] = b /\ s[3] = c /\ s[4] = d
  BY <1>1
<1>4. \A i \in 1 .. 4 : s[i] = t[i]
  BY <1>3
<1> HIDE DEF S, s, t
<1>5. s = t
  BY <1>1, <1>2, <1>4, SeqEqual
<1> QED
  BY <1>5 DEF s, t

LEMMA TwoThenOne == ASSUME NEW a, NEW b, NEW c PROVE <<a, b>> \o <<c>> = <<a, b, c>>
<1> DEFINE S == {a, b, c}
           s == <<a, b>> \o <<c>>
           t == <<a, b, c>>
<1>1. /\ <<a, b>> \in Seq(S) /\ <<c>> \in Seq(S) /\ t \in Seq(S)
      /\ Len(<<a, b>>) = 2 /\ Len(<<c>>) = 1 /\ Len(t) = 3
  OBVIOUS
<1>2. s \in Seq(S) /\ Len(s) = 3
  BY <1>1
<1>3. s[1] = a /\ s[2] = b /\ s[3] = c
  BY <1>1
<1>4. \A i \in 1 .. 3 : s[i] = t[i]
  BY <1>3
<1> HIDE DEF S, s, t
<1>5. s = t
  BY <1>1, <1>2, <1>4, SeqEqual
<1> QED
  BY <1>5 DEF s, t

LEMMA ThenType ==
    ASSUME todo \in [Owners -> Seq(Steps)], NEW p \in Owners, todo[p] # <<>>,
           NEW more \in Seq(Steps), Then(p, more)
    PROVE  /\ todo' \in [Owners -> Seq(Steps)]
           /\ todo'[p] = more \o Tail(todo[p])
           /\ \A q \in Owners \ {p} : todo'[q] = todo[q]
BY DEF Then

LEMMA Elsewhere ==
    ASSUME NEW q, todo'[q] = todo[q]
    PROVE  /\ Step(q)' = Step(q) /\ Event(q)' = Event(q)
           /\ Kinds(q)' = Kinds(q) /\ LaterKinds(q)' = LaterKinds(q)
BY DEF Step, Event, Kinds, LaterKinds

LEMMA FirstKind ==
    ASSUME todo \in [Owners -> Seq(Steps)], NEW p \in Owners
    PROVE  /\ todo[p] = <<>> => Step(p) = "none" /\ Kinds(p) = {} /\ LaterKinds(p) = {}
           /\ todo[p] # <<>> => /\ Step(p) = todo[p][1][1] /\ todo[p][1] \in Steps
                                /\ Kinds(p) = {Step(p)} \cup LaterKinds(p)
<1>1. CASE todo[p] = <<>>
  BY <1>1 DEF Step, Kinds, LaterKinds
<1>2. CASE todo[p] # <<>>
  <2>1. Len(todo[p]) \in Nat /\ Len(todo[p]) >= 1 /\ Head(todo[p]) = todo[p][1] /\ todo[p][1] \in Steps
    BY <1>2, TailOf
  <2>2. Step(p) = todo[p][1][1]
    BY <1>2, <2>1 DEF Step
  <2>3. 1 .. Len(todo[p]) = {1} \cup 2 .. Len(todo[p])
    BY <2>1
  <2> QED
    BY <1>2, <2>1, <2>2, <2>3 DEF Kinds, LaterKinds
<1> QED
  BY <1>1, <1>2

LEMMA StepTypes ==
    ASSUME todo \in [Owners -> Seq(Steps)], NEW p \in Owners, todo[p] # <<>>
    PROVE  /\ Step(p) \in Emission => Event(p) \in Events /\ todo[p][1] = <<Step(p), Event(p)>>
           /\ Step(p) = "return" => Event(p) \in {"ok", "err"}
<1>1. Head(todo[p]) = todo[p][1] /\ todo[p][1] \in Steps
  BY TailOf
<1> QED
  BY <1>1 DEF Steps, Step, Event, Emission

LEMMA ThenNothing ==
    ASSUME todo \in [Owners -> Seq(Steps)], NEW p \in Owners, todo[p] # <<>>, Then(p, <<>>)
    PROVE  /\ todo' \in [Owners -> Seq(Steps)]
           /\ todo'[p] = Tail(todo[p])
           /\ \A q \in Owners \ {p} : todo'[q] = todo[q]
           /\ Kinds(p)' = LaterKinds(p) /\ LaterKinds(p)' \subseteq LaterKinds(p)
           /\ Step(p)' \in LaterKinds(p) \cup {"none"}
<1> DEFINE t == Tail(todo[p])
<1>1. t \in Seq(Steps) /\ Len(t) = Len(todo[p]) - 1 /\ Len(todo[p]) \in Nat /\ Len(todo[p]) >= 1
      /\ \A i \in 1 .. Len(todo[p]) - 1 : t[i] = todo[p][i + 1]
  BY TailOf
<1>2. <<>> \in Seq(Steps) /\ <<>> \o t = t
  BY <1>1
<1>3. todo' \in [Owners -> Seq(Steps)] /\ todo'[p] = t /\ \A q \in Owners \ {p} : todo'[q] = todo[q]
  BY <1>2, ThenType
<1> HIDE DEF t
<1>4. Kinds(p)' = LaterKinds(p)
  <2>1. Kinds(p)' = {t[i][1] : i \in 1 .. Len(todo[p]) - 1}
    BY <1>1, <1>3 DEF Kinds
  <2>2. ASSUME NEW k \in Kinds(p)' PROVE k \in LaterKinds(p)
    <3>1. PICK i \in 1 .. Len(todo[p]) - 1 : k = t[i][1]
      BY <2>1
    <3>2. i + 1 \in 2 .. Len(todo[p]) /\ k = todo[p][i + 1][1]
      BY <1>1, <3>1
    <3> QED
      BY <3>2 DEF LaterKinds
  <2>3. ASSUME NEW k \in LaterKinds(p) PROVE k \in Kinds(p)'
    <3>1. PICK i \in 2 .. Len(todo[p]) : k = todo[p][i][1]
      BY DEF LaterKinds
    <3>2. i - 1 \in 1 .. Len(todo[p]) - 1 /\ k = t[i - 1][1]
      BY <1>1, <3>1
    <3> QED
      BY <2>1, <3>2
  <2> QED
    BY <2>2, <2>3
<1>5. Kinds(p)' = IF t = <<>> THEN {} ELSE {Step(p)'} \cup LaterKinds(p)'
  <2>1. t = <<>> => Kinds(p)' = {}
    BY <1>3 DEF Kinds
  <2>2. t # <<>> => Kinds(p)' = {Step(p)'} \cup LaterKinds(p)'
    <3>1. SUFFICES ASSUME t # <<>> PROVE Kinds(p)' = {Step(p)'} \cup LaterKinds(p)'
      OBVIOUS
    <3>2. Head(t) = t[1] /\ Len(t) \in Nat /\ Len(t) >= 1
      BY <1>1, <3>1, TailOf
    <3>3. Step(p)' = t[1][1]
      BY <1>3, <3>1, <3>2 DEF Step
    <3>4. 1 .. Len(t) = {1} \cup 2 .. Len(t)
      BY <3>2
    <3> QED
      BY <1>3, <3>3, <3>4 DEF Kinds, LaterKinds
  <2> QED
    BY <2>1, <2>2
<1>6. t = <<>> => Step(p)' = "none" /\ LaterKinds(p)' = {}
  BY <1>3 DEF Step, LaterKinds
<1> QED
  BY <1>3, <1>4, <1>5, <1>6 DEF t

LEMMA ThenOne ==
    ASSUME todo \in [Owners -> Seq(Steps)], NEW p \in Owners, todo[p] # <<>>,
           NEW x \in Steps, Then(p, <<x>>)
    PROVE  /\ todo' \in [Owners -> Seq(Steps)]
           /\ todo'[p] = <<x>> \o Tail(todo[p])
           /\ \A q \in Owners \ {p} : todo'[q] = todo[q]
           /\ Kinds(p)' = {x[1]} \cup LaterKinds(p) /\ LaterKinds(p)' = LaterKinds(p)
           /\ Step(p)' = x[1]
<1> DEFINE t == <<x>> \o Tail(todo[p])
<1>1. t \in Seq(Steps) /\ t # <<>> /\ Head(t) = x /\ t[1] = x /\ Len(t) = Len(todo[p])
      /\ \A i \in 2 .. Len(todo[p]) : t[i] = todo[p][i]
  BY OneBefore
<1>2. Len(todo[p]) \in Nat /\ Len(todo[p]) >= 1
  BY TailOf
<1>3. <<x>> \in Seq(Steps)
  OBVIOUS
<1>4. todo' \in [Owners -> Seq(Steps)] /\ todo'[p] = t /\ \A q \in Owners \ {p} : todo'[q] = todo[q]
  BY <1>3, ThenType
<1> HIDE DEF t
<1>5. Step(p)' = x[1]
  BY <1>1, <1>4 DEF Step
<1>6. 1 .. Len(t) = {1} \cup 2 .. Len(t)
  BY <1>1, <1>2
<1>7. LaterKinds(p)' = LaterKinds(p)
  BY <1>1, <1>4 DEF LaterKinds
<1>8. Kinds(p)' = {x[1]} \cup LaterKinds(p)'
  BY <1>1, <1>4, <1>6 DEF Kinds, LaterKinds
<1> QED
  BY <1>4, <1>5, <1>7, <1>8 DEF t

--------------------------------------------------------------------------------
(* Control: who may be where. *)

FinishKinds == {"exports", "close", "return"}

Control ==
    /\ \A p \in Owners : LaterKinds(p) \cap {"canonical", "export"} = {}
    /\ finalized => gate = Nobody
    /\ \A p \in Owners : Kinds(p) \cap FinishKinds # {} => finalized
    /\ outcome # "open" => finalized
    /\ outcome = "ok" => log = feed /\ ~refused
    /\ \A h \in Helpers : Kinds(h) \subseteq Emission \cup {"drop", "release"}

Gate == \A p \in Owners : Step(p) \in {"canonical", "export"} <=> gate = p

LEMMA InitControl == Init => TypeOK /\ Control
<1> SUFFICES ASSUME Init PROVE TypeOK /\ Control
  OBVIOUS
<1> USE DEF Init, FeedInit
<1>1. \A p \in Owners : Step(p) = "none" /\ Kinds(p) = {} /\ LaterKinds(p) = {}
  BY DEF Step, Kinds, LaterKinds
<1>2. todo \in [Owners -> Seq(Steps)]
  OBVIOUS
<1>3. exported \in [Exporters -> Seq(Events)]
  OBVIOUS
<1>4. \A p \in Owners : gate # p
  BY HarnessAssumption
<1>5. TypeOK
  <2>1. {refused, finalized, taken, terminalErr, overlapped, stranded} \subseteq BOOLEAN
    OBVIOUS
  <2>2. \A p \in Owners : Step(p) \in {"canonical", "export"} <=> gate = p
    BY <1>1, <1>4
  <2>3. feed \in Seq(Events) /\ log \in Seq(Events)
    OBVIOUS
  <2>4. clones \subseteq Owners
    BY DEF Owners
  <2> QED
    BY <1>2, <1>3, <2>1, <2>2, <2>3, <2>4 DEF TypeOK
<1>6. Control
  BY <1>1 DEF Control, Owners
<1> QED
  BY <1>5, <1>6

\* Only the lists of the owners in P change.
LEMMA Frame ==
    ASSUME TypeOK, Control, NEW P \in SUBSET Owners,
           todo' \in [Owners -> Seq(Steps)],
           \A q \in Owners \ P : todo'[q] = todo[q] /\ (gate' = q <=> gate = q),
           \A p \in P : /\ LaterKinds(p)' \cap {"canonical", "export"} = {}
                        /\ Kinds(p)' \cap FinishKinds # {} => finalized'
                        /\ p \in Helpers => Kinds(p)' \subseteq Emission \cup {"drop", "release"}
                        /\ Step(p)' \in {"canonical", "export"} <=> gate' = p,
           finalized => finalized',
           finalized' => gate' = Nobody,
           outcome' # "open" => finalized',
           outcome' = "ok" => log' = feed' /\ ~refused'
    PROVE  Control' /\ Gate'
<1>1. \A q \in Owners \ P : /\ Step(q)' = Step(q) /\ Kinds(q)' = Kinds(q)
                             /\ LaterKinds(q)' = LaterKinds(q)
  BY Elsewhere
<1>2. Helpers \subseteq Owners
  BY DEF Owners
<1>3. \A p \in Owners : LaterKinds(p)' \cap {"canonical", "export"} = {}
  BY <1>1 DEF Control
<1>4. \A p \in Owners : Kinds(p)' \cap FinishKinds # {} => finalized'
  BY <1>1 DEF Control
<1>5. \A h \in Helpers : Kinds(h)' \subseteq Emission \cup {"drop", "release"}
  BY <1>1, <1>2 DEF Control
<1>6. Gate'
  BY <1>1 DEF Gate, TypeOK
<1> QED
  BY <1>3, <1>4, <1>5, <1>6 DEF Control

\* The other parts of the state have their types.
Types ==
    /\ feed \in Seq(Events) /\ log \in Seq(Events) /\ outcome \in {"open", "ok", "err"}
    /\ refused \in BOOLEAN /\ finalized \in BOOLEAN /\ taken \in BOOLEAN
    /\ terminalErr \in BOOLEAN /\ overlapped \in BOOLEAN /\ stranded \in BOOLEAN
    /\ exported \in [Exporters -> Seq(Events)]
    /\ clones \subseteq Owners /\ items \subseteq Items
    /\ todo \in [Owners -> Seq(Steps)]
    /\ result \in {"running", "completing", "failing", "ok", "err", "vanished"}
    /\ vanishedAt \in {"nowhere", "none", "notify", "exports", "close"}
    /\ gate \in Owners \cup {Nobody}

CInv == TypeOK /\ Control

LEMMA Together == ASSUME Types', Gate', Control' PROVE CInv'
BY DEF TypeOK, Types, Gate, CInv

\* Only the list of p changes.
LEMMA FrameOne ==
    ASSUME CInv, NEW p \in Owners, Types',
           \A q \in Owners \ {p} : todo'[q] = todo[q],
           gate' = gate \/ {gate, gate'} = {p, Nobody},
           LaterKinds(p)' \cap {"canonical", "export"} = {},
           Kinds(p)' \cap FinishKinds # {} => finalized',
           p \in Helpers => Kinds(p)' \subseteq Emission \cup {"drop", "release"},
           Step(p)' \in {"canonical", "export"} <=> gate' = p,
           finalized => finalized',
           finalized' => gate' = Nobody,
           outcome' # "open" => finalized',
           outcome' = "ok" => log' = feed' /\ ~refused'
    PROVE  CInv'
<1>1. \A q \in Owners \ {p} : gate' = q <=> gate = q
  BY HarnessAssumption
<1>2. todo' \in [Owners -> Seq(Steps)] /\ {p} \in SUBSET Owners
  BY DEF Types
<1>3. \A q \in Owners \ {p} : todo'[q] = todo[q] /\ (gate' = q <=> gate = q)
  BY <1>1
<1>4. \A r \in {p} : /\ LaterKinds(r)' \cap {"canonical", "export"} = {}
                     /\ Kinds(r)' \cap FinishKinds # {} => finalized'
                     /\ r \in Helpers => Kinds(r)' \subseteq Emission \cup {"drop", "release"}
                     /\ Step(r)' \in {"canonical", "export"} <=> gate' = r
  OBVIOUS
<1>5. Control' /\ Gate'
  BY <1>2, <1>3, <1>4, Frame DEF CInv
<1> QED
  BY <1>5, Together

LEMMA Facts ==
    ASSUME CInv
    PROVE  /\ Types /\ Gate
           /\ todo \in [Owners -> Seq(Steps)]
           /\ {finalized, refused, taken, terminalErr} \subseteq BOOLEAN
           /\ finalized => gate = Nobody
           /\ outcome # "open" => finalized
           /\ outcome = "ok" => log = feed /\ ~refused
BY DEF CInv, Control, TypeOK, Types, Gate

LEMMA OwnerFacts ==
    ASSUME CInv, NEW p \in Owners
    PROVE  /\ LaterKinds(p) \cap {"canonical", "export"} = {}
           /\ Kinds(p) \cap FinishKinds # {} => finalized
           /\ Step(p) \in {"canonical", "export"} <=> gate = p
           /\ p \in Helpers => Kinds(p) \subseteq Emission \cup {"drop", "release"}
           /\ Nobody # p
<1>1. Step(p) \in {"canonical", "export"} <=> gate = p
  BY DEF CInv, TypeOK
<1> QED
  BY <1>1, HarnessAssumption DEF CInv, Control

LEMMA EmitItemControl == ASSUME CInv, NEW p \in Owners, EmitItem(p) PROVE CInv'
<1>1. PICK e \in items : todo[p] = <<>> /\ todo' = [todo EXCEPT ![p] = <<<<"emit", e>>>>]
                        /\ items' = items \ {e}
  BY DEF EmitItem, Begin
<1>2. UNCHANGED <<feedVars, emitterVars, clones, sessionVars, dropVars>>
  BY DEF EmitItem
<1>3. <<"emit", e>> \in Steps
  BY <1>1, Facts DEF Types, Items, Steps
<1>4. todo' \in [Owners -> Seq(Steps)] /\ todo'[p] = <<<<"emit", e>>>>
      /\ \A q \in Owners \ {p} : todo'[q] = todo[q]
  BY <1>1, <1>3, Facts
<1>5. Kinds(p)' = {"emit"} /\ LaterKinds(p)' = {} /\ Step(p)' = "emit"
  BY <1>4 DEF Kinds, LaterKinds, Step
<1>6. gate # p
  <2>1. Step(p) = "none"
    BY <1>1, Facts, FirstKind
  <2> QED
    BY <2>1, OwnerFacts
<1>7. Types'
  BY <1>1, <1>2, <1>4, Facts DEF Types, dropVars, feedVars, emitterVars, sessionVars
<1> QED
  BY <1>2, <1>4, <1>5, <1>6, <1>7, Facts, FrameOne DEF feedVars, emitterVars, FinishKinds, Emission

\* What is true of an owner that is about to take a step.
LEMMA AtStep ==
    ASSUME CInv, NEW p \in Owners, Step(p) # "none"
    PROVE  /\ todo[p] # <<>>
           /\ Kinds(p) = {Step(p)} \cup LaterKinds(p)
           /\ Step(p) \in Emission => Event(p) \in Events
           /\ Step(p) = "return" => Event(p) \in {"ok", "err"}
           /\ Step(p) \in FinishKinds => finalized
           /\ LaterKinds(p) \cap {"canonical", "export"} = {}
           /\ LaterKinds(p) \cap FinishKinds # {} => finalized
           /\ p \in Helpers => LaterKinds(p) \subseteq Emission \cup {"drop", "release"}
<1>1. todo[p] # <<>> /\ Kinds(p) = {Step(p)} \cup LaterKinds(p)
  BY Facts, FirstKind
<1>2. (Step(p) \in Emission => Event(p) \in Events) /\ (Step(p) = "return" => Event(p) \in {"ok", "err"})
  BY <1>1, Facts, StepTypes
<1>3. /\ Kinds(p) \cap FinishKinds # {} => finalized
      /\ p \in Helpers => Kinds(p) \subseteq Emission \cup {"drop", "release"}
      /\ LaterKinds(p) \cap {"canonical", "export"} = {}
  BY OwnerFacts
<1> QED
  BY <1>1, <1>2, <1>3

\* A step with nothing after it but what the list has already.
LEMMA ShorterControl ==
    ASSUME CInv, NEW p \in Owners, Step(p) # "none", Then(p, <<>>),
           Types',
           gate' = IF Step(p) \in {"canonical", "export"} THEN Nobody ELSE gate,
           finalized' = finalized,
           outcome' # "open" => finalized,
           outcome' = "ok" => log' = feed' /\ ~refused'
    PROVE  CInv'
<1>1. /\ todo' \in [Owners -> Seq(Steps)]
      /\ \A q \in Owners \ {p} : todo'[q] = todo[q]
      /\ Kinds(p)' = LaterKinds(p) /\ LaterKinds(p)' \subseteq LaterKinds(p)
      /\ Step(p)' \in LaterKinds(p) \cup {"none"}
  BY AtStep, Facts, ThenNothing
<1>2. Step(p)' \notin {"canonical", "export"} /\ LaterKinds(p)' \cap {"canonical", "export"} = {}
  BY <1>1, AtStep
<1>3. gate' # p
  BY OwnerFacts
<1>4. gate' = gate \/ {gate, gate'} = {p, Nobody}
  BY OwnerFacts
<1>5. Kinds(p)' \cap FinishKinds # {} => finalized'
  BY <1>1, AtStep
<1>6. p \in Helpers => Kinds(p)' \subseteq Emission \cup {"drop", "release"}
  BY <1>1, AtStep
<1>7. finalized' => gate' = Nobody
  BY Facts
<1> QED
  BY <1>1, <1>2, <1>3, <1>4, <1>5, <1>6, <1>7, FrameOne

\* A step that another one takes the place of.
LEMMA ReplacedControl ==
    ASSUME CInv, NEW p \in Owners, Step(p) # "none", NEW x \in Steps, Then(p, <<x>>),
           Types',
           gate' = gate \/ {gate, gate'} = {p, Nobody},
           x[1] \in {"canonical", "export"} <=> gate' = p,
           x[1] \in FinishKinds => finalized',
           p \in Helpers => x[1] \in Emission \cup {"drop", "release"},
           finalized' = finalized, finalized => gate' = Nobody,
           outcome' # "open" => finalized,
           outcome' = "ok" => log' = feed' /\ ~refused'
    PROVE  CInv'
<1>1. /\ todo' \in [Owners -> Seq(Steps)]
      /\ \A q \in Owners \ {p} : todo'[q] = todo[q]
      /\ Kinds(p)' = {x[1]} \cup LaterKinds(p) /\ LaterKinds(p)' = LaterKinds(p)
      /\ Step(p)' = x[1]
  BY AtStep, Facts, ThenOne
<1>2. Kinds(p)' \cap FinishKinds # {} => finalized'
  BY <1>1, AtStep
<1>3. p \in Helpers => Kinds(p)' \subseteq Emission \cup {"drop", "release"}
  BY <1>1, AtStep
<1> QED
  BY <1>1, <1>2, <1>3, AtStep, FrameOne

\* The lists stay lists.
LEMMA ThenTypes ==
    ASSUME CInv, NEW p \in Owners, Step(p) # "none",
           Then(p, <<>>) \/ \E x \in Steps : Then(p, <<x>>)
    PROVE  todo' \in [Owners -> Seq(Steps)]
BY AtStep, Facts, ThenNothing, ThenOne

LEMMA EnterControl == ASSUME CInv, NEW p \in Owners, Enter(p) PROVE CInv'
<1>1. /\ Step(p) = "emit" /\ gate = Nobody
      /\ UNCHANGED <<feedVars, refused, finalized, taken, exported, clones, items, result,
                     vanishedAt, dropVars>>
  BY DEF Enter
<1>2. finalized \in BOOLEAN /\ terminalErr \in BOOLEAN /\ Types
  BY Facts
<1>3. CASE finalized
  <2>1. Then(p, <<>>) /\ gate' = gate /\ terminalErr' \in BOOLEAN
    BY <1>2, <1>3 DEF Enter, Emitted
  <2>2. Types'
    BY <1>1, <1>2, <2>1, ThenTypes DEF Types, dropVars, feedVars
  <2> QED
    BY <1>1, <2>1, <2>2, Facts, ShorterControl DEF feedVars
<1>4. CASE ~finalized
  <2>1. gate' = p /\ Then(p, <<<<"canonical", Event(p)>>>>) /\ UNCHANGED terminalErr
    BY <1>4 DEF Enter
  <2>2. <<"canonical", Event(p)>> \in Steps
    BY <1>1, AtStep DEF Steps, Emission
  <2>3. Types'
    <3>1. todo' \in [Owners -> Seq(Steps)]
      BY <1>1, <2>1, <2>2, ThenTypes
    <3> QED
      BY <1>1, <1>2, <2>1, <3>1 DEF Types, dropVars, feedVars
  <2> QED
    BY <1>1, <1>4, <2>1, <2>2, <2>3, Facts, ReplacedControl DEF feedVars, Emission, FinishKinds
<1> QED
  BY <1>2, <1>3, <1>4

\* While somebody dispatches an event the run is not finalized and the sink is open.
LEMMA Dispatching ==
    ASSUME CInv, NEW p \in Owners, Step(p) \in {"canonical", "export"}
    PROVE  gate = p /\ ~finalized /\ outcome = "open"
BY OwnerFacts, Facts

LEMMA CanonicalControl == ASSUME CInv, NEW p \in Owners, Canonical(p) PROVE CInv'
<1>1. /\ Step(p) = "canonical"
      /\ UNCHANGED <<finalized, taken, exported, clones, items, result, vanishedAt, dropVars>>
  BY DEF Canonical
<1>2. gate = p /\ ~finalized /\ outcome = "open" /\ Event(p) \in Events
  BY <1>1, Dispatching, AtStep DEF Emission
<1>3. terminalErr \in BOOLEAN /\ Types
  BY Facts
<1>4. CASE Accept(Event(p)) /\ Then(p, <<<<"export", Event(p)>>>>)
           /\ UNCHANGED <<refused, gate, terminalErr>>
  <2>1. feed' \in Seq(Events) /\ UNCHANGED <<log, outcome>>
    BY <1>2, <1>3, <1>4 DEF Accept, Types
  <2>2. <<"export", Event(p)>> \in Steps
    BY <1>2 DEF Steps
  <2>3. Types'
    <3>1. todo' \in [Owners -> Seq(Steps)]
      BY <1>1, <1>4, <2>2, ThenTypes
    <3> QED
      BY <1>1, <1>3, <1>4, <2>1, <3>1 DEF Types, dropVars
  <2> QED
    BY <1>1, <1>2, <1>4, <2>1, <2>2, <2>3, Facts, ReplacedControl DEF Emission, FinishKinds
<1>5. CASE SinkRefuses(p)
  <2>1. /\ refused' = TRUE /\ gate' = Nobody /\ Then(p, <<>>) /\ terminalErr' \in BOOLEAN
        /\ UNCHANGED feedVars
    BY <1>3, <1>5 DEF SinkRefuses, Emitted
  <2>2. Types'
    BY <1>1, <1>3, <2>1, ThenTypes DEF Types, dropVars, feedVars
  <2> QED
    BY <1>1, <1>2, <2>1, <2>2, ShorterControl DEF feedVars
<1> QED
  BY <1>4, <1>5 DEF Canonical

LEMMA ExportControl == ASSUME CInv, NEW p \in Owners, Export(p) PROVE CInv'
<1>1. /\ Step(p) = "export" /\ gate' = Nobody
      /\ UNCHANGED <<feedVars, refused, finalized, taken, clones, items, result, vanishedAt,
                     dropVars>>
  BY DEF Export
<1>2. Event(p) \in Events
  BY <1>1, AtStep DEF Emission
<1>3. terminalErr \in BOOLEAN /\ Types
  BY Facts
<1>4. Then(p, <<>>) /\ terminalErr' \in BOOLEAN
  BY <1>3 DEF Export, Emitted
<1>5. exported' \in [Exporters -> Seq(Events)]
  BY <1>2, <1>3 DEF Export, Types
<1>6. Types'
  BY <1>1, <1>3, <1>4, <1>5, ThenTypes DEF Types, dropVars, feedVars
<1> QED
  BY <1>1, <1>4, <1>6, Facts, ShorterControl DEF feedVars

LEMMA ThenTwo ==
    ASSUME todo \in [Owners -> Seq(Steps)], NEW p \in Owners, todo[p] # <<>>,
           NEW x \in Steps, NEW y \in Steps, Then(p, <<x, y>>)
    PROVE  /\ todo' \in [Owners -> Seq(Steps)]
           /\ \A q \in Owners \ {p} : todo'[q] = todo[q]
           /\ Kinds(p)' \subseteq {x[1], y[1]} \cup LaterKinds(p)
           /\ LaterKinds(p)' \subseteq {y[1]} \cup LaterKinds(p)
           /\ Step(p)' = x[1]
<1> DEFINE t == <<x, y>> \o Tail(todo[p])
<1>1. Tail(todo[p]) \in Seq(Steps) /\ Len(Tail(todo[p])) = Len(todo[p]) - 1
      /\ Len(todo[p]) \in Nat /\ Len(todo[p]) >= 1
  BY TailOf
<1>2. <<x, y>> \in Seq(Steps) /\ Len(<<x, y>>) = 2
  OBVIOUS
<1>3. t \in Seq(Steps) /\ Len(t) = Len(todo[p]) + 1 /\ t # <<>> /\ Head(t) = x /\ t[1] = x /\ t[2] = y
  BY <1>1, <1>2
<1>4. ASSUME NEW i \in 3 .. Len(todo[p]) + 1 PROVE i - 1 \in 2 .. Len(todo[p]) /\ t[i] = todo[p][i - 1]
  <2>1. t[i] = Tail(todo[p])[i - 2]
    BY <1>1, <1>2, <1>3
  <2>2. i - 2 \in 1 .. Len(todo[p]) - 1 /\ (i - 2) + 1 = i - 1
    BY <1>1
  <2> QED
    BY <1>1, <2>1, <2>2, TailOf
<1>5. todo' \in [Owners -> Seq(Steps)] /\ todo'[p] = t /\ \A q \in Owners \ {p} : todo'[q] = todo[q]
  BY <1>2, ThenType
<1> HIDE DEF t
<1>6. Step(p)' = x[1]
  BY <1>3, <1>5 DEF Step
<1>7. ASSUME NEW i \in 2 .. Len(t) PROVE t[i][1] \in {y[1]} \cup LaterKinds(p)
  <2>1. CASE i = 2
    BY <1>3, <2>1
  <2>2. CASE i # 2
    <3>1. i \in 3 .. Len(todo[p]) + 1
      BY <1>1, <1>3, <2>2
    <3> QED
      BY <1>4, <3>1 DEF LaterKinds
  <2> QED
    BY <2>1, <2>2
<1>8. LaterKinds(p)' \subseteq {y[1]} \cup LaterKinds(p)
  BY <1>5, <1>7 DEF LaterKinds
<1>9. Kinds(p)' \subseteq {x[1], y[1]} \cup LaterKinds(p)
  <2>1. ASSUME NEW i \in 1 .. Len(t) PROVE t[i][1] \in {x[1], y[1]} \cup LaterKinds(p)
    <3>1. i = 1 \/ i \in 2 .. Len(t)
      BY <1>1, <1>3
    <3> QED
      BY <1>3, <1>7, <3>1
  <2> QED
    BY <1>5, <2>1 DEF Kinds
<1> QED
  BY <1>5, <1>6, <1>8, <1>9

LEMMA FinishControl == ASSUME CInv, NEW p \in Owners, Finish(p) PROVE CInv'
<1>1. /\ Step(p) = "finish" /\ gate = Nobody /\ finalized' = TRUE
      /\ UNCHANGED <<feedVars, refused, gate, taken, exported, clones, items, sessionVars,
                     dropVars>>
  BY DEF Finish
<1>2. finalized \in BOOLEAN /\ Types
  BY Facts DEF Types
<1>3. CASE finalized
  <2>1. Then(p, <<<<"return", "ok">>>>)
    BY <1>3 DEF Finish
  <2>2. <<"return", "ok">> \in Steps
    BY DEF Steps
  <2>3. Types'
    <3>1. todo' \in [Owners -> Seq(Steps)]
      BY <1>1, <2>1, <2>2, ThenTypes
    <3> QED
      BY <1>1, <1>2, <3>1 DEF Types, dropVars, feedVars, sessionVars
  <2>4. p \notin Helpers
    BY <1>1, AtStep, OwnerFacts DEF Emission
  <2> QED
    BY <1>1, <1>2, <1>3, <2>1, <2>2, <2>3, <2>4, OwnerFacts, Facts, ReplacedControl DEF feedVars
<1>4. CASE ~finalized
  <2>1. Then(p, <<<<"exports">>, <<"close">>>>)
    BY <1>4 DEF Finish
  <2>2. <<"exports">> \in Steps /\ <<"close">> \in Steps
    BY DEF Steps
  <2>3. /\ todo' \in [Owners -> Seq(Steps)]
        /\ \A q \in Owners \ {p} : todo'[q] = todo[q]
        /\ LaterKinds(p)' \subseteq {"close"} \cup LaterKinds(p)
        /\ Step(p)' = "exports"
    BY <1>1, <2>1, <2>2, AtStep, Facts, ThenTwo
  <2>4. Types'
    BY <1>1, <1>2, <2>3 DEF Types, dropVars, feedVars, sessionVars
  <2>5. p \notin Helpers
    BY <1>1, AtStep, OwnerFacts DEF Emission
  <2>6. LaterKinds(p)' \cap {"canonical", "export"} = {}
    BY <2>3, OwnerFacts
  <2> QED
    BY <1>1, <2>3, <2>4, <2>5, <2>6, OwnerFacts, Facts, FrameOne DEF feedVars
<1> QED
  BY <1>2, <1>3, <1>4

LEMMA FinishExportsControl == ASSUME CInv, NEW p \in Owners, FinishExports(p) PROVE CInv'
<1>1. /\ Step(p) = "exports" /\ taken' = TRUE /\ Then(p, <<>>)
      /\ UNCHANGED <<feedVars, refused, gate, finalized, exported, clones, items, sessionVars,
                     dropVars>>
  BY DEF FinishExports
<1>2. Types'
  BY <1>1, Facts, ThenTypes DEF Types, dropVars, feedVars, sessionVars
<1> QED
  BY <1>1, <1>2, Facts, ShorterControl DEF feedVars

LEMMA CloseControl == ASSUME CInv, NEW p \in Owners, Close(p) PROVE CInv'
<1>1. PICK answer \in {"ok", "err"} :
        /\ answer = "ok" => ~refused
        /\ Answer(answer)
        /\ Then(p, <<<<"return", answer>>>>)
  BY DEF Close
<1>2. Step(p) = "close" /\ UNCHANGED <<emitterVars, clones, items, sessionVars, dropVars>>
  BY DEF Close
<1>3. /\ outcome' = answer /\ UNCHANGED <<feed, log>>
      /\ answer = "ok" => log = feed
  BY <1>1 DEF Answer
<1>4. <<"return", answer>> \in Steps
  BY DEF Steps
<1>5. Types'
  <2>1. todo' \in [Owners -> Seq(Steps)]
    BY <1>1, <1>2, <1>3, <1>4, ThenTypes
  <2> QED
    BY <1>1, <1>2, <1>3, <2>1, Facts DEF Types, dropVars, emitterVars, sessionVars
<1>6. finalized
  BY <1>2, AtStep DEF FinishKinds
<1>7. p \notin Helpers
  BY <1>2, AtStep, OwnerFacts DEF Emission
<1> QED
  BY <1>1, <1>2, <1>3, <1>4, <1>5, <1>6, <1>7, OwnerFacts, Facts, ReplacedControl DEF emitterVars

LEMMA ReturnControl == ASSUME CInv, NEW p \in Owners, Return(p) PROVE CInv'
<1>1. /\ Step(p) = "return" /\ Then(p, <<>>)
      /\ UNCHANGED <<feedVars, emitterVars, clones, items, terminalErr, vanishedAt, dropVars>>
  BY DEF Return
<1>2. result' \in {"running", "completing", "failing", "ok", "err", "vanished"}
  BY Facts DEF Return, Types
<1>3. Types'
  BY <1>1, <1>2, Facts, ThenTypes DEF Types, dropVars, feedVars, emitterVars
<1> QED
  BY <1>1, <1>3, Facts, ShorterControl DEF feedVars, emitterVars

LEMMA NotifyControl == ASSUME CInv, Notify PROVE CInv'
<1>1. /\ Step(Session) = "notify" /\ Then(Session, <<>>) /\ Session \in Owners
      /\ UNCHANGED <<feedVars, emitterVars, clones, items, sessionVars, dropVars>>
  BY DEF Notify, Owners
<1>2. Types'
  BY <1>1, Facts, ThenTypes DEF Types, dropVars, feedVars, emitterVars, sessionVars
<1> QED
  BY <1>1, <1>2, Facts, ShorterControl DEF feedVars, emitterVars

LEMMA ReleaseControl == ASSUME CInv, NEW p \in Owners, Release(p) PROVE CInv'
<1>1. /\ Step(p) = "release" /\ Then(p, <<>>) /\ clones' = clones \ {p}
      /\ UNCHANGED <<feedVars, emitterVars, items, sessionVars, dropVars>>
  BY DEF Release
<1>2. Types'
  BY <1>1, Facts, ThenTypes DEF Types, dropVars, feedVars, emitterVars, sessionVars
<1> QED
  BY <1>1, <1>2, Facts, ShorterControl DEF feedVars, emitterVars

\* An owner that is in the middle of no emission gets a list without one.
LEMMA NewListControl ==
    ASSUME CInv, NEW p \in Owners, Step(p) \notin {"canonical", "export"},
           Types', UNCHANGED feedVars, UNCHANGED <<refused, gate, finalized>>,
           \A q \in Owners \ {p} : todo'[q] = todo[q],
           Kinds(p)' \cap (FinishKinds \cup {"canonical", "export"}) = {},
           LaterKinds(p)' \subseteq Kinds(p)', Step(p)' \in Kinds(p)',
           p \in Helpers => Kinds(p)' \subseteq Emission \cup {"drop", "release"}
    PROVE  CInv'
<1>1. gate' # p
  BY OwnerFacts
<1> QED
  BY <1>1, OwnerFacts, Facts, FrameOne DEF feedVars

SessionIsNoHelper == Session \in Owners /\ Finalizer \in Owners /\ Session # Finalizer
                     /\ Session \notin Helpers /\ Finalizer \notin Helpers
LEMMA Distinct == SessionIsNoHelper
BY HarnessAssumption DEF SessionIsNoHelper, Owners

LEMMA ScriptSteps ==
    /\ <<"emit", Completed>> \in Steps /\ <<"emit", Failed>> \in Steps /\ <<"emit", Aborted>> \in Steps
    /\ <<"notify">> \in Steps /\ <<"finish">> \in Steps /\ <<"drop">> \in Steps
BY HarnessAssumption DEF Steps

\* A script, with the kinds of its steps.
LEMMA FourSteps ==
    ASSUME NEW p \in Owners, NEW a, NEW b, NEW c, NEW d,
           todo'[p] = <<a, b, c, d>>
    PROVE  /\ Kinds(p)' = {a[1], b[1], c[1], d[1]} /\ LaterKinds(p)' = {b[1], c[1], d[1]}
           /\ Step(p)' = a[1]
<1>1. Len(<<a, b, c, d>>) = 4 /\ 1 .. 4 = {1, 2, 3, 4} /\ 2 .. 4 = {2, 3, 4}
  OBVIOUS
<1>2. Kinds(p)' = {<<a, b, c, d>>[i][1] : i \in {1, 2, 3, 4}}
  BY <1>1 DEF Kinds
<1>3. LaterKinds(p)' = {<<a, b, c, d>>[i][1] : i \in {2, 3, 4}}
  BY <1>1 DEF LaterKinds
<1>4. Step(p)' = a[1]
  BY DEF Step
<1> QED
  BY <1>2, <1>3, <1>4

LEMMA OneStep ==
    ASSUME NEW p \in Owners, NEW a, todo'[p] = <<a>>
    PROVE  Kinds(p)' = {a[1]} /\ LaterKinds(p)' = {} /\ Step(p)' = a[1]
BY DEF Kinds, LaterKinds, Step

LEMMA CompleteControl == ASSUME CInv, Complete PROVE CInv'
<1> DEFINE script == <<<<"emit", Completed>>, <<"notify">>, <<"finish">>, <<"drop">>>>
<1>1. /\ todo[Session] = <<>> /\ todo' = [todo EXCEPT ![Session] = script]
      /\ result' = "completing"
      /\ UNCHANGED <<feedVars, emitterVars, clones, items, terminalErr, vanishedAt, dropVars>>
  BY DEF Complete, Begin
<1>2. script \in Seq(Steps)
  BY ScriptSteps
<1>3. /\ todo' \in [Owners -> Seq(Steps)] /\ todo'[Session] = script
      /\ \A q \in Owners \ {Session} : todo'[q] = todo[q]
  BY <1>1, <1>2, Facts, Distinct DEF SessionIsNoHelper
<1>4. /\ Kinds(Session)' = {"emit", "notify", "finish", "drop"}
      /\ LaterKinds(Session)' = {"notify", "finish", "drop"} /\ Step(Session)' = "emit"
  BY <1>3, FourSteps, Distinct DEF SessionIsNoHelper
<1>5. Types'
  BY <1>1, <1>3, Facts DEF Types, dropVars, feedVars, emitterVars
<1>6. Step(Session) = "none"
  BY <1>1, Facts, FirstKind, Distinct DEF SessionIsNoHelper
<1> QED
  BY <1>1, <1>3, <1>4, <1>5, <1>6, Distinct, NewListControl
     DEF emitterVars, FinishKinds, SessionIsNoHelper

LEMMA FailControl == ASSUME CInv, Fail PROVE CInv'
<1>1. /\ todo[Session] = <<>> /\ todo' = [todo EXCEPT ![Session] = UnexpectedExit]
      /\ result' = "failing"
      /\ UNCHANGED <<feedVars, emitterVars, clones, items, terminalErr, vanishedAt, dropVars>>
  BY DEF Fail, Begin
<1>2. UnexpectedExit \in Seq(Steps)
  BY ScriptSteps DEF UnexpectedExit
<1>3. /\ todo' \in [Owners -> Seq(Steps)] /\ todo'[Session] = UnexpectedExit
      /\ \A q \in Owners \ {Session} : todo'[q] = todo[q]
  BY <1>1, <1>2, Facts, Distinct DEF SessionIsNoHelper
<1>4. /\ Kinds(Session)' = {"emit", "finish", "drop"}
      /\ LaterKinds(Session)' = {"emit", "finish", "drop"} /\ Step(Session)' = "emit"
  <2>1. todo'[Session] = <<<<"emit", Failed>>, <<"emit", Aborted>>, <<"finish">>, <<"drop">>>>
    BY <1>3 DEF UnexpectedExit
  <2>2. /\ Kinds(Session)' = {"emit", "emit", "finish", "drop"}
        /\ LaterKinds(Session)' = {"emit", "finish", "drop"} /\ Step(Session)' = "emit"
    BY <2>1, FourSteps, Distinct DEF SessionIsNoHelper
  <2> QED
    BY <2>2
<1>5. Types'
  BY <1>1, <1>3, Facts DEF Types, dropVars, feedVars, emitterVars
<1>6. Step(Session) = "none"
  BY <1>1, Facts, FirstKind, Distinct DEF SessionIsNoHelper
<1> QED
  BY <1>1, <1>3, <1>4, <1>5, <1>6, Distinct, NewListControl
     DEF emitterVars, FinishKinds, SessionIsNoHelper

LEMMA VanishControl == ASSUME CInv, Vanish PROVE CInv'
<1>1. /\ todo' = [todo EXCEPT ![Session] = <<<<"drop">>>>]
      /\ result' = "vanished" /\ vanishedAt' = Step(Session)
      /\ UNCHANGED <<feedVars, emitterVars, clones, items, terminalErr, dropVars>>
  BY DEF Vanish
<1>2. Step(Session) \in {"none", "notify", "exports", "close"}
  BY Facts, FirstKind, Distinct DEF Vanish, Working, SessionIsNoHelper
<1>3. /\ todo' \in [Owners -> Seq(Steps)] /\ todo'[Session] = <<<<"drop">>>>
      /\ \A q \in Owners \ {Session} : todo'[q] = todo[q]
  BY <1>1, ScriptSteps, Facts, Distinct DEF SessionIsNoHelper
<1>4. Kinds(Session)' = {"drop"} /\ LaterKinds(Session)' = {} /\ Step(Session)' = "drop"
  BY <1>3, OneStep, Distinct DEF SessionIsNoHelper
<1>5. Types'
  BY <1>1, <1>2, <1>3, Facts DEF Types, dropVars, feedVars, emitterVars
<1> QED
  BY <1>1, <1>2, <1>3, <1>4, <1>5, Distinct, NewListControl
     DEF emitterVars, FinishKinds, SessionIsNoHelper

LEMMA RuntimeEndsControl == ASSUME CInv, RuntimeEnds PROVE CInv'
<1>1. /\ todo' = [todo EXCEPT ![Finalizer] = <<<<"drop">>>>] /\ stranded' = TRUE
      /\ UNCHANGED <<feedVars, emitterVars, clones, items, sessionVars, overlapped>>
  BY DEF RuntimeEnds
<1>2. Step(Finalizer) \in {"emit", "exports", "close"}
  BY DEF RuntimeEnds, UnexpectedExit, Step
<1>3. /\ todo' \in [Owners -> Seq(Steps)] /\ todo'[Finalizer] = <<<<"drop">>>>
      /\ \A q \in Owners \ {Finalizer} : todo'[q] = todo[q]
  BY <1>1, ScriptSteps, Facts, Distinct DEF SessionIsNoHelper
<1>4. Kinds(Finalizer)' = {"drop"} /\ LaterKinds(Finalizer)' = {} /\ Step(Finalizer)' = "drop"
  BY <1>3, OneStep, Distinct DEF SessionIsNoHelper
<1>5. Types'
  BY <1>1, <1>3, Facts DEF Types, feedVars, emitterVars, sessionVars
<1> QED
  BY <1>1, <1>2, <1>3, <1>4, <1>5, Distinct, NewListControl
     DEF emitterVars, FinishKinds, SessionIsNoHelper

LEMMA DropHelperControl == ASSUME CInv, NEW h \in Helpers, DropHelper(h) PROVE CInv'
<1>1. /\ todo[h] = <<>> /\ todo' = [todo EXCEPT ![h] = <<<<"drop">>>>] /\ h \in Owners
      /\ UNCHANGED <<feedVars, emitterVars, clones, items, sessionVars, dropVars>>
  BY DEF DropHelper, Begin, Owners
<1>2. /\ todo' \in [Owners -> Seq(Steps)] /\ todo'[h] = <<<<"drop">>>>
      /\ \A q \in Owners \ {h} : todo'[q] = todo[q]
  BY <1>1, ScriptSteps, Facts
<1>3. Kinds(h)' = {"drop"} /\ LaterKinds(h)' = {} /\ Step(h)' = "drop"
  BY <1>1, <1>2, OneStep
<1>4. Types'
  BY <1>1, <1>2, Facts DEF Types, dropVars, feedVars, emitterVars, sessionVars
<1>5. Step(h) = "none"
  BY <1>1, Facts, FirstKind
<1> QED
  BY <1>1, <1>2, <1>3, <1>4, <1>5, NewListControl DEF emitterVars, FinishKinds

\* Steps that leave every list alone.
LEMMA QuietControl ==
    ASSUME CInv, Types', UNCHANGED <<todo, gate, finalized, refused, outcome>>,
           outcome = "open" \/ UNCHANGED <<feed, log>>
    PROVE  CInv'
<1>1. \A p \in Owners : /\ Step(p)' = Step(p) /\ Kinds(p)' = Kinds(p)
                        /\ LaterKinds(p)' = LaterKinds(p)
  BY Elsewhere
<1>2. Gate'
  BY <1>1, Facts DEF Gate
<1>3. Control'
  BY <1>1 DEF CInv, Control, Owners
<1> QED
  BY <1>2, <1>3, Together

LEMMA CloneControl == ASSUME CInv, NEW h \in Helpers, Clone(h) PROVE CInv'
<1>1. /\ clones' = clones \cup {h} /\ h \in Owners
      /\ UNCHANGED <<feedVars, emitterVars, todo, items, sessionVars, dropVars>>
  BY DEF Clone, Owners
<1>2. Types'
  BY <1>1, Facts DEF Types, dropVars, feedVars, emitterVars, sessionVars
<1> QED
  BY <1>1, <1>2, QuietControl DEF feedVars, emitterVars

LEMMA DrainControl == ASSUME CInv, DrainStep PROVE CInv'
<1>1. /\ outcome = "open" /\ UNCHANGED <<feed, outcome>>
      /\ UNCHANGED <<emitterVars, clones, todo, items, sessionVars, dropVars>>
  BY DEF DrainStep, Persist
<1>2. PICK n \in Len(log) .. Len(feed) : log' = SubSeq(feed, 1, n)
  BY DEF DrainStep, Persist
<1>3. log' \in Seq(Events)
  BY <1>2, Facts DEF Types
<1>4. Types'
  BY <1>1, <1>3, Facts DEF Types, dropVars, emitterVars, sessionVars
<1> QED
  BY <1>1, <1>4, QuietControl DEF emitterVars

--------------------------------------------------------------------------------
(* Phases: where in their scripts the session and the finalizer are. *)

FinishPhase(l) ==
    \/ l = <<<<"finish">>, <<"drop">>>>
    \/ l = <<<<"exports">>, <<"close">>, <<"drop">>>>
    \/ l = <<<<"close">>, <<"drop">>>>
    \/ \E answer \in {"ok", "err"} : l = <<<<"return", answer>>, <<"drop">>>>

ExitPhase(l) ==
    \/ \E k \in Emission : l = <<<<k, Failed>>, <<"emit", Aborted>>, <<"finish">>, <<"drop">>>>
    \/ \E k \in Emission : l = <<<<k, Aborted>>, <<"finish">>, <<"drop">>>>
    \/ FinishPhase(l)

LastPhase(l) == l = <<<<"drop">>>> \/ l = <<<<"release">>>>

Live == result \in {"running", "completing", "failing"}
HasCompleted == \E i \in DOMAIN feed : feed[i] = Completed
Told == terminalErr \/ HasCompleted

CompletingPhase ==
    \/ /\ ~finalized
       /\ \/ todo[Session] = <<<<"emit", Completed>>, <<"notify">>, <<"finish">>, <<"drop">>>>
          \/ todo[Session] = <<<<"canonical", Completed>>, <<"notify">>, <<"finish">>, <<"drop">>>>
          \/ /\ todo[Session] = <<<<"export", Completed>>, <<"notify">>, <<"finish">>, <<"drop">>>>
             /\ Told
          \/ todo[Session] = <<<<"notify">>, <<"finish">>, <<"drop">>>> /\ Told
          \/ todo[Session] = <<<<"finish">>, <<"drop">>>> /\ Told
    \/ /\ outcome = "open" /\ Told
       /\ \/ todo[Session] = <<<<"exports">>, <<"close">>, <<"drop">>>>
          \/ todo[Session] = <<<<"close">>, <<"drop">>>>
    \/ Told /\ todo[Session] = <<<<"return", outcome>>, <<"drop">>>>

Phases ==
    /\ result = "running" =>
           /\ ~finalized
           /\ todo[Session] = <<>> \/ \E k \in Emission, e \in Items : todo[Session] = <<<<k, e>>>>
    /\ result = "completing" => CompletingPhase
    /\ result = "failing" => ExitPhase(todo[Session])
    /\ Live => Session \in clones /\ todo[Finalizer] = <<>>
    /\ result = "ok" => outcome = "ok" /\ HasCompleted
    /\ todo[Finalizer] = <<>> \/ ExitPhase(todo[Finalizer]) \/ LastPhase(todo[Finalizer])
    /\ todo[Finalizer] = <<>> <=> Finalizer \notin clones

HInv == CInv /\ Phases

LEMMA InitInv == Init => HInv
<1> SUFFICES ASSUME Init PROVE HInv
  OBVIOUS
<1>1. CInv
  BY InitControl DEF CInv
<1>2. Phases
  BY Distinct DEF Init, Phases, Live, SessionIsNoHelper
<1> QED
  BY <1>1, <1>2 DEF HInv

\* No step takes an event back or changes an answer.
LEMMA FeedKeeps ==
    ASSUME CInv, UNCHANGED feed \/ \E e \in Events : Accept(e), HasCompleted
    PROVE  HasCompleted'
<1>1. feed \in Seq(Events)
  BY Facts DEF Types
<1>2. CASE UNCHANGED feed
  BY <1>2 DEF HasCompleted
<1>3. CASE \E e \in Events : Accept(e)
  <2>1. PICK e \in Events : feed' = Append(feed, e)
    BY <1>3 DEF Accept
  <2>2. PICK i \in DOMAIN feed : feed[i] = Completed
    BY DEF HasCompleted
  <2>3. i \in DOMAIN feed' /\ feed'[i] = feed[i]
    BY <1>1, <2>1, <2>2
  <2> QED
    BY <2>2, <2>3 DEF HasCompleted
<1> QED
  BY <1>2, <1>3

LEMMA AcceptsCompleted ==
    ASSUME CInv, Accept(Completed)
    PROVE  HasCompleted'
<1>1. feed \in Seq(Events) /\ feed' = Append(feed, Completed)
  BY Facts DEF Types, Accept
<1>2. Len(feed) + 1 \in DOMAIN feed' /\ feed'[Len(feed) + 1] = Completed
  BY <1>1
<1> QED
  BY <1>2 DEF HasCompleted

LEMMA ExitEmission ==
    ASSUME CInv, NEW p \in Owners, ExitPhase(todo[p]), Step(p) \in Emission,
           Then(p, <<>>) \/ \E k \in Emission : Then(p, <<<<k, Event(p)>>>>)
    PROVE  ExitPhase(todo'[p])
<1>1. todo \in [Owners -> Seq(Steps)]
  BY Facts
<1>2. ~FinishPhase(todo[p])
  BY DEF FinishPhase, Step, Emission
<1>3. CASE \E k \in Emission : todo[p] = <<<<k, Failed>>, <<"emit", Aborted>>, <<"finish">>, <<"drop">>>>
  <2>1. Event(p) = Failed /\ Tail(todo[p]) = <<<<"emit", Aborted>>, <<"finish">>, <<"drop">>>>
    BY <1>3 DEF Event
  <2>2. CASE Then(p, <<>>)
    <3>1. todo'[p] = <<<<"emit", Aborted>>, <<"finish">>, <<"drop">>>>
      BY <1>1, <1>3, <2>2 DEF Then
    <3> QED
      BY <3>1 DEF ExitPhase, Emission
  <2>3. ASSUME NEW k \in Emission, Then(p, <<<<k, Event(p)>>>>) PROVE ExitPhase(todo'[p])
    <3>1. todo'[p] = <<<<k, Failed>>>> \o Tail(todo[p])
      BY <1>1, <2>1, <2>3 DEF Then
    <3>2. todo'[p] = <<<<k, Failed>>>> \o <<<<"emit", Aborted>>, <<"finish">>, <<"drop">>>>
      BY <2>1, <3>1
    <3>3. <<<<k, Failed>>>> \o <<<<"emit", Aborted>>, <<"finish">>, <<"drop">>>>
            = <<<<k, Failed>>, <<"emit", Aborted>>, <<"finish">>, <<"drop">>>>
      BY OneThenThree
    <3>4. todo'[p] = <<<<k, Failed>>, <<"emit", Aborted>>, <<"finish">>, <<"drop">>>>
      BY <3>2, <3>3
    <3> QED
      BY <3>4 DEF ExitPhase
  <2> QED
    BY <2>2, <2>3
<1>4. CASE \E k \in Emission : todo[p] = <<<<k, Aborted>>, <<"finish">>, <<"drop">>>>
  <2>1. Event(p) = Aborted /\ Tail(todo[p]) = <<<<"finish">>, <<"drop">>>>
    BY <1>4 DEF Event
  <2>2. CASE Then(p, <<>>)
    <3>1. todo'[p] = <<<<"finish">>, <<"drop">>>>
      BY <1>1, <1>4, <2>2 DEF Then
    <3> QED
      BY <3>1 DEF ExitPhase, FinishPhase
  <2>3. ASSUME NEW k \in Emission, Then(p, <<<<k, Event(p)>>>>) PROVE ExitPhase(todo'[p])
    <3>1. todo'[p] = <<<<k, Aborted>>>> \o Tail(todo[p])
      BY <1>1, <2>1, <2>3 DEF Then
    <3>2. todo'[p] = <<<<k, Aborted>>, <<"finish">>, <<"drop">>>>
      BY <2>1, <3>1, OneThenTwo
    <3> QED
      BY <3>2 DEF ExitPhase
  <2> QED
    BY <2>2, <2>3
<1> QED
  BY <1>2, <1>3, <1>4 DEF ExitPhase

LEMMA ExitFinish ==
    ASSUME CInv, NEW p \in Owners, ExitPhase(todo[p]),
           Finish(p) \/ FinishExports(p) \/ Close(p)
    PROVE  ExitPhase(todo'[p])
<1>1. todo \in [Owners -> Seq(Steps)]
  BY Facts
<1>2. CASE Finish(p)
  <2>1. todo[p] = <<<<"finish">>, <<"drop">>>>
    BY <1>2 DEF Finish, ExitPhase, FinishPhase, Step, Emission
  <2>2. CASE Then(p, <<<<"return", "ok">>>>)
    <3>1. todo'[p] = <<<<"return", "ok">>>> \o <<<<"drop">>>>
      BY <1>1, <2>1, <2>2 DEF Then
    <3>2. todo'[p] = <<<<"return", "ok">>, <<"drop">>>>
      BY <3>1, OneThenOne
    <3> QED
      BY <3>2 DEF ExitPhase, FinishPhase
  <2>3. CASE Then(p, <<<<"exports">>, <<"close">>>>)
    <3>1. todo'[p] = <<<<"exports">>, <<"close">>>> \o <<<<"drop">>>>
      BY <1>1, <2>1, <2>3 DEF Then
    <3>2. todo'[p] = <<<<"exports">>, <<"close">>, <<"drop">>>>
      BY <3>1, TwoThenOne
    <3> QED
      BY <3>2 DEF ExitPhase, FinishPhase
  <2> QED
    BY <1>2, <2>2, <2>3 DEF Finish
<1>3. CASE FinishExports(p)
  <2>1. todo[p] = <<<<"exports">>, <<"close">>, <<"drop">>>>
    BY <1>3 DEF FinishExports, ExitPhase, FinishPhase, Step, Emission
  <2>2. todo'[p] = <<<<"close">>, <<"drop">>>>
    BY <1>1, <1>3, <2>1 DEF FinishExports, Then
  <2> QED
    BY <2>2 DEF ExitPhase, FinishPhase
<1>4. CASE Close(p)
  <2>1. todo[p] = <<<<"close">>, <<"drop">>>>
    BY <1>4 DEF Close, ExitPhase, FinishPhase, Step, Emission
  <2>2. PICK answer \in {"ok", "err"} : Then(p, <<<<"return", answer>>>>)
    BY <1>4 DEF Close
  <2>3. Tail(todo[p]) = <<<<"drop">>>>
    BY <2>1
  <2>4. todo'[p] = <<<<"return", answer>>>> \o Tail(todo[p])
    BY <1>1, <2>1, <2>2 DEF Then
  <2>5. todo'[p] = <<<<"return", answer>>, <<"drop">>>>
    BY <2>3, <2>4, OneThenOne
  <2> QED
    BY <2>5 DEF ExitPhase, FinishPhase
<1> QED
  BY <1>2, <1>3, <1>4

LEMMA ExitReturn ==
    ASSUME CInv, NEW p \in Owners, ExitPhase(todo[p]), Return(p)
    PROVE  todo'[p] = <<<<"drop">>>>
<1>1. todo \in [Owners -> Seq(Steps)]
  BY Facts
<1>2. PICK answer \in {"ok", "err"} : todo[p] = <<<<"return", answer>>, <<"drop">>>>
  BY DEF Return, ExitPhase, FinishPhase, Step, Emission
<1> QED
  BY <1>1, <1>2 DEF Return, Then

LEMMA PhaseParts ==
    ASSUME HInv,
           result' = "running" =>
               /\ ~finalized'
               /\ \/ todo'[Session] = <<>>
                  \/ \E k \in Emission, e \in Items : todo'[Session] = <<<<k, e>>>>,
           result' = "completing" => CompletingPhase',
           result' = "failing" => ExitPhase(todo'[Session]),
           Live' => Live /\ Session \in clones',
           todo'[Finalizer] = todo[Finalizer], Finalizer \in clones' <=> Finalizer \in clones,
           result' = "ok" => outcome' = "ok" /\ HasCompleted'
    PROVE  Phases'
<1>1. ExitPhase(todo[Finalizer])' = ExitPhase(todo[Finalizer])
  BY DEF ExitPhase, FinishPhase
<1>2. LastPhase(todo[Finalizer])' = LastPhase(todo[Finalizer])
  BY DEF LastPhase
<1>3. ExitPhase(todo[Session])' = ExitPhase(todo'[Session])
  BY DEF ExitPhase, FinishPhase
<1> QED
  BY <1>1, <1>2, <1>3 DEF HInv, Phases

\* A success that has been reported stays true.
LEMMA OkStays ==
    ASSUME HInv, result' = "ok" => result = "ok", outcome' = outcome \/ outcome = "open",
           UNCHANGED feed \/ \E e \in Events : Accept(e)
    PROVE  result' = "ok" => outcome' = "ok" /\ HasCompleted'
BY FeedKeeps DEF HInv, Phases

\* Steps that neither the session nor the finalizer takes.
LEMMA OthersKeep ==
    ASSUME HInv, UNCHANGED <<result, terminalErr, finalized, outcome>>,
           todo'[Session] = todo[Session], todo'[Finalizer] = todo[Finalizer],
           Session \in clones' <=> Session \in clones,
           Finalizer \in clones' <=> Finalizer \in clones,
           UNCHANGED feed \/ \E e \in Events : Accept(e)
    PROVE  Phases'
<1>1. Told => Told'
  BY FeedKeeps DEF Told, HInv
<1>2. result' = "completing" => CompletingPhase'
  BY <1>1 DEF HInv, Phases, CompletingPhase
<1>3. result' = "ok" => outcome' = "ok" /\ HasCompleted'
  BY OkStays
<1>4. Live' => Live /\ Session \in clones'
  BY DEF Live, HInv, Phases
<1>5. result' = "running" =>
          /\ ~finalized'
          /\ \/ todo'[Session] = <<>>
             \/ \E k \in Emission, e \in Items : todo'[Session] = <<<<k, e>>>>
  BY DEF HInv, Phases
<1>6. result' = "failing" => ExitPhase(todo'[Session])
  BY DEF HInv, Phases
<1> QED
  BY <1>2, <1>3, <1>4, <1>5, <1>6, PhaseParts

\* A step of the finalizer, which is at work only when the session has gone.
LEMMA FinalizerKeeps ==
    ASSUME HInv, Step(Finalizer) # "none", UNCHANGED <<result, clones>>,
           outcome' = outcome \/ outcome = "open",
           UNCHANGED feed \/ \E e \in Events : Accept(e),
           ExitPhase(todo'[Finalizer]) \/ LastPhase(todo'[Finalizer])
    PROVE  Phases'
<1>1. todo[Finalizer] # <<>> /\ Finalizer \in clones /\ ~Live
  BY DEF Step, HInv, Phases
<1>2. result' \notin {"running", "completing", "failing"} /\ ~Live'
  BY <1>1 DEF Live
<1>3. result' = "ok" => outcome' = "ok" /\ HasCompleted'
  BY OkStays
<1>4. ExitPhase(todo[Finalizer])' = ExitPhase(todo'[Finalizer])
  BY DEF ExitPhase, FinishPhase
<1>5. LastPhase(todo[Finalizer])' = LastPhase(todo'[Finalizer])
  BY DEF LastPhase
<1>6. todo'[Finalizer] # <<>>
  BY DEF ExitPhase, FinishPhase, LastPhase
<1> QED
  BY <1>1, <1>2, <1>3, <1>4, <1>5, <1>6 DEF Phases

\* What a list step may do to a list.
LEMMA ListStep ==
    ASSUME CInv, NEW p \in Owners, Step(p) # "none", NEW more \in Seq(Steps), Then(p, more)
    PROVE  \A q \in Owners \ {p} : todo'[q] = todo[q]
BY AtStep, Facts, ThenType

LEMMA EmissionStep ==
    ASSUME CInv, NEW p \in Owners, Enter(p) \/ Canonical(p) \/ Export(p)
    PROVE  /\ Step(p) \in Emission
           /\ Then(p, <<>>) \/ \E k \in Emission : Then(p, <<<<k, Event(p)>>>>)
           /\ UNCHANGED <<result, clones, finalized, outcome>>
           /\ UNCHANGED feed \/ \E e \in Events : Accept(e)
           /\ p # Session => UNCHANGED terminalErr
           /\ \A q \in Owners \ {p} : todo'[q] = todo[q]
<1>1. Step(p) \in Emission
  BY DEF Enter, Canonical, Export, Emission
<1>2. Event(p) \in Events
  BY <1>1, AtStep DEF Emission
<1>3. Then(p, <<>>) \/ \E k \in Emission : Then(p, <<<<k, Event(p)>>>>)
  BY DEF Enter, Canonical, Export, SinkRefuses, Emitted, Emission
<1>4. UNCHANGED <<result, clones, finalized, outcome>>
  BY DEF Enter, Canonical, Export, SinkRefuses, Accept, feedVars
<1>5. UNCHANGED feed \/ \E e \in Events : Accept(e)
  BY <1>2 DEF Enter, Canonical, Export, SinkRefuses, feedVars
<1>6. p # Session => UNCHANGED terminalErr
  BY Facts DEF Enter, Canonical, Export, SinkRefuses, Emitted, Types
<1>7. \A q \in Owners \ {p} : todo'[q] = todo[q]
  <2>1. CASE Then(p, <<>>)
    <3>1. <<>> \in Seq(Steps)
      OBVIOUS
    <3> QED
      BY <1>1, <2>1, <3>1, ListStep DEF Emission
  <2>2. ASSUME NEW k \in Emission, Then(p, <<<<k, Event(p)>>>>)
        PROVE  \A q \in Owners \ {p} : todo'[q] = todo[q]
    <3>1. <<k, Event(p)>> \in Steps
      BY <1>2 DEF Steps, Emission
    <3>2. <<<<k, Event(p)>>>> \in Seq(Steps)
      BY <3>1
    <3> QED
      BY <1>1, <2>2, <3>2, ListStep DEF Emission
  <2> QED
    BY <1>3, <2>1, <2>2
<1> QED
  BY <1>1, <1>3, <1>4, <1>5, <1>6, <1>7

LEMMA FinishStep ==
    ASSUME CInv, NEW p \in Owners, Finish(p) \/ FinishExports(p) \/ Close(p) \/ Return(p)
    PROVE  /\ Step(p) \in {"finish", "exports", "close", "return"}
           /\ UNCHANGED <<feed, clones, terminalErr>>
           /\ outcome' = outcome \/ outcome = "open"
           /\ p \notin Helpers
           /\ \A q \in Owners \ {p} : todo'[q] = todo[q]
<1>1. Step(p) \in {"finish", "exports", "close", "return"}
  BY DEF Finish, FinishExports, Close, Return
<1>2. p \notin Helpers
  BY <1>1, AtStep, OwnerFacts DEF Emission
<1>3. UNCHANGED <<feed, clones, terminalErr>>
  BY DEF Finish, FinishExports, Close, Return, Answer, feedVars, sessionVars
<1>4. outcome' = outcome \/ outcome = "open"
  BY DEF Finish, FinishExports, Close, Return, Answer, feedVars
<1>5. \E more \in Seq(Steps) : Then(p, more)
  <2>1. /\ <<>> \in Seq(Steps)
        /\ \A answer \in {"ok", "err"} : <<<<"return", answer>>>> \in Seq(Steps)
        /\ <<<<"exports">>, <<"close">>>> \in Seq(Steps)
    BY DEF Steps
  <2> QED
    BY <2>1 DEF Finish, FinishExports, Close, Return
<1>6. \A q \in Owners \ {p} : todo'[q] = todo[q]
  BY <1>1, <1>5, ListStep
<1> QED
  BY <1>1, <1>2, <1>3, <1>4, <1>6

--------------------------------------------------------------------------------
(* Helpers *)

LEMMA HelperPhases ==
    ASSUME HInv, NEW h \in Helpers,
           \/ EmitItem(h) \/ Enter(h) \/ Canonical(h) \/ Export(h)
           \/ Release(h) \/ Clone(h) \/ DropHelper(h)
    PROVE  Phases'
<1>1. CInv /\ h \in Owners /\ h # Session /\ h # Finalizer
  BY Distinct DEF HInv, Owners, SessionIsNoHelper
<1>2. CASE EmitItem(h) \/ Clone(h) \/ DropHelper(h)
  <2>1. todo'[Session] = todo[Session] /\ todo'[Finalizer] = todo[Finalizer]
    BY <1>1, <1>2, Facts, Distinct DEF EmitItem, Clone, DropHelper, Begin, SessionIsNoHelper
  <2>2. /\ UNCHANGED <<result, terminalErr, finalized, outcome, feed>>
        /\ Session \in clones' <=> Session \in clones
        /\ Finalizer \in clones' <=> Finalizer \in clones
    BY <1>1, <1>2 DEF EmitItem, Clone, DropHelper, feedVars, emitterVars, sessionVars
  <2> QED
    BY <2>1, <2>2, OthersKeep
<1>3. CASE Enter(h) \/ Canonical(h) \/ Export(h)
  <2>1. todo'[Session] = todo[Session] /\ todo'[Finalizer] = todo[Finalizer]
    BY <1>1, <1>3, EmissionStep, Distinct DEF SessionIsNoHelper
  <2>2. /\ UNCHANGED <<result, terminalErr, finalized, outcome, clones>>
        /\ UNCHANGED feed \/ \E e \in Events : Accept(e)
    BY <1>1, <1>3, EmissionStep
  <2> QED
    BY <2>1, <2>2, OthersKeep
<1>4. CASE Release(h)
  <2>1. Then(h, <<>>) /\ Step(h) = "release" /\ <<>> \in Seq(Steps)
    BY <1>4 DEF Release
  <2>2. todo'[Session] = todo[Session] /\ todo'[Finalizer] = todo[Finalizer]
    BY <1>1, <2>1, ListStep, Distinct DEF SessionIsNoHelper
  <2>3. /\ UNCHANGED <<result, terminalErr, finalized, outcome, feed>>
        /\ Session \in clones' <=> Session \in clones
        /\ Finalizer \in clones' <=> Finalizer \in clones
    BY <1>1, <1>4 DEF Release, feedVars, emitterVars, sessionVars
  <2> QED
    BY <2>2, <2>3, OthersKeep
<1> QED
  BY <1>2, <1>3, <1>4

LEMMA RuntimeEndsPhases == ASSUME HInv, RuntimeEnds PROVE Phases'
<1>1. Finalizer \in Owners /\ todo \in [Owners -> Seq(Steps)]
  BY Distinct, Facts DEF HInv, SessionIsNoHelper
<1>2. /\ todo' = [todo EXCEPT ![Finalizer] = <<<<"drop">>>>]
      /\ UNCHANGED <<feed, outcome, result, clones>>
  BY DEF RuntimeEnds, feedVars, sessionVars
<1>3. Step(Finalizer) # "none"
  BY DEF RuntimeEnds, UnexpectedExit, Step
<1>4. LastPhase(todo'[Finalizer])
  BY <1>1, <1>2 DEF LastPhase
<1> QED
  BY <1>2, <1>3, <1>4, FinalizerKeeps

LEMMA DrainPhases == ASSUME HInv, DrainStep PROVE Phases'
BY OthersKeep DEF DrainStep, Persist, emitterVars, sessionVars

--------------------------------------------------------------------------------
(* The finalizer *)

LEMMA FinalizerPhases ==
    ASSUME HInv,
           \/ EmitItem(Finalizer) \/ Enter(Finalizer) \/ Canonical(Finalizer) \/ Export(Finalizer)
           \/ Finish(Finalizer) \/ FinishExports(Finalizer) \/ Close(Finalizer) \/ Return(Finalizer)
           \/ Release(Finalizer)
    PROVE  Phases'
<1>1. CInv /\ Finalizer \in Owners /\ Session \in Owners /\ Session # Finalizer
  BY Distinct DEF HInv, SessionIsNoHelper
<1>2. ~EmitItem(Finalizer)
  BY DEF EmitItem, Begin, HInv, Phases
<1>3. ASSUME Step(Finalizer) \in Emission \cup {"finish", "exports", "close", "return"}
      PROVE  ExitPhase(todo[Finalizer])
  BY <1>3 DEF HInv, Phases, LastPhase, Step, Emission
<1>4. CASE Enter(Finalizer) \/ Canonical(Finalizer) \/ Export(Finalizer)
  <2>1. /\ Step(Finalizer) \in Emission
        /\ \/ Then(Finalizer, <<>>)
           \/ \E k \in Emission : Then(Finalizer, <<<<k, Event(Finalizer)>>>>)
        /\ UNCHANGED <<result, clones, finalized, outcome>>
        /\ UNCHANGED feed \/ \E e \in Events : Accept(e)
    BY <1>1, <1>4, EmissionStep
  <2>2. ExitPhase(todo'[Finalizer])
    BY <1>1, <1>3, <2>1, ExitEmission
  <2>3. Step(Finalizer) # "none"
    BY <2>1 DEF Emission
  <2> QED
    BY <2>1, <2>2, <2>3, FinalizerKeeps
<1>5. CASE Finish(Finalizer) \/ FinishExports(Finalizer) \/ Close(Finalizer) \/ Return(Finalizer)
  <2>1. /\ Step(Finalizer) \in {"finish", "exports", "close", "return"}
        /\ UNCHANGED <<feed, clones, terminalErr>>
        /\ outcome' = outcome \/ outcome = "open"
    BY <1>1, <1>5, FinishStep
  <2>2. UNCHANGED result
    BY <1>1, <1>5 DEF Finish, FinishExports, Close, Return, sessionVars
  <2>3. ExitPhase(todo'[Finalizer]) \/ LastPhase(todo'[Finalizer])
    BY <1>1, <1>3, <1>5, <2>1, ExitFinish, ExitReturn DEF LastPhase
  <2>4. Step(Finalizer) # "none"
    BY <2>1
  <2> QED
    BY <2>1, <2>2, <2>3, <2>4, FinalizerKeeps
<1>6. CASE Release(Finalizer)
  <2>1. todo[Finalizer] = <<<<"release">>>>
    BY <1>6 DEF Release, Step, HInv, Phases, ExitPhase, FinishPhase, LastPhase, Emission
  <2>2. /\ todo'[Finalizer] = <<>> /\ clones' = clones \ {Finalizer} /\ ~Live
        /\ UNCHANGED <<feed, outcome, result>>
    BY <1>1, <1>6, <2>1, Facts DEF Release, Then, feedVars, sessionVars, HInv, Phases
  <2>3. result' \notin {"running", "completing", "failing"} /\ ~Live'
    BY <2>2 DEF Live
  <2>4. result' = "ok" => outcome' = "ok" /\ HasCompleted'
    BY <2>2, OkStays
  <2> QED
    BY <2>2, <2>3, <2>4 DEF Phases
<1> QED
  BY <1>2, <1>4, <1>5, <1>6

--------------------------------------------------------------------------------
(* The session *)

Ending == <<<<"notify">>, <<"finish">>, <<"drop">>>>

\* Where a session that completes is, by the step it is about to take.
LEMMA CompletingAt ==
    ASSUME HInv, result = "completing"
    PROVE  /\ Step(Session) \in Emission \cup {"notify", "finish", "exports", "close", "return"}
           /\ Step(Session) \in Emission =>
                  /\ ~finalized /\ Event(Session) = Completed /\ Tail(todo[Session]) = Ending
                  /\ Step(Session) = "export" => Told
           /\ Step(Session) = "notify" => ~finalized /\ Told /\ todo[Session] = Ending
           /\ Step(Session) = "finish" =>
                  ~finalized /\ Told /\ todo[Session] = <<<<"finish">>, <<"drop">>>>
           /\ Step(Session) \in {"exports", "close"} => outcome = "open" /\ Told
           /\ Step(Session) = "exports" => todo[Session] = <<<<"exports">>, <<"close">>, <<"drop">>>>
           /\ Step(Session) = "close" => todo[Session] = <<<<"close">>, <<"drop">>>>
           /\ Step(Session) = "return" =>
                  Told /\ Event(Session) = outcome /\ todo[Session] = <<<<"return", outcome>>, <<"drop">>>>
<1> CompletingPhase
  BY DEF HInv, Phases
<1>1. CASE todo[Session] = <<<<"emit", Completed>>, <<"notify">>, <<"finish">>, <<"drop">>>>
  BY <1>1 DEF CompletingPhase, Step, Event, Ending, Emission
<1>2. CASE todo[Session] = <<<<"canonical", Completed>>, <<"notify">>, <<"finish">>, <<"drop">>>>
  BY <1>2 DEF CompletingPhase, Step, Event, Ending, Emission
<1>3. CASE todo[Session] = <<<<"export", Completed>>, <<"notify">>, <<"finish">>, <<"drop">>>>
  BY <1>3 DEF CompletingPhase, Step, Event, Ending, Emission
<1>4. CASE todo[Session] = <<<<"notify">>, <<"finish">>, <<"drop">>>>
  BY <1>4 DEF CompletingPhase, Step, Event, Ending, Emission
<1>5. CASE todo[Session] = <<<<"finish">>, <<"drop">>>>
  BY <1>5 DEF CompletingPhase, Step, Event, Ending, Emission
<1>6. CASE todo[Session] = <<<<"exports">>, <<"close">>, <<"drop">>>>
  BY <1>6 DEF CompletingPhase, Step, Event, Ending, Emission
<1>7. CASE todo[Session] = <<<<"close">>, <<"drop">>>>
  BY <1>7 DEF CompletingPhase, Step, Event, Ending, Emission
<1>8. CASE todo[Session] = <<<<"return", outcome>>, <<"drop">>>>
  BY <1>8 DEF CompletingPhase, Step, Event, Ending, Emission
<1> QED
  BY <1>1, <1>2, <1>3, <1>4, <1>5, <1>6, <1>7, <1>8 DEF CompletingPhase

\* A session that is at work has not begun to leave.
LEMMA LiveAt ==
    ASSUME HInv, Live
    PROVE  /\ Step(Session) \notin {"drop", "release"}
           /\ result = "running" =>
                  /\ Step(Session) \in Emission \cup {"none"}
                  /\ todo[Session] # <<>> => Event(Session) \in Items /\ Tail(todo[Session]) = <<>>
           /\ result = "failing" => Step(Session) \in Emission \cup {"finish", "exports", "close", "return"}
           /\ Session \in clones /\ todo[Finalizer] = <<>>
<1>1. CASE result = "running"
  <2>1. CASE todo[Session] = <<>>
    BY <1>1, <2>1 DEF HInv, Phases, Step, Live
  <2>2. CASE \E k \in Emission, e \in Items : todo[Session] = <<<<k, e>>>>
    BY <1>1, <2>2 DEF HInv, Phases, Step, Event, Live, Emission
  <2> QED
    BY <1>1, <2>1, <2>2 DEF HInv, Phases
<1>2. CASE result = "completing"
  BY <1>2, CompletingAt DEF HInv, Phases, Emission
<1>3. CASE result = "failing"
  <2>1. Step(Session) \in Emission \cup {"finish", "exports", "close", "return"}
    BY <1>3 DEF HInv, Phases, ExitPhase, FinishPhase, Step
  <2> QED
    BY <1>3, <2>1 DEF HInv, Phases, Emission
<1> QED
  BY <1>1, <1>2, <1>3 DEF Live

\* A session that has reported, or whose future is gone, does as it likes.
LEMMA GoneKeeps ==
    ASSUME HInv, ~Live, UNCHANGED <<result>>,
           todo'[Finalizer] = todo[Finalizer], Finalizer \in clones' <=> Finalizer \in clones,
           outcome' = outcome \/ outcome = "open",
           UNCHANGED feed \/ \E e \in Events : Accept(e)
    PROVE  Phases'
<1>1. result' \notin {"running", "completing", "failing"} /\ ~Live'
  BY DEF Live
<1>2. result' = "ok" => outcome' = "ok" /\ HasCompleted'
  BY OkStays
<1> QED
  BY <1>1, <1>2, PhaseParts

LEMMA SessionEmits ==
    ASSUME HInv, Enter(Session) \/ Canonical(Session) \/ Export(Session)
    PROVE  Phases'
<1>1. CInv /\ Finalizer \in Owners /\ Session \in Owners /\ Session # Finalizer
      /\ todo \in [Owners -> Seq(Steps)]
  BY Distinct, Facts DEF HInv, SessionIsNoHelper
<1>2. /\ Step(Session) \in Emission
      /\ \/ Then(Session, <<>>)
         \/ \E k \in Emission : Then(Session, <<<<k, Event(Session)>>>>)
      /\ UNCHANGED <<result, clones, finalized, outcome>>
      /\ UNCHANGED feed \/ \E e \in Events : Accept(e)
      /\ todo'[Finalizer] = todo[Finalizer]
  BY <1>1, EmissionStep
<1>3. todo[Session] # <<>>
  BY <1>2 DEF Step, Emission
<1>4. result' = "ok" => outcome' = "ok" /\ HasCompleted'
  BY <1>2, OkStays
<1>5. Live' => Live /\ Session \in clones'
  BY <1>2, LiveAt DEF Live
<1>6. CASE ~Live
  BY <1>2, <1>6, GoneKeeps
<1>7. CASE result = "running"
  <2>1. Event(Session) \in Items /\ Tail(todo[Session]) = <<>>
    BY <1>3, <1>7, LiveAt DEF Live
  <2>2. todo'[Session] = <<>> \/ \E k \in Emission, e \in Items : todo'[Session] = <<<<k, e>>>>
    <3>1. CASE Then(Session, <<>>)
      BY <1>1, <2>1, <3>1 DEF Then
    <3>2. ASSUME NEW k \in Emission, Then(Session, <<<<k, Event(Session)>>>>)
          PROVE  todo'[Session] = <<<<k, Event(Session)>>>>
      <4>1. todo'[Session] = <<<<k, Event(Session)>>>> \o <<>>
        BY <1>1, <2>1, <3>2 DEF Then
      <4>2. <<<<k, Event(Session)>>>> \in Seq({<<k, Event(Session)>>})
        OBVIOUS
      <4>3. <<<<k, Event(Session)>>>> \o <<>> = <<<<k, Event(Session)>>>>
        BY <4>2, ConcatEmptySeq
      <4> QED
        BY <4>1, <4>3
    <3> QED
      BY <1>2, <2>1, <3>1, <3>2
  <2>3. ~finalized' /\ result' = "running"
    BY <1>2, <1>7 DEF HInv, Phases
  <2> QED
    BY <1>2, <1>4, <1>5, <2>2, <2>3, PhaseParts
<1>8. CASE result = "failing"
  <2>1. ExitPhase(todo'[Session])
    BY <1>1, <1>2, <1>8, ExitEmission DEF HInv, Phases
  <2> QED
    BY <1>2, <1>4, <1>5, <1>8, <2>1, PhaseParts
<1>9. CASE result = "completing"
  <2>1. /\ ~finalized /\ Event(Session) = Completed /\ Tail(todo[Session]) = Ending
        /\ Step(Session) = "export" => Told
    BY <1>2, <1>9, CompletingAt
  <2> SUFFICES CompletingPhase'
    BY <1>2, <1>4, <1>5, <1>9, PhaseParts
  <2>2. CASE \E k \in {"canonical", "export"} : Then(Session, <<<<k, Completed>>>>) /\ (k = "export" => Told')
    <3>1. PICK k \in {"canonical", "export"} : Then(Session, <<<<k, Completed>>>>) /\ (k = "export" => Told')
      BY <2>2
    <3>2. todo'[Session] = <<<<k, Completed>>>> \o <<<<"notify">>, <<"finish">>, <<"drop">>>>
      BY <1>1, <2>1, <3>1 DEF Then, Ending
    <3>3. <<<<k, Completed>>>> \o <<<<"notify">>, <<"finish">>, <<"drop">>>>
            = <<<<k, Completed>>, <<"notify">>, <<"finish">>, <<"drop">>>>
      BY OneThenThree
    <3>4. todo'[Session] = <<<<k, Completed>>, <<"notify">>, <<"finish">>, <<"drop">>>>
      BY <3>2, <3>3
    <3> QED
      BY <1>2, <2>1, <3>1, <3>4 DEF CompletingPhase
  <2>3. CASE Then(Session, <<>>) /\ Told'
    <3>1. todo'[Session] = <<<<"notify">>, <<"finish">>, <<"drop">>>>
      BY <1>1, <2>1, <2>3 DEF Then, Ending
    <3> QED
      BY <1>2, <2>1, <2>3, <3>1 DEF CompletingPhase
  <2>4. CASE Enter(Session)
    <3>1. Then(Session, <<<<"canonical", Completed>>>>)
      BY <2>1, <2>4 DEF Enter
    <3> QED
      BY <2>2, <3>1
  <2>5. CASE Canonical(Session)
    <3>1. CASE Accept(Completed) /\ Then(Session, <<<<"export", Completed>>>>)
      <4>1. Told'
        BY <1>1, <3>1, AcceptsCompleted DEF Told
      <4> QED
        BY <2>2, <3>1, <4>1
    <3>2. CASE SinkRefuses(Session)
      <4>1. Then(Session, <<>>) /\ terminalErr'
        BY <2>1, <3>2 DEF SinkRefuses, Emitted
      <4> QED
        BY <2>3, <4>1 DEF Told
    <3> QED
      BY <2>1, <2>5, <3>1, <3>2 DEF Canonical
  <2>6. CASE Export(Session)
    <3>1. Then(Session, <<>>) /\ UNCHANGED feed /\ (terminalErr => terminalErr')
      BY <2>6 DEF Export, Emitted, feedVars
    <3>2. Told
      BY <2>1, <2>6 DEF Export
    <3>3. Told'
      BY <1>1, <3>1, <3>2, FeedKeeps DEF Told
    <3> QED
      BY <2>3, <3>1, <3>3
  <2> QED
    BY <2>4, <2>5, <2>6
<1> QED
  BY <1>6, <1>7, <1>8, <1>9 DEF Live

LEMMA SessionFinishes ==
    ASSUME HInv, Finish(Session) \/ FinishExports(Session) \/ Close(Session)
    PROVE  Phases'
<1>1. CInv /\ Finalizer \in Owners /\ Session \in Owners /\ Session # Finalizer
      /\ todo \in [Owners -> Seq(Steps)]
  BY Distinct, Facts DEF HInv, SessionIsNoHelper
<1>2. /\ Step(Session) \in {"finish", "exports", "close"}
      /\ UNCHANGED <<feed, clones, terminalErr, result>>
      /\ outcome' = outcome \/ outcome = "open"
      /\ todo'[Finalizer] = todo[Finalizer]
  BY <1>1, FinishStep DEF Finish, FinishExports, Close, sessionVars
<1>3. result' = "ok" => outcome' = "ok" /\ HasCompleted'
  BY <1>2, OkStays
<1>4. Live' => Live /\ Session \in clones'
  BY <1>2, LiveAt DEF Live
<1>5. result # "running"
  BY <1>2, LiveAt DEF Live, Emission
<1>6. CASE ~Live
  BY <1>2, <1>6, GoneKeeps
<1>7. CASE result = "failing"
  <2>1. ExitPhase(todo'[Session])
    BY <1>1, <1>7, ExitFinish DEF HInv, Phases
  <2> QED
    BY <1>2, <1>3, <1>4, <1>7, <2>1, PhaseParts
<1>8. CASE result = "completing"
  <2> SUFFICES CompletingPhase'
    BY <1>2, <1>3, <1>4, <1>8, PhaseParts
  <2>1. Told /\ Told'
    BY <1>1, <1>2, <1>8, CompletingAt, FeedKeeps DEF Told
  <2>2. CASE Finish(Session)
    <3>1. ~finalized /\ todo[Session] = <<<<"finish">>, <<"drop">>>>
      BY <1>8, <2>2, CompletingAt DEF Finish
    <3>2. Then(Session, <<<<"exports">>, <<"close">>>>) /\ UNCHANGED outcome
      BY <2>2, <3>1 DEF Finish, feedVars
    <3>3. todo'[Session] = <<<<"exports">>, <<"close">>>> \o <<<<"drop">>>>
      BY <1>1, <3>1, <3>2 DEF Then
    <3>4. todo'[Session] = <<<<"exports">>, <<"close">>, <<"drop">>>>
      BY <3>3, TwoThenOne
    <3>5. outcome' = "open"
      BY <1>1, <3>1, <3>2, Facts
    <3> QED
      BY <2>1, <3>4, <3>5 DEF CompletingPhase
  <2>3. CASE FinishExports(Session)
    <3>1. outcome = "open" /\ todo[Session] = <<<<"exports">>, <<"close">>, <<"drop">>>>
      BY <1>8, <2>3, CompletingAt DEF FinishExports
    <3>2. Then(Session, <<>>) /\ UNCHANGED outcome
      BY <2>3 DEF FinishExports, feedVars
    <3>3. todo'[Session] = <<<<"close">>, <<"drop">>>>
      BY <1>1, <3>1, <3>2 DEF Then
    <3> QED
      BY <2>1, <3>1, <3>2, <3>3 DEF CompletingPhase
  <2>4. CASE Close(Session)
    <3>1. PICK answer \in {"ok", "err"} : Answer(answer) /\ Then(Session, <<<<"return", answer>>>>)
      BY <2>4 DEF Close
    <3>2. todo[Session] = <<<<"close">>, <<"drop">>>>
      BY <1>8, <2>4, CompletingAt DEF Close
    <3>3. todo'[Session] = <<<<"return", answer>>>> \o <<<<"drop">>>>
      BY <1>1, <3>1, <3>2 DEF Then
    <3>4. todo'[Session] = <<<<"return", answer>>, <<"drop">>>>
      BY <3>3, OneThenOne
    <3>5. outcome' = answer
      BY <3>1 DEF Answer
    <3> QED
      BY <2>1, <3>4, <3>5 DEF CompletingPhase
  <2> QED
    BY <2>2, <2>3, <2>4
<1> QED
  BY <1>5, <1>6, <1>7, <1>8 DEF Live

LEMMA SessionReturns == ASSUME HInv, Return(Session) PROVE Phases'
<1>1. CInv /\ Finalizer \in Owners /\ Session \in Owners /\ Session # Finalizer
  BY Distinct DEF HInv, SessionIsNoHelper
<1>2. /\ Step(Session) = "return"
      /\ UNCHANGED <<feed, clones, outcome>>
      /\ todo'[Finalizer] = todo[Finalizer]
  BY <1>1, FinishStep DEF Return, feedVars
<1>3. result' = IF result = "completing" /\ Event(Session) = "ok" /\ ~terminalErr THEN "ok" ELSE "err"
  BY DEF Return
<1>4. result' = "ok" => outcome' = "ok" /\ HasCompleted'
  <2>1. SUFFICES ASSUME result' = "ok" PROVE outcome = "ok" /\ HasCompleted
    BY <1>1, <1>2, FeedKeeps
  <2>2. result = "completing" /\ Event(Session) = "ok" /\ ~terminalErr
    BY <1>3, <2>1
  <2> QED
    BY <1>2, <2>2, CompletingAt DEF Told
<1>5. result' \notin {"running", "completing", "failing"} /\ ~Live'
  BY <1>3 DEF Live
<1> QED
  BY <1>2, <1>4, <1>5, PhaseParts

LEMMA SessionReleases == ASSUME HInv, Release(Session) PROVE Phases'
<1>1. CInv /\ Finalizer \in Owners /\ Session \in Owners /\ Session # Finalizer
      /\ <<>> \in Seq(Steps)
  BY Distinct DEF HInv, SessionIsNoHelper
<1>2. /\ Step(Session) = "release" /\ Then(Session, <<>>)
      /\ UNCHANGED <<feed, outcome, result>> /\ clones' = clones \ {Session}
  BY DEF Release, feedVars, sessionVars
<1>3. todo'[Finalizer] = todo[Finalizer]
  BY <1>1, <1>2, ListStep
<1>4. ~Live
  BY <1>2, LiveAt
<1> QED
  BY <1>1, <1>2, <1>3, <1>4, GoneKeeps

LEMMA SessionBegins ==
    ASSUME HInv, EmitItem(Session) \/ Complete \/ Fail
    PROVE  Phases'
<1>1. CInv /\ Finalizer \in Owners /\ Session \in Owners /\ Session # Finalizer
      /\ todo \in [Owners -> Seq(Steps)]
  BY Distinct, Facts DEF HInv, SessionIsNoHelper
<1>2. /\ result = "running" /\ ~finalized /\ Live /\ Session \in clones
      /\ UNCHANGED <<clones, finalized>>
  BY DEF EmitItem, Complete, Fail, Working, emitterVars, HInv, Phases, Live
<1>3. \E script : todo' = [todo EXCEPT ![Session] = script]
  BY DEF EmitItem, Complete, Fail, Begin
<1>4. todo'[Finalizer] = todo[Finalizer]
  BY <1>1, <1>3
<1>5. CASE EmitItem(Session)
  <2>1. PICK e \in items : todo' = [todo EXCEPT ![Session] = <<<<"emit", e>>>>]
    BY <1>5 DEF EmitItem, Begin
  <2>2. todo'[Session] = <<<<"emit", e>>>> /\ "emit" \in Emission /\ e \in Items /\ result' = "running"
    BY <1>1, <1>2, <1>5, <2>1, Facts DEF Emission, Types, EmitItem, sessionVars
  <2> QED
    BY <1>2, <1>4, <2>2, PhaseParts
<1>6. CASE Complete
  <2>1. result' = "completing"
        /\ todo'[Session] = <<<<"emit", Completed>>, <<"notify">>, <<"finish">>, <<"drop">>>>
    BY <1>1, <1>6 DEF Complete, Begin
  <2>2. CompletingPhase'
    BY <1>2, <2>1 DEF CompletingPhase
  <2> QED
    BY <1>2, <1>4, <2>1, <2>2, PhaseParts
<1>7. CASE Fail
  <2>1. result' = "failing" /\ todo'[Session] = UnexpectedExit
    BY <1>1, <1>7 DEF Fail, Begin
  <2>2. "emit" \in Emission
        /\ todo'[Session] = <<<<"emit", Failed>>, <<"emit", Aborted>>, <<"finish">>, <<"drop">>>>
    BY <2>1 DEF UnexpectedExit, Emission
  <2>3. ExitPhase(todo'[Session])
    BY <2>2 DEF ExitPhase
  <2> QED
    BY <1>2, <1>4, <2>1, <2>3, PhaseParts
<1> QED
  BY <1>5, <1>6, <1>7

LEMMA NotifyPhases == ASSUME HInv, Notify PROVE Phases'
<1>1. CInv /\ Finalizer \in Owners /\ Session \in Owners /\ Session # Finalizer
      /\ todo \in [Owners -> Seq(Steps)] /\ <<>> \in Seq(Steps)
  BY Distinct, Facts DEF HInv, SessionIsNoHelper
<1>2. /\ Step(Session) = "notify" /\ Then(Session, <<>>)
      /\ UNCHANGED <<feed, outcome, result, terminalErr, clones, finalized>>
  BY DEF Notify, feedVars, sessionVars, emitterVars
<1>3. todo'[Finalizer] = todo[Finalizer]
  BY <1>1, <1>2, ListStep
<1>4. CASE ~Live
  BY <1>2, <1>3, <1>4, GoneKeeps
<1>5. CASE Live
  <2>1. result = "completing"
    BY <1>2, <1>5, LiveAt DEF Live, Emission
  <2>2. ~finalized /\ Told /\ todo[Session] = Ending
    BY <1>2, <2>1, CompletingAt
  <2>3. todo'[Session] = <<<<"finish">>, <<"drop">>>>
    BY <1>1, <1>2, <2>2 DEF Then, Ending
  <2>4. Told'
    BY <1>1, <1>2, <2>2, FeedKeeps DEF Told
  <2>5. CompletingPhase'
    BY <1>2, <2>2, <2>3, <2>4 DEF CompletingPhase
  <2>6. Live' => Live /\ Session \in clones'
    BY <1>2, <1>5, LiveAt
  <2> QED
    BY <1>2, <1>3, <2>1, <2>5, <2>6, PhaseParts
<1> QED
  BY <1>4, <1>5

LEMMA VanishPhases == ASSUME HInv, Vanish PROVE Phases'
<1>1. CInv /\ Finalizer \in Owners /\ Session # Finalizer /\ todo \in [Owners -> Seq(Steps)]
  BY Distinct, Facts DEF HInv, SessionIsNoHelper
<1>2. /\ result' = "vanished" /\ UNCHANGED clones /\ ~Live'
      /\ todo' = [todo EXCEPT ![Session] = <<<<"drop">>>>]
  BY DEF Vanish, Live
<1>3. todo'[Finalizer] = todo[Finalizer]
  BY <1>1, <1>2
<1> QED
  BY <1>2, <1>3, PhaseParts

--------------------------------------------------------------------------------
(* Drop, the step that changes two lists at once *)

\* Nobody at work drops its clone, and the last clone is not the session's then.
LEMMA DropAt ==
    ASSUME HInv, NEW p \in Owners, Drop(p)
    PROVE  /\ Step(p) = "drop" /\ gate # p
           /\ UNCHANGED <<feedVars, emitterVars, items, sessionVars>>
           /\ {overlapped', stranded'} \subseteq BOOLEAN
           /\ p = Session => ~Live
           /\ clones = {p} => ~Live
<1>1. /\ Step(p) = "drop" /\ UNCHANGED <<feedVars, emitterVars, items, sessionVars>>
      /\ {overlapped', stranded'} \subseteq BOOLEAN
  BY Facts DEF Drop, SpawnFinalizer, LetGo, LastClone, Types, HInv
<1>2. gate # p
  BY <1>1, OwnerFacts DEF HInv
<1>3. p = Session => ~Live
  BY <1>1, LiveAt
<1>4. clones = {p} => ~Live
  BY <1>3, LiveAt
<1> QED
  BY <1>1, <1>2, <1>3, <1>4

LEMMA LastDrop ==
    ASSUME HInv, NEW p \in Owners, Drop(p), SpawnFinalizer(p)
    PROVE  CInv' /\ Phases'
<1>1. /\ CInv /\ Finalizer \in Owners /\ Session \in Owners /\ Session # Finalizer
      /\ Finalizer \notin Helpers
      /\ todo \in [Owners -> Seq(Steps)] /\ Types
  BY Distinct, Facts DEF HInv, SessionIsNoHelper
<1>2. /\ Step(p) = "drop" /\ gate # p /\ ~Live
      /\ UNCHANGED <<feedVars, emitterVars, items, sessionVars>>
      /\ {overlapped', stranded'} \subseteq BOOLEAN
  BY DropAt DEF SpawnFinalizer, LastClone
<1>3. /\ clones = {p} /\ p # Finalizer /\ clones' = clones \cup {Finalizer}
      /\ todo' = [todo EXCEPT ![p] = <<<<"release">>>>, ![Finalizer] = UnexpectedExit]
  BY DEF SpawnFinalizer, LastClone
<1>4. <<<<"release">>>> \in Seq(Steps) /\ UnexpectedExit \in Seq(Steps)
  <2>1. <<"release">> \in Steps
    BY DEF Steps
  <2> QED
    BY <2>1, ScriptSteps DEF UnexpectedExit
<1>5. /\ todo' \in [Owners -> Seq(Steps)] /\ todo'[Finalizer] = UnexpectedExit
      /\ todo'[p] = <<<<"release">>>>
      /\ \A q \in Owners \ {p, Finalizer} : todo'[q] = todo[q]
  BY <1>1, <1>3, <1>4
<1>6. todo'[Finalizer] = <<<<"emit", Failed>>, <<"emit", Aborted>>, <<"finish">>, <<"drop">>>>
  BY <1>5 DEF UnexpectedExit
<1>7. /\ Kinds(Finalizer)' = {"emit", "emit", "finish", "drop"}
      /\ LaterKinds(Finalizer)' = {"emit", "finish", "drop"} /\ Step(Finalizer)' = "emit"
  BY <1>1, <1>6, FourSteps
<1>8. Kinds(p)' = {"release"} /\ LaterKinds(p)' = {} /\ Step(p)' = "release"
  BY <1>5, OneStep
<1>9. gate' \notin {p, Finalizer} /\ gate' = gate
  <2>1. todo[Finalizer] = <<>>
    BY <1>1, <1>3 DEF HInv, Phases
  <2>2. Step(Finalizer) = "none"
    BY <2>1 DEF Step
  <2> QED
    BY <1>1, <1>2, <2>2, OwnerFacts DEF emitterVars
<1>10. Types'
  BY <1>1, <1>2, <1>3, <1>5 DEF Types, dropVars, feedVars, emitterVars, sessionVars
<1>11. Control' /\ Gate'
  <2>1. \A q \in {p, Finalizer} :
           /\ LaterKinds(q)' \cap {"canonical", "export"} = {}
           /\ Kinds(q)' \cap FinishKinds = {}
           /\ q \in Helpers => Kinds(q)' \subseteq Emission \cup {"drop", "release"}
           /\ Step(q)' \notin {"canonical", "export"} /\ gate' # q
    BY <1>1, <1>7, <1>8, <1>9 DEF FinishKinds
  <2>2. {p, Finalizer} \in SUBSET Owners
    BY <1>1
  <2>3. finalized' = finalized /\ outcome' = outcome /\ UNCHANGED <<feed, log, refused>>
    BY <1>2 DEF feedVars, emitterVars
  <2>4. \A q \in Owners \ {p, Finalizer} : todo'[q] = todo[q] /\ (gate' = q <=> gate = q)
    BY <1>5, <1>9
  <2>5. /\ finalized => gate = Nobody
        /\ outcome # "open" => finalized
        /\ outcome = "ok" => log = feed /\ ~refused
    BY <1>1, Facts
  <2>6. /\ finalized => finalized'
        /\ finalized' => gate' = Nobody
        /\ outcome' # "open" => finalized'
        /\ outcome' = "ok" => log' = feed' /\ ~refused'
    BY <1>9, <2>3, <2>5
  <2>7. \A q \in {p, Finalizer} :
           /\ LaterKinds(q)' \cap {"canonical", "export"} = {}
           /\ Kinds(q)' \cap FinishKinds # {} => finalized'
           /\ q \in Helpers => Kinds(q)' \subseteq Emission \cup {"drop", "release"}
           /\ Step(q)' \in {"canonical", "export"} <=> gate' = q
    BY <2>1
  <2> QED
    BY <1>1, <1>5, <2>2, <2>4, <2>6, <2>7, Frame DEF CInv
<1>12. CInv'
  BY <1>10, <1>11, Together
<1>13. ExitPhase(todo'[Finalizer])
  <2>1. "emit" \in Emission
    BY DEF Emission
  <2> QED
    BY <1>6, <2>1 DEF ExitPhase
<1>14. result' \notin {"running", "completing", "failing"} /\ ~Live'
  BY <1>2 DEF Live, sessionVars
<1>15. result' = "ok" => outcome' = "ok" /\ HasCompleted'
  BY <1>2, OkStays DEF feedVars, sessionVars
<1>16. ExitPhase(todo[Finalizer])' = ExitPhase(todo'[Finalizer])
  BY DEF ExitPhase, FinishPhase
<1>17. todo'[Finalizer] # <<>>
  BY <1>6
<1>18. Finalizer \in clones'
  BY <1>3
<1> QED
  BY <1>12, <1>13, <1>14, <1>15, <1>16, <1>17, <1>18 DEF Phases

LEMMA OtherDrop ==
    ASSUME HInv, NEW p \in Owners, Drop(p), LetGo(p)
    PROVE  CInv' /\ Phases'
<1>1. /\ CInv /\ Finalizer \in Owners /\ Session \in Owners /\ Session # Finalizer
      /\ todo \in [Owners -> Seq(Steps)] /\ Types
  BY Distinct, Facts DEF HInv, SessionIsNoHelper
<1>2. /\ Step(p) = "drop" /\ gate # p /\ (p = Session => ~Live)
      /\ UNCHANGED <<feedVars, emitterVars, items, sessionVars>>
      /\ {overlapped', stranded'} \subseteq BOOLEAN
  BY DropAt
<1>3. Then(p, <<<<"release">>>>) /\ UNCHANGED clones
  BY DEF LetGo
<1>4. <<"release">> \in Steps
  BY DEF Steps
<1>5. <<<<"release">>>> \in Seq(Steps)
  BY <1>4
<1>6. Types'
  <2>1. todo' \in [Owners -> Seq(Steps)]
    BY <1>1, <1>2, <1>3, <1>4, ThenTypes
  <2> QED
    BY <1>1, <1>2, <1>3, <2>1 DEF Types, dropVars, feedVars, emitterVars, sessionVars
<1>7. CInv'
  <2>1. /\ gate' = gate /\ gate' # p /\ finalized' = finalized
        /\ UNCHANGED <<feed, log, outcome, refused>>
    BY <1>2 DEF feedVars, emitterVars
  <2> QED
    BY <1>1, <1>2, <1>3, <1>4, <1>6, <2>1, Facts, ReplacedControl DEF FinishKinds
<1>8. \A q \in Owners \ {p} : todo'[q] = todo[q]
  BY <1>1, <1>2, <1>3, <1>5, ListStep
<1>9. UNCHANGED <<result, terminalErr, finalized, outcome, feed>>
  BY <1>2 DEF feedVars, emitterVars, sessionVars
<1>10. CASE p \notin {Session, Finalizer}
  BY <1>1, <1>3, <1>7, <1>8, <1>9, <1>10, OthersKeep
<1>11. CASE p = Session
  BY <1>1, <1>2, <1>3, <1>7, <1>8, <1>9, <1>11, GoneKeeps
<1>12. CASE p = Finalizer
  <2>1. todo[Finalizer] = <<<<"drop">>>>
    BY <1>2, <1>12 DEF Step, HInv, Phases, ExitPhase, FinishPhase, LastPhase, Emission
  <2>2. todo'[Finalizer] = <<<<"release">>>>
    <3>1. todo'[Finalizer] = <<<<"release">>>> \o <<>>
      BY <1>1, <1>3, <1>12, <2>1 DEF Then
    <3> QED
      BY <1>5, <3>1, ConcatEmptySeq
  <2>3. LastPhase(todo'[Finalizer])
    BY <2>2 DEF LastPhase
  <2> QED
    BY <1>2, <1>3, <1>7, <1>9, <1>12, <2>3, FinalizerKeeps
<1> QED
  BY <1>7, <1>10, <1>11, <1>12

--------------------------------------------------------------------------------
(* Theorems *)

LEMMA OwnerInv == ASSUME HInv, NEW p \in Owners, OwnerStep(p) PROVE HInv'
<1>1. CInv
  BY DEF HInv
<1>2. CASE Drop(p)
  BY <1>2, LastDrop, OtherDrop DEF Drop, HInv
<1>3. CASE ~Drop(p)
  <2>1. CInv'
    BY <1>1, <1>3, EmitItemControl, EnterControl, CanonicalControl, ExportControl, FinishControl,
       FinishExportsControl, CloseControl, ReturnControl, ReleaseControl DEF OwnerStep
  <2>2. CASE p \in Helpers
    BY <1>1, <1>3, <2>1, <2>2, HelperPhases, FinishStep DEF OwnerStep, HInv
  <2>3. CASE p = Finalizer
    BY <1>3, <2>1, <2>3, FinalizerPhases DEF OwnerStep, HInv
  <2>4. CASE p = Session
    BY <1>3, <2>1, <2>4, SessionBegins, SessionEmits, SessionFinishes, SessionReturns, SessionReleases
       DEF OwnerStep, HInv
  <2> QED
    BY <2>1, <2>2, <2>3, <2>4 DEF Owners, HInv
<1> QED
  BY <1>2, <1>3

LEMMA NextInv == ASSUME HInv, [Next]_vars PROVE HInv'
<1>1. CInv
  BY DEF HInv
<1>2. CASE \E p \in Owners : OwnerStep(p)
  BY <1>2, OwnerInv
<1>3. CASE SessionStep
  BY <1>1, <1>3, CompleteControl, FailControl, NotifyControl, VanishControl,
     SessionBegins, NotifyPhases, VanishPhases DEF SessionStep, HInv
<1>4. CASE \E h \in Helpers : Clone(h) \/ DropHelper(h)
  BY <1>1, <1>4, CloneControl, DropHelperControl, HelperPhases DEF HInv
<1>5. CASE DrainStep
  BY <1>1, <1>5, DrainControl, DrainPhases DEF HInv
<1>6. CASE RuntimeEnds
  BY <1>1, <1>6, RuntimeEndsControl, RuntimeEndsPhases DEF HInv
<1>7. CASE UNCHANGED vars
  <2>1. UNCHANGED <<feedVars, emitterVars, clones, todo, items, sessionVars, dropVars>>
    BY <1>7 DEF vars
  <2>2. Types'
    BY <1>1, <2>1, Facts DEF Types, dropVars, feedVars, emitterVars, sessionVars
  <2>3. CInv'
    BY <1>1, <2>1, <2>2, QuietControl DEF feedVars, emitterVars
  <2>4. Phases'
    BY <2>1, OthersKeep DEF feedVars, emitterVars, sessionVars
  <2> QED
    BY <2>3, <2>4 DEF HInv
<1> QED
  BY <1>2, <1>3, <1>4, <1>5, <1>6, <1>7 DEF Next

LEMMA HarnessInvariant == Spec => []HInv
BY InitInv, NextInv, PTL DEF Spec

\* Every variable of the emitter keeps its type and the gate its holder, for any
\* number of helpers, exporters and items.
THEOREM TypeCorrect == Spec => []TypeOK
<1>1. HInv => TypeOK
  BY DEF HInv, CInv
<1> QED
  BY <1>1, HarnessInvariant, PTL

\* finish and the terminal event decide what the session reports: ok means that
\* every event an owner emitted is in the log, thread.completed among them,
\* whatever helpers, the drops of their clones and the finalizer do meanwhile.
THEOREM SuccessComplete == Spec => []SuccessIsComplete
<1>1. HInv => SuccessIsComplete
  BY Facts DEF HInv, Phases, HasCompleted, SuccessIsComplete
<1> QED
  BY <1>1, HarnessInvariant, PTL

\* The emitter and the session use the canonical sink only as DurableFeed allows: emit
\* hands it events and nothing else, finish_once closes it, and no other step of an owner
\* changes what it has taken in, made durable or answered.
THEOREM RunFollowsFeed == Spec => FeedSpec
<1>1. Init => FeedInit
  BY DEF Init
<1>2. ASSUME HInv, [Next]_vars PROVE [FeedNext]_feedVars
  <2>1. CInv
    BY <1>2 DEF HInv
  <2>2. ASSUME NEW p \in Owners, Canonical(p) PROVE [FeedNext]_feedVars
    <3>1. Event(p) \in Events
      BY <2>1, <2>2, AtStep DEF Canonical, Emission
    <3>2. Accept(Event(p)) \/ UNCHANGED feedVars
      BY <2>2 DEF Canonical, SinkRefuses
    <3> QED
      BY <3>1, <3>2 DEF FeedNext
  <2>3. ASSUME NEW p \in Owners, Close(p) PROVE [FeedNext]_feedVars
    BY <2>3 DEF Close, FeedNext
  <2>4. ASSUME NEW p \in Owners, OwnerStep(p), ~ Canonical(p), ~ Close(p)
        PROVE  UNCHANGED feedVars
    BY <2>4 DEF OwnerStep, EmitItem, Enter, Export, Finish, FinishExports, Return, Drop, Release
  <2>5. CASE SessionStep
    BY <2>5 DEF SessionStep, Complete, Fail, Notify, Vanish
  <2>6. CASE \E h \in Helpers : Clone(h) \/ DropHelper(h)
    BY <2>6 DEF Clone, DropHelper
  <2>7. CASE DrainStep
    BY <2>7 DEF DrainStep, FeedNext
  <2>8. CASE RuntimeEnds
    BY <2>8 DEF RuntimeEnds
  <2>9. CASE UNCHANGED vars
    BY <2>9 DEF vars
  <2> QED
    BY <1>2, <2>2, <2>3, <2>4, <2>5, <2>6, <2>7, <2>8, <2>9 DEF Next
<1>3. HInv /\ [Next]_vars => [FeedNext]_feedVars
  BY <1>2
<1> QED
  BY <1>1, <1>3, HarnessInvariant, PTL DEF Spec, FeedSpec
=================================================================================
