-------------------------- MODULE DenotationProofs --------------------------
(***************************************************************************)
(* The trampoline computes the recursion over its program, for any set of  *)
(* finite programs.  What it answers is therefore what the eager           *)
(* dictionaries answer, and a traversal keeps the order of its items.      *)
(* Whatever its callbacks and the faults do, the loop's steps run out.     *)
(***************************************************************************)
EXTENDS Expected, EvaluatorProofs

-----------------------------------------------------------------------------
(* Meanings.                                                               *)

IsMeaning(m) == m = Meaning(m.out, m.events) /\ m.events \in Seq(Events)

LEMMA MeaningFields ==
    ASSUME NEW o, NEW events \in Seq(Events)
    PROVE  /\ IsMeaning(Meaning(o, events))
           /\ Meaning(o, events).out = o /\ Meaning(o, events).events = events
BY DEF IsMeaning, Meaning

LEMMA AppendOne ==
    ASSUME NEW S, NEW a \in S, NEW b \in S
    PROVE  <<a, b>> = Append(<<a>>, b)
OBVIOUS

LEMMA TwoElements ==
    ASSUME NEW S, NEW a \in S, NEW b \in S
    PROVE  <<a>> \o <<>> \o <<b>> = <<a, b>>
<1>1. <<a>> \o <<>> = <<a>>
  OBVIOUS
<1>2. \A s \in Seq(S) : s \o <<b>> = Append(s, b)
  OBVIOUS
<1>3. <<a>> \in Seq(S)
  OBVIOUS
<1>4. Append(<<a>>, b) = <<a, b>>
  BY AppendOne
<1>5. <<a>> \o <<b>> = Append(<<a>>, b)
  BY <1>2, <1>3, Zenon
<1>6. QED BY <1>1, <1>4, <1>5, Zenon

LEMMA OneEventSequence ==
    ASSUME NEW kind \in {"call", "enter", "finalize", "acquire", "release"}, NEW id \in Ids
    PROVE  <<<<kind, id>>>> \in Seq(Events)
<1>1. <<kind, id>> \in Events
  BY DEF Events
<1>2. \A e \in Events : <<e>> \in Seq(Events)
  OBVIOUS
<1>3. QED BY <1>1, <1>2

LEMMA AfterFacts ==
    ASSUME NEW a \in Seq(Events), NEW m, IsMeaning(m)
    PROVE  /\ IsMeaning(After(a, m)) /\ After(<<>>, m) = m
           /\ After(a, m).out = m.out /\ After(a, m).events = a \o m.events
           /\ After(a, Meaning(m.out, <<>>)) = Meaning(m.out, a)
<1>1. a \o m.events \in Seq(Events) /\ <<>> \o m.events = m.events /\ a \o <<>> = a
  BY DEF IsMeaning
<1>2. IsMeaning(After(a, m)) /\ After(a, m).out = m.out /\ After(a, m).events = a \o m.events
  BY <1>1, MeaningFields DEF After
<1>3. After(<<>>, m) = m
  BY <1>1 DEF After, IsMeaning
<1>4. After(a, Meaning(m.out, <<>>)) = Meaning(m.out, a)
  BY <1>1, MeaningFields DEF After, Meaning
<1>5. QED BY <1>2, <1>3, <1>4

LEMMA AfterTwice ==
    ASSUME NEW a \in Seq(Events), NEW b \in Seq(Events), NEW m, IsMeaning(m)
    PROVE  After(a, After(b, m)) = After(a \o b, m)
<1>1. \A s \in Seq(Events) : a \o (b \o s) = (a \o b) \o s
  OBVIOUS
<1>2. a \o (b \o m.events) = (a \o b) \o m.events
  BY <1>1 DEF IsMeaning
<1>3. After(b, m).out = m.out /\ After(b, m).events = b \o m.events
  BY AfterFacts
<1>4. QED BY <1>2, <1>3, Zenon DEF After

-----------------------------------------------------------------------------
(* What a program means depends on what its parts mean.                    *)

LEMMA Parts ==
    ASSUME NEW t \in Effects
    PROVE  /\ PartsOf(t) \subseteq Effects
           /\ t.op # "throws"
           /\ t.op = "suspend" =>
                 /\ t.next \in Callbacks /\ t.id \in Ids
                 /\ t.next.op # "throws" => t.next \in PartsOf(t)
           /\ t.op = "continue" =>
                 /\ t.source \in PartsOf(t) /\ t.frame \in Frames /\ t.frame.kind # "release"
                 /\ \A p \in CalledBack(t.frame) : p.op # "throws" => p \in PartsOf(t)
           /\ t.op = "eval" => t.id \in Ids
<1>1. \A x \in Effects : x.op # "throws"
  BY EffectsAssumption
<1>2. t.op = "continue" => t.frame \in Frames /\ UserFrame(t.frame)
  BY EffectsAssumption DEF Frames
<1>3. t.op = "continue" => t.frame.kind # "release"
  BY <1>2 DEF UserFrame
<1>4. t.op \in {"eval", "suspend"} => t.id \in Ids
  BY DEF Ids
<1>5. [op |-> "throws"].op = "throws"
  OBVIOUS
<1>6. CASE t.op = "suspend"
  <2>1. t.next \in Callbacks
    BY <1>6, EffectsAssumption
  <2>2. PartsOf(t) = {t.next} \ {[op |-> "throws"]}
    BY <1>6 DEF PartsOf
  <2>3. QED BY <1>1, <1>4, <1>5, <1>6, <2>1, <2>2 DEF Callbacks
<1>7. CASE t.op = "continue"
  <2>1. t.source \in Effects /\ CalledBack(t.frame) \subseteq Callbacks
    BY <1>2, <1>7, EffectsAssumption DEF UserFrame, CalledBack
  <2>2. PartsOf(t) = ({t.source} \cup CalledBack(t.frame)) \ {[op |-> "throws"]}
    BY <1>7 DEF PartsOf
  <2>3. t.source \in PartsOf(t)
    BY <1>1, <1>5, <2>1, <2>2
  <2>4. QED BY <1>1, <1>2, <1>3, <1>5, <1>7, <2>1, <2>2, <2>3 DEF Callbacks
<1>8. CASE t.op \notin {"suspend", "continue"}
  <2>1. PartsOf(t) = {}
    BY <1>8 DEF PartsOf
  <2>2. QED BY <1>1, <1>4, <1>8, <2>1
<1>9. QED BY <1>6, <1>7, <1>8

LEMMA CallLocal ==
    ASSUME NEW f, NEW g, NEW effect, NEW id,
           effect.op # "throws" => f[effect] = g[effect]
    PROVE  Call(f, effect, id) = Call(g, effect, id)
BY DEF Call

LEMMA HandleLocal ==
    ASSUME NEW f, NEW g, NEW frame, NEW out,
           \A p \in CalledBack(frame) : p.op # "throws" => f[p] = g[p]
    PROVE  Handle(f, frame, out) = Handle(g, frame, out)
<1>1. CASE frame.kind = "flat_map" /\ out.kind = "success"
  <2>1. frame.next \in CalledBack(frame)
    BY <1>1 DEF CalledBack
  <2>2. Call(f, frame.next, frame.id) = Call(g, frame.next, frame.id)
    BY <2>1, CallLocal
  <2>3. QED BY <1>1, <2>2 DEF Handle
<1>2. CASE frame.kind = "catch_all" /\ out.kind = "failure"
  <2>1. frame.recover \in CalledBack(frame)
    BY <1>2 DEF CalledBack
  <2>2. Call(f, frame.recover, frame.id) = Call(g, frame.recover, frame.id)
    BY <2>1, CallLocal
  <2>3. QED BY <1>2, <2>2 DEF Handle
<1>3. CASE frame.kind = "bracket" /\ out.kind = "success"
  <2>1. frame.use \in CalledBack(frame)
    BY <1>3 DEF CalledBack
  <2>2. Call(f, frame.use, frame.id) = Call(g, frame.use, frame.id)
    BY <2>1, CallLocal
  <2>3. Used(f, frame) = Used(g, frame)
    BY <2>2 DEF Used
  <2>4. QED BY <1>3, <2>3 DEF Handle
<1>4. CASE /\ ~(frame.kind = "flat_map" /\ out.kind = "success")
           /\ ~(frame.kind = "catch_all" /\ out.kind = "failure")
           /\ ~(frame.kind = "bracket" /\ out.kind = "success")
  BY <1>4 DEF Handle
<1>5. QED BY <1>1, <1>2, <1>3, <1>4

LEMMA MeaningLocal ==
    ASSUME NEW f, NEW g, NEW t \in Effects, \A p \in PartsOf(t) : f[p] = g[p]
    PROVE  MeaningOf(f, t) = MeaningOf(g, t)
<1>1. CASE t.op = "suspend"
  <2>1. Call(f, t.next, t.id) = Call(g, t.next, t.id)
    BY <1>1, Parts, CallLocal
  <2>2. QED BY <1>1, <2>1 DEF MeaningOf
<1>2. CASE t.op = "continue"
  <2>1. \A p \in CalledBack(t.frame) : p.op # "throws" => f[p] = g[p]
    BY <1>2, Parts
  <2>2. f[t.source] = g[t.source]
    BY <1>2, Parts
  <2>3. Through(f, t.frame, f[t.source]) = Through(g, t.frame, g[t.source])
    BY <2>1, <2>2, HandleLocal DEF Through
  <2>4. QED BY <1>2, <2>3 DEF MeaningOf
<1>3. CASE t.op \notin {"suspend", "continue"}
  BY <1>3 DEF MeaningOf
<1>4. QED BY <1>1, <1>2, <1>3

-----------------------------------------------------------------------------
(* Every program has a meaning: the recursion is well-founded.             *)

Below(n) == {t \in Effects : Height[t] < n}

(* f tells what the programs below a height mean.                          *)
IsDenotation(f, n) == f = [t \in Below(n) |-> MeaningOf(f, t)]

LEMMA PartsBelow ==
    ASSUME NEW n \in Nat, NEW t \in Below(n)
    PROVE  /\ t \in Effects /\ Height[t] \in Nat
           /\ \A p \in PartsOf(t) : p \in Below(n - 1) /\ p \in Below(n)
<1>1. t \in Effects /\ Height[t] \in Nat /\ Height[t] < n
  BY HeightAssumption DEF Below
<1>2. ASSUME NEW p \in PartsOf(t)
      PROVE  p \in Below(n - 1) /\ p \in Below(n)
  <2>1. p \in Effects /\ Height[p] \in Nat /\ Height[p] < Height[t]
    BY <1>1, Parts, HeightAssumption
  <2>2. QED BY <1>1, <2>1 DEF Below
<1>3. QED BY <1>1, <1>2

LEMMA DenotationExists ==
    ASSUME NEW n \in Nat
    PROVE  \E f : IsDenotation(f, n)
<1> DEFINE Bad == {k \in Nat : ~ \E f : IsDenotation(f, k)}
<1>1. SUFFICES ASSUME Bad # {}
               PROVE  FALSE
  OBVIOUS
<1>2. PICK k \in Bad : \A m \in Bad : k <= m
  BY <1>1, LeastNumber
<1>3. CASE k = 0
  <2>1. Below(0) = {}
    BY HeightAssumption DEF Below
  <2>2. IsDenotation([t \in Below(0) |-> 0], 0)
    BY <2>1 DEF IsDenotation
  <2>3. QED BY <1>2, <1>3, <2>2
<1>4. CASE k # 0
  <2>1. k \in Nat /\ k - 1 \in Nat /\ k - 1 \notin Bad
    BY <1>2, <1>4
  <2>2. PICK g : IsDenotation(g, k - 1)
    BY <2>1
  <2> DEFINE h == [t \in Below(k) |-> MeaningOf(g, t)]
  <2>3. ASSUME NEW t \in Below(k)
        PROVE  MeaningOf(g, t) = MeaningOf(h, t)
    <3>1. ASSUME NEW p \in PartsOf(t)
          PROVE  g[p] = h[p]
      <4>1. p \in Below(k - 1) /\ p \in Below(k)
        BY <2>1, PartsBelow
      <4>2. g[p] = MeaningOf(g, p)
        BY <2>2, <4>1 DEF IsDenotation
      <4>3. QED BY <4>1, <4>2
    <3>2. t \in Effects
      BY DEF Below
    <3> HIDE DEF h
    <3>3. QED BY <3>1, <3>2, MeaningLocal
  <2>4. h = [t \in Below(k) |-> MeaningOf(h, t)]
    <3>1. \A t \in Below(k) : MeaningOf(g, t) = MeaningOf(h, t)
      BY <2>3
    <3> DEFINE M(t) == MeaningOf(h, t)
    <3>2. \A t \in Below(k) : MeaningOf(g, t) = M(t)
      BY <3>1
    <3> HIDE DEF M
    <3>3. h = [t \in Below(k) |-> M(t)]
      BY <3>2
    <3>4. QED BY <3>3 DEF M
  <2>5. IsDenotation(h, k)
    BY <2>4 DEF IsDenotation
  <2>6. QED BY <1>2, <2>5
<1>5. QED BY <1>3, <1>4

LEMMA DenotationsAgree ==
    ASSUME NEW m \in Nat, NEW f, IsDenotation(f, m),
           NEW n \in Nat, NEW g, IsDenotation(g, n)
    PROVE  \A t \in Effects : t \in Below(m) /\ t \in Below(n) => f[t] = g[t]
<1> DEFINE Bad == {t \in Effects : t \in Below(m) /\ t \in Below(n) /\ f[t] # g[t]}
           Heights == {Height[t] : t \in Bad}
<1>1. SUFFICES ASSUME Bad # {}
               PROVE  FALSE
  OBVIOUS
<1>2. PICK t \in Bad : \A s \in Bad : Height[t] <= Height[s]
  <2>1. Heights \in SUBSET Nat /\ Heights # {}
    BY <1>1, HeightAssumption
  <2>2. PICK k \in Heights : \A j \in Heights : k <= j
    BY <2>1, LeastNumber
  <2>3. QED BY <2>2
<1>3. f[t] = MeaningOf(f, t) /\ g[t] = MeaningOf(g, t)
  BY DEF IsDenotation
<1>4. ASSUME NEW p \in PartsOf(t)
      PROVE  f[p] = g[p]
  <2>1. p \in Effects /\ p \in Below(m) /\ p \in Below(n)
    BY PartsBelow DEF Below
  <2>2. Height[p] \in Nat /\ Height[t] \in Nat /\ Height[p] < Height[t]
    BY <2>1, HeightAssumption
  <2>3. p \notin Bad
    BY <1>2, <2>2
  <2>4. QED BY <2>1, <2>3
<1>5. MeaningOf(f, t) = MeaningOf(g, t)
  BY <1>4, MeaningLocal
<1>6. QED BY <1>3, <1>5

(* The definition of Denote is its equation.                               *)
LEMMA DenoteEquation ==
    Denote = [t \in Effects |-> MeaningOf(Denote, t)]
<1> DEFINE A(n) == CHOOSE f : IsDenotation(f, n)
           F == [t \in Effects |-> A(Height[t] + 1)[t]]
           D == CHOOSE d : d = [t \in Effects |-> MeaningOf(d, t)]
<1>1. \A n \in Nat : IsDenotation(A(n), n)
  BY DenotationExists
<1>2. ASSUME NEW t \in Effects
      PROVE  F[t] = MeaningOf(F, t)
  <2>1. PICK k \in Nat : k = Height[t] + 1
    BY HeightAssumption
  <2>2. t \in Below(k)
    BY <2>1, HeightAssumption DEF Below
  <2>3. A(k)[t] = MeaningOf(A(k), t)
    <3>1. IsDenotation(A(k), k)
      BY <1>1
    <3> HIDE DEF A
    <3>2. QED BY <2>2, <3>1 DEF IsDenotation
  <2>4. ASSUME NEW p \in PartsOf(t)
        PROVE  A(k)[p] = F[p]
    <3>1. p \in Effects /\ p \in Below(k)
      BY <2>2, PartsBelow DEF Below
    <3>2. PICK j \in Nat : j = Height[p] + 1
      BY <3>1, HeightAssumption
    <3>3. p \in Below(j)
      BY <3>1, <3>2, HeightAssumption DEF Below
    <3>4. IsDenotation(A(k), k) /\ IsDenotation(A(j), j)
      BY <1>1
    <3>5. F[p] = A(j)[p]
      BY <3>1, <3>2
    <3> HIDE DEF A, F
    <3>6. A(k)[p] = A(j)[p]
      BY <3>1, <3>3, <3>4, DenotationsAgree
    <3>7. QED BY <3>5, <3>6
  <2>5. F[t] = A(k)[t]
    BY <2>1
  <2> HIDE DEF A, F
  <2>6. MeaningOf(A(k), t) = MeaningOf(F, t)
    BY <2>4, MeaningLocal
  <2>7. QED BY <2>3, <2>5, <2>6
<1>3. \E d : d = [t \in Effects |-> MeaningOf(d, t)]
  <2>1. F = [t \in Effects |-> F[t]]
    OBVIOUS
  <2> HIDE DEF F
  <2>2. F = [t \in Effects |-> MeaningOf(F, t)]
    BY <1>2, <2>1
  <2>3. QED BY <2>2
<1>4. D = [t \in Effects |-> MeaningOf(D, t)]
  BY <1>3
<1>5. Denote = D
  BY Zenon DEF Denote
<1>6. QED BY <1>4, <1>5

-----------------------------------------------------------------------------
(* Meanings are outcomes with sequences of events.                         *)

LEMMA CallType ==
    ASSUME NEW d, NEW effect, NEW id \in Ids,
           effect.op # "throws" => IsMeaning(d[effect])
    PROVE  IsMeaning(Call(d, effect, id))
<1>1. <<<<"call", id>>>> \in Seq(Events)
  BY OneEventSequence
<1>2. CASE effect.op = "throws"
  BY <1>1, <1>2, MeaningFields DEF Call
<1>3. CASE effect.op # "throws"
  BY <1>1, <1>3, AfterFacts DEF Call
<1>4. QED BY <1>2, <1>3

LEMMA UsedType ==
    ASSUME NEW d, NEW frame, frame.id \in Ids,
           frame.use.op # "throws" => IsMeaning(d[frame.use])
    PROVE  IsMeaning(Used(d, frame))
<1>1. PICK id \in Ids : id = frame.id
  OBVIOUS
<1>2. PICK a \in Seq(Events) : a = <<<<"acquire", id>>>>
  <2>1. <<<<"acquire", id>>>> \in Seq(Events)
    BY OneEventSequence
  <2>2. QED BY <2>1
<1>3. PICK r \in Seq(Events) : r = <<<<"release", id>>>>
  <2>1. <<<<"release", id>>>> \in Seq(Events)
    BY OneEventSequence
  <2>2. QED BY <2>1
<1>4. PICK used : used = IF frame.protect = "throws" THEN Meaning(Defect(frame.id), <<>>)
                         ELSE Call(d, frame.use, frame.id)
  OBVIOUS
<1>5. PICK u \in Seq(Events) : u = used.events
  <2>1. <<>> \in Seq(Events)
    OBVIOUS
  <2>2. IsMeaning(Call(d, frame.use, frame.id))
    BY CallType
  <2>3. used.events \in Seq(Events)
    BY <1>4, <2>1, <2>2, MeaningFields DEF IsMeaning
  <2>4. QED BY <2>3
<1>6. Used(d, frame) = Meaning(used.out, a \o u \o r)
  BY <1>1, <1>2, <1>3, <1>4, <1>5 DEF Used
<1>7. PICK v \in Seq(Events) : v = a \o u
  <2>1. a \o u \in Seq(Events)
    OBVIOUS
  <2>2. QED BY <2>1
<1>8. v \o r \in Seq(Events)
  OBVIOUS
<1>9. IsMeaning(Meaning(used.out, v \o r))
  BY <1>8, MeaningFields
<1>10. QED BY <1>6, <1>7, <1>9, Zenon

LEMMA HandleType ==
    ASSUME NEW d, NEW frame \in Frames, NEW out,
           \A p \in CalledBack(frame) : p.op # "throws" => IsMeaning(d[p])
    PROVE  IsMeaning(Handle(d, frame, out))
<1>1. PICK id \in Ids : id = frame.id
  BY FrameFacts
<1>2. /\ <<>> \in Seq(Events) /\ <<<<"call", id>>>> \in Seq(Events)
      /\ <<<<"finalize", id>>>> \in Seq(Events) /\ <<<<"release", id>>>> \in Seq(Events)
  <2>1. <<>> \in Seq(Events)
    OBVIOUS
  <2>2. QED BY <2>1, OneEventSequence
<1>3. CASE frame.kind = "flat_map" /\ out.kind = "success"
  <2>1. IsMeaning(Call(d, frame.next, frame.id))
    BY <1>1, <1>3, CallType DEF CalledBack
  <2>2. QED BY <1>3, <2>1 DEF Handle
<1>4. CASE frame.kind = "catch_all" /\ out.kind = "failure"
  <2>1. IsMeaning(Call(d, frame.recover, frame.id))
    BY <1>1, <1>4, CallType DEF CalledBack
  <2>2. QED BY <1>4, <2>1 DEF Handle
<1>5. CASE frame.kind = "bimap" /\ out.kind \in {"success", "failure"}
  <2>1. \A what, o : IsMeaning(Mapped(what, o, frame.id))
    BY <1>1, <1>2, MeaningFields DEF Mapped
  <2>2. QED BY <1>5, <2>1 DEF Handle
<1>6. CASE frame.kind = "ensuring" \/ frame.kind = "release"
  BY <1>1, <1>2, <1>6, MeaningFields DEF Handle
<1>7. CASE frame.kind = "bracket" /\ out.kind = "success"
  <2>1. IsMeaning(Used(d, frame))
    BY <1>1, <1>7, UsedType DEF CalledBack
  <2>2. QED BY <1>7, <2>1 DEF Handle
<1>8. CASE /\ ~(frame.kind = "flat_map" /\ out.kind = "success")
           /\ ~(frame.kind = "catch_all" /\ out.kind = "failure")
           /\ ~(frame.kind = "bimap" /\ out.kind \in {"success", "failure"})
           /\ frame.kind # "ensuring" /\ frame.kind # "release"
           /\ ~(frame.kind = "bracket" /\ out.kind = "success")
  <2>1. Handle(d, frame, out) = Meaning(out, <<>>)
    BY <1>8 DEF Handle
  <2>2. IsMeaning(Meaning(out, <<>>))
    <3>1. <<>> \in Seq(Events)
      OBVIOUS
    <3>2. QED BY <3>1, MeaningFields
  <2>3. QED BY <2>1, <2>2, Zenon
<1>9. QED BY <1>3, <1>4, <1>5, <1>6, <1>7, <1>8

LEMMA ThroughType ==
    ASSUME NEW d, NEW frame \in Frames, NEW m, IsMeaning(m),
           \A p \in CalledBack(frame) : p.op # "throws" => IsMeaning(d[p])
    PROVE  IsMeaning(Through(d, frame, m))
<1>1. IsMeaning(Handle(d, frame, m.out)) /\ m.events \in Seq(Events)
  BY HandleType DEF IsMeaning
<1>2. QED BY <1>1, AfterFacts DEF Through

LEMMA EnteringType ==
    ASSUME NEW frame \in Frames
    PROVE  Entering(frame) \in Seq(Events)
<1>1. <<<<"enter", frame.id>>>> \in Seq(Events)
  BY FrameFacts, OneEventSequence
<1>2. <<>> \in Seq(Events)
  OBVIOUS
<1>3. QED BY <1>1, <1>2 DEF Entering

LEMMA MeaningType ==
    ASSUME NEW d, NEW t \in Effects, \A p \in PartsOf(t) : IsMeaning(d[p])
    PROVE  IsMeaning(MeaningOf(d, t))
<1>1. <<>> \in Seq(Events)
  OBVIOUS
<1>2. CASE t.op = "suspend"
  BY <1>2, Parts, CallType DEF MeaningOf
<1>3. CASE t.op = "continue"
  <2>1. t.frame \in Frames /\ IsMeaning(d[t.source])
    BY <1>3, Parts
  <2>2. \A p \in CalledBack(t.frame) : p.op # "throws" => IsMeaning(d[p])
    BY <1>3, Parts
  <2>3. IsMeaning(Through(d, t.frame, d[t.source]))
    BY <2>1, <2>2, ThroughType
  <2>4. IsMeaning(After(Entering(t.frame), Through(d, t.frame, d[t.source])))
    BY <2>1, <2>3, EnteringType, AfterFacts
  <2>5. QED BY <1>3, <2>4 DEF MeaningOf
<1>4. CASE t.op = "eval"
  <2>1. <<<<"call", t.id>>>> \in Seq(Events)
    BY <1>4, Parts, OneEventSequence
  <2>2. QED BY <1>4, <2>1, MeaningFields DEF MeaningOf
<1>5. CASE t.op = "null" \/ t.op = "outcome"
  BY <1>1, <1>5, MeaningFields DEF MeaningOf
<1>6. QED BY <1>2, <1>3, <1>4, <1>5, EffectsAssumption

LEMMA DenoteType ==
    ASSUME NEW t \in Effects
    PROVE  Denote[t] = MeaningOf(Denote, t) /\ IsMeaning(Denote[t])
<1> DEFINE Bad == {x \in Effects : ~IsMeaning(Denote[x])}
           Heights == {Height[x] : x \in Bad}
<1>1. \A x \in Effects : Denote[x] = MeaningOf(Denote, x)
  BY DenoteEquation
<1>2. ASSUME Bad # {}
      PROVE  FALSE
  <2>1. Heights \in SUBSET Nat /\ Heights # {}
    BY <1>2, HeightAssumption
  <2>2. PICK k \in Heights : \A j \in Heights : k <= j
    BY <2>1, LeastNumber
  <2>3. PICK x \in Bad : \A y \in Bad : Height[x] <= Height[y]
    BY <2>2
  <2>4. ASSUME NEW p \in PartsOf(x)
        PROVE  IsMeaning(Denote[p])
    <3>1. p \in Effects /\ Height[p] \in Nat /\ Height[x] \in Nat /\ Height[p] < Height[x]
      BY Parts, HeightAssumption
    <3>2. QED BY <2>3, <3>1
  <2>5. IsMeaning(MeaningOf(Denote, x))
    BY <2>4, MeaningType
  <2>6. QED BY <1>1, <2>5
<1>3. QED BY <1>1, <1>2

LEMMA CalledBackType ==
    ASSUME NEW frame \in Frames
    PROVE  \A p \in CalledBack(frame) : p.op # "throws" => IsMeaning(Denote[p])
<1>1. CalledBack(frame) \subseteq Callbacks
  BY FrameFacts DEF UserFrame, CalledBack
<1>2. [op |-> "throws"].op = "throws"
  OBVIOUS
<1>3. QED BY <1>1, <1>2, DenoteType DEF Callbacks

-----------------------------------------------------------------------------
(* A meaning through pending frames.                                       *)

(* h lists what n of the frames make of m.                                 *)
IsPassing(h, n, frames, m) ==
    h = [k \in 0 .. n |->
            IF k = 0 THEN m ELSE Through(Denote, frames[Len(frames) + 1 - k], h[k - 1])]

LEMMA PassingExists ==
    ASSUME NEW frames, NEW m, NEW n \in Nat
    PROVE  \E h : IsPassing(h, n, frames, m)
<1> DEFINE Bad == {k \in Nat : ~ \E h : IsPassing(h, k, frames, m)}
           Made(k, before) == Through(Denote, frames[Len(frames) + 1 - k], before)
<1>1. SUFFICES ASSUME Bad # {}
               PROVE  FALSE
  OBVIOUS
<1>2. PICK k \in Bad : \A j \in Bad : k <= j
  BY <1>1, LeastNumber
<1>3. CASE k = 0
  <2>1. IsPassing([j \in 0 .. 0 |-> m], 0, frames, m)
    BY DEF IsPassing
  <2>2. QED BY <1>2, <1>3, <2>1
<1>4. CASE k # 0
  <2>1. k - 1 \in Nat /\ k - 1 \notin Bad /\ k \in Nat
    BY <1>2, <1>4
  <2>2. PICK g : IsPassing(g, k - 1, frames, m)
    BY <2>1
  <2> DEFINE h == [j \in 0 .. k |-> IF j = k THEN Made(k, g[k - 1]) ELSE g[j]]
  <2>3. ASSUME NEW j \in 0 .. k
        PROVE  h[j] = IF j = 0 THEN m ELSE Made(j, h[j - 1])
    <3>1. \A i \in 0 .. k - 1 : g[i] = IF i = 0 THEN m ELSE Made(i, g[i - 1])
      BY <2>2 DEF IsPassing
    <3> HIDE DEF Made
    <3>2. CASE j = k
      <4>1. h[k] = Made(k, g[k - 1]) /\ h[k - 1] = g[k - 1]
        BY <2>1
      <4>2. QED BY <1>4, <3>2, <4>1
    <3>3. CASE j # k
      <4>1. j \in 0 .. k - 1 /\ h[j] = g[j] /\ (j # 0 => h[j - 1] = g[j - 1])
        BY <2>1, <3>3
      <4>2. QED BY <3>1, <4>1
    <3>4. QED BY <3>2, <3>3
  <2>4. h = [j \in 0 .. k |-> IF j = 0 THEN m ELSE Made(j, h[j - 1])]
    <3> HIDE DEF Made
    <3>1. QED BY <2>3
  <2>5. IsPassing(h, k, frames, m)
    BY <2>4 DEF IsPassing
  <2>6. QED BY <1>2, <2>5
<1>5. QED BY <1>3, <1>4

LEMMA PassPassing ==
    ASSUME NEW frames, Len(frames) \in Nat, NEW m
    PROVE  \E h : IsPassing(h, Len(frames), frames, m) /\ Pass(frames, m) = h[Len(frames)]
<1> DEFINE h == CHOOSE x : IsPassing(x, Len(frames), frames, m)
<1>1. IsPassing(h, Len(frames), frames, m)
  BY PassingExists
<1>2. Pass(frames, m) = h[Len(frames)]
  BY Zenon DEF Pass, IsPassing
<1>3. QED BY <1>1, <1>2

LEMMA PassNothing ==
    ASSUME NEW m
    PROVE  Pass(<<>>, m) = m
<1>1. PICK h : IsPassing(h, Len(<<>>), <<>>, m) /\ Pass(<<>>, m) = h[Len(<<>>)]
  BY PassPassing
<1>2. QED BY <1>1 DEF IsPassing

LEMMA ThroughAfter ==
    ASSUME NEW frame \in Frames, NEW m, IsMeaning(m), NEW a \in Seq(Events)
    PROVE  /\ IsMeaning(Through(Denote, frame, m))
           /\ Through(Denote, frame, After(a, m)) = After(a, Through(Denote, frame, m))
<1>1. IsMeaning(Handle(Denote, frame, m.out)) /\ m.events \in Seq(Events)
  BY CalledBackType, HandleType DEF IsMeaning
<1>2. After(a, m).out = m.out /\ After(a, m).events = a \o m.events
  BY AfterFacts
<1>3. After(a \o m.events, Handle(Denote, frame, m.out))
         = After(a, After(m.events, Handle(Denote, frame, m.out)))
  BY <1>1, AfterTwice
<1>4. IsMeaning(Through(Denote, frame, m))
  BY CalledBackType, ThroughType
<1>5. QED BY <1>2, <1>3, <1>4 DEF Through

(* The innermost frame comes first.                                        *)
LEMMA PassFrame ==
    ASSUME NEW s \in Seq(Frames), NEW f \in Frames, NEW m
    PROVE  Pass(Append(s, f), m) = Pass(s, Through(Denote, f, m))
<1>1. PICK n \in Nat : n = Len(s)
  OBVIOUS
<1>2. PICK t : t = Append(s, f)
  OBVIOUS
<1>3. Len(t) = n + 1 /\ t[n + 1] = f /\ \A i \in 1 .. n : t[i] = s[i]
  BY <1>1, <1>2
<1>4. PICK g : IsPassing(g, n + 1, t, m) /\ Pass(t, m) = g[n + 1]
  BY <1>3, PassPassing
<1>5. PICK x : x = Through(Denote, f, m)
  OBVIOUS
<1>6. PICK h : IsPassing(h, n, s, x) /\ Pass(s, x) = h[n]
  BY <1>1, PassPassing
<1>7. \A k \in 0 .. n + 1 : g[k] = IF k = 0 THEN m ELSE Through(Denote, t[n + 2 - k], g[k - 1])
  BY <1>3, <1>4 DEF IsPassing
<1>8. \A k \in 0 .. n : h[k] = IF k = 0 THEN x ELSE Through(Denote, s[n + 1 - k], h[k - 1])
  BY <1>1, <1>6 DEF IsPassing
<1> DEFINE Bad == {k \in 0 .. n : g[k + 1] # h[k]}
<1>9. ASSUME Bad # {}
      PROVE  FALSE
  <2>1. Bad \in SUBSET Nat
    OBVIOUS
  <2>2. PICK k \in Bad : \A j \in Bad : k <= j
    BY <1>9, <2>1, LeastNumber
  <2>3. g[k + 1] = Through(Denote, t[n + 2 - (k + 1)], g[k])
    <3>1. k + 1 \in 0 .. n + 1 /\ k + 1 # 0 /\ (k + 1) - 1 = k
      OBVIOUS
    <3>2. QED BY <1>7, <3>1
  <2>4. CASE k = 0
    <3>1. g[0] = m /\ h[0] = x /\ n + 2 - (0 + 1) = n + 1
      BY <1>7, <1>8
    <3>2. QED BY <1>3, <1>5, <2>2, <2>3, <2>4, <3>1
  <2>5. CASE k # 0
    <3>1. k - 1 \in 0 .. n /\ k - 1 \notin Bad /\ (k - 1) + 1 = k
      BY <2>2, <2>5
    <3>2. g[k] = h[k - 1]
      BY <3>1
    <3>3. n + 2 - (k + 1) = n + 1 - k /\ n + 1 - k \in 1 .. n
      BY <2>5
    <3>4. t[n + 2 - (k + 1)] = s[n + 1 - k]
      BY <1>3, <3>3
    <3>5. h[k] = Through(Denote, s[n + 1 - k], h[k - 1])
      BY <1>8, <2>5
    <3>6. QED BY <2>2, <2>3, <3>2, <3>4, <3>5
  <2>6. QED BY <2>4, <2>5
<1>10. g[n + 1] = h[n]
  <2>1. n \in 0 .. n
    OBVIOUS
  <2>2. QED BY <1>9, <2>1
<1>11. QED BY <1>2, <1>4, <1>5, <1>6, <1>10

(* What happened before stays before.                                      *)
LEMMA PassAfter ==
    ASSUME NEW s \in Seq(Frames), NEW m, IsMeaning(m), NEW a \in Seq(Events)
    PROVE  IsMeaning(Pass(s, m)) /\ Pass(s, After(a, m)) = After(a, Pass(s, m))
<1>1. PICK n \in Nat : n = Len(s)
  OBVIOUS
<1>2. PICK x : x = After(a, m)
  OBVIOUS
<1>3. PICK g : IsPassing(g, n, s, m) /\ Pass(s, m) = g[n]
  BY <1>1, PassPassing
<1>4. PICK h : IsPassing(h, n, s, x) /\ Pass(s, x) = h[n]
  BY <1>1, PassPassing
<1>5. \A k \in 0 .. n : g[k] = IF k = 0 THEN m ELSE Through(Denote, s[n + 1 - k], g[k - 1])
  BY <1>1, <1>3 DEF IsPassing
<1>6. \A k \in 0 .. n : h[k] = IF k = 0 THEN x ELSE Through(Denote, s[n + 1 - k], h[k - 1])
  BY <1>1, <1>4 DEF IsPassing
<1> DEFINE Good(k) == IsMeaning(g[k]) /\ h[k] = After(a, g[k])
           Bad == {k \in 0 .. n : ~Good(k)}
<1>7. ASSUME Bad # {}
      PROVE  FALSE
  <2>1. Bad \in SUBSET Nat
    OBVIOUS
  <2>2. PICK k \in Bad : \A j \in Bad : k <= j
    BY <1>7, <2>1, LeastNumber
  <2>3. CASE k = 0
    <3>1. g[0] = m /\ h[0] = x
      BY <1>5, <1>6
    <3>2. QED BY <1>2, <2>2, <2>3, <3>1
  <2>4. CASE k # 0
    <3>1. k - 1 \in 0 .. n /\ k - 1 \notin Bad
      BY <2>2, <2>4
    <3>2. Good(k - 1)
      BY <3>1
    <3>3. n + 1 - k \in 1 .. n
      BY <2>4
    <3>4. PICK f \in Frames : f = s[n + 1 - k]
      BY <1>1, <3>3
    <3>5. g[k] = Through(Denote, f, g[k - 1]) /\ h[k] = Through(Denote, f, h[k - 1])
      BY <1>5, <1>6, <2>4, <3>4
    <3>6. Good(k)
      BY <3>2, <3>5, ThroughAfter
    <3>7. QED BY <2>2, <3>6
  <2>5. QED BY <2>3, <2>4
<1>8. Good(n)
  <2>1. n \in 0 .. n
    OBVIOUS
  <2>2. QED BY <1>7, <2>1
<1>9. QED BY <1>2, <1>3, <1>4, <1>8

-----------------------------------------------------------------------------
(* What evaluate looks at.                                                 *)

LEMMA EffectMeaning ==
    ASSUME NEW t \in Effects
    PROVE  /\ NodeMeaning(t) = Denote[t] /\ NodeMeaning(t) = MeaningOf(Denote, t)
           /\ IsMeaning(NodeMeaning(t))
<1>1. ~(t.op = "continue" /\ t.frame.kind = "release")
  BY Parts
<1>2. QED BY <1>1, DenoteType DEF NodeMeaning

LEMMA TerminalMeaning ==
    ASSUME NEW o
    PROVE  NodeMeaning(Terminal(o)) = Meaning(o, <<>>) /\ IsMeaning(Meaning(o, <<>>))
<1>1. Terminal(o).op = "outcome" /\ Terminal(o).outcome = o
  BY DEF Terminal
<1>2. <<>> \in Seq(Events)
  OBVIOUS
<1>3. QED BY <1>1, <1>2, MeaningFields DEF NodeMeaning, MeaningOf

(* A callback's program comes after the call.                              *)
LEMMA CallMeaning ==
    ASSUME NEW effect \in Callbacks, NEW id \in Ids
    PROVE  /\ effect.op = "throws" =>
                 Call(Denote, effect, id) = Meaning(Defect(id), <<<<"call", id>>>>)
           /\ effect.op # "throws" =>
                 /\ effect \in Effects
                 /\ IsMeaning(NodeMeaning(effect))
                 /\ Call(Denote, effect, id) = After(<<<<"call", id>>>>, NodeMeaning(effect))
           /\ IsMeaning(Call(Denote, effect, id))
<1>1. [op |-> "throws"].op = "throws"
  OBVIOUS
<1>2. effect.op # "throws" => effect \in Effects
  BY <1>1 DEF Callbacks
<1>3. effect.op # "throws" =>
         IsMeaning(NodeMeaning(effect)) /\ Denote[effect] = NodeMeaning(effect)
  BY <1>2, EffectMeaning
<1>4. IsMeaning(Call(Denote, effect, id))
  BY <1>3, CallType
<1>5. QED BY <1>2, <1>3, <1>4 DEF Call

(* A node with a frame is its source through that frame.                   *)
LEMMA ContinueMeaning ==
    ASSUME NEW t, IsNode(t), t.op = "continue"
    PROVE  /\ IsMeaning(NodeMeaning(t.source))
           /\ NodeMeaning(t) =
                 After(Entering(t.frame), Through(Denote, t.frame, NodeMeaning(t.source)))
<1>1. CASE t \in Effects
  <2>1. t.source \in Effects
    BY <1>1, Parts
  <2>2. NodeMeaning(t.source) = Denote[t.source] /\ IsMeaning(NodeMeaning(t.source))
    BY <2>1, EffectMeaning
  <2>3. NodeMeaning(t) = MeaningOf(Denote, t)
    BY <1>1, EffectMeaning
  <2>4. QED BY <2>2, <2>3 DEF MeaningOf
<1>2. CASE \E f \in Frames : f.kind = "bracket" /\ t = ProtectedUse(f)
  <2>1. PICK f \in Frames : f.kind = "bracket" /\ t = ProtectedUse(f)
    BY <1>2
  <2>2. f.id \in Ids /\ f.use \in Callbacks
    BY <2>1, FrameFacts DEF UserFrame
  <2>3. /\ t.source = [op |-> "suspend", id |-> f.id, next |-> f.use]
        /\ t.frame = [kind |-> "release", id |-> f.id]
    BY <2>1 DEF ProtectedUse
  <2>4. t.source.op = "suspend" /\ t.source.id = f.id /\ t.source.next = f.use
    BY <2>3
  <2>5. t.frame.kind = "release" /\ t.frame.id = f.id /\ t.frame \in Frames
    BY <2>2, <2>3 DEF Frames
  <2>6. NodeMeaning(t.source) = Call(Denote, f.use, f.id)
    BY <2>4 DEF NodeMeaning, MeaningOf
  <2>7. IsMeaning(NodeMeaning(t.source))
    BY <2>2, <2>6, CallMeaning
  <2>8. NodeMeaning(t) = Through(Denote, t.frame, NodeMeaning(t.source))
    BY <2>4, <2>5, <2>6 DEF NodeMeaning
  <2>9. Entering(t.frame) = <<>>
    BY <2>5 DEF Entering
  <2>10. IsMeaning(Through(Denote, t.frame, NodeMeaning(t.source)))
    BY <2>5, <2>7, ThroughType, CalledBackType
  <2>11. After(<<>>, Through(Denote, t.frame, NodeMeaning(t.source)))
            = Through(Denote, t.frame, NodeMeaning(t.source))
    <3>1. <<>> \in Seq(Events)
      OBVIOUS
    <3>2. QED BY <2>10, <3>1, AfterFacts
  <2>12. QED BY <2>7, <2>8, <2>9, <2>11
<1>3. QED BY <1>1, <1>2 DEF IsNode

(* The use of a bracket's resource comes between acquire and release.      *)
LEMMA UsedMeaning ==
    ASSUME NEW f \in Frames, f.kind = "bracket", f.protect # "throws"
    PROVE  /\ IsMeaning(NodeMeaning(ProtectedUse(f)))
           /\ Used(Denote, f) = After(<<<<"acquire", f.id>>>>, NodeMeaning(ProtectedUse(f)))
<1>1. PICK id \in Ids : id = f.id
  BY FrameFacts
<1>2. PICK c : c = Call(Denote, f.use, id)
  OBVIOUS
<1>3. IsMeaning(c)
  BY <1>2, FrameFacts, CallMeaning DEF UserFrame
<1>4. PICK r \in Seq(Events) : r = <<<<"release", id>>>>
  <2>1. <<<<"release", id>>>> \in Seq(Events)
    BY OneEventSequence
  <2>2. QED BY <2>1
<1>5. PICK a \in Seq(Events) : a = <<<<"acquire", id>>>>
  <2>1. <<<<"acquire", id>>>> \in Seq(Events)
    BY OneEventSequence
  <2>2. QED BY <2>1
<1>6. PICK t : t = ProtectedUse(f)
  OBVIOUS
<1>7. /\ t.op = "continue" /\ t.frame = [kind |-> "release", id |-> id]
      /\ t.source = [op |-> "suspend", id |-> id, next |-> f.use]
  BY <1>1, <1>6 DEF ProtectedUse
<1>8. /\ t.frame.kind = "release" /\ t.frame.id = id
      /\ t.source.next = f.use /\ t.source.id = id
  BY <1>7
<1>9. NodeMeaning(t) = Through(Denote, t.frame, c)
  BY <1>2, <1>7, <1>8 DEF NodeMeaning
<1>10. Handle(Denote, t.frame, c.out) = Meaning(c.out, r)
  BY <1>4, <1>8 DEF Handle
<1>11. PICK u \in Seq(Events) : u = c.events
  BY <1>3 DEF IsMeaning
<1>12. PICK q \in Seq(Events) : q = u \o r
  <2>1. u \o r \in Seq(Events)
    OBVIOUS
  <2>2. QED BY <2>1
<1>13. NodeMeaning(t) = Meaning(c.out, q)
  <2>1. Meaning(c.out, r).out = c.out /\ Meaning(c.out, r).events = r
    BY MeaningFields
  <2>2. QED BY <1>9, <1>10, <1>11, <1>12, <2>1 DEF Through, After
<1>14. IsMeaning(NodeMeaning(t)) /\ After(a, NodeMeaning(t)) = Meaning(c.out, a \o q)
  BY <1>13, MeaningFields DEF After
<1>15. Used(Denote, f) = Meaning(c.out, a \o u \o r)
  BY <1>1, <1>2, <1>4, <1>5, <1>11 DEF Used
<1>16. a \o q = a \o u \o r
  BY <1>12
<1>17. QED BY <1>1, <1>5, <1>6, <1>14, <1>15, <1>16

-----------------------------------------------------------------------------
(* The steps.                                                              *)

(* What a step calls and what it leaves to do are what there was to do.    *)
LEMMA Progress ==
    ASSUME IInv, MeaningPreserved, faults = {}, program' = program,
           NEW events \in Seq(Events), trace' = trace \o events,
           NEW frames \in Seq(Frames), NEW m, IsMeaning(m),
           Rest = Pass(frames, After(events, m)), Rest' = Pass(frames, m)
    PROVE  MeaningPreserved'
<1>1. trace \in Seq(Events)
  BY DEF IInv, TypeOK
<1>2. IsMeaning(Pass(frames, m)) /\ Rest = After(events, Pass(frames, m))
  BY PassAfter
<1>3. After(trace, Rest) = After(trace \o events, Pass(frames, m))
  BY <1>1, <1>2, AfterTwice
<1>4. After(trace, Rest) = Denote[program]
  BY DEF MeaningPreserved
<1>5. After(trace', Rest') = Denote[program]
  BY <1>3, <1>4
<1>6. QED BY <1>5 DEF MeaningPreserved

(* The try block ends with what the node means.                            *)
LEMMA Instructed ==
    ASSUME IInv, MeaningPreserved, faults = {}, pc = "step",
           NEW o, NEW events \in Seq(Events), Deliver(o, events),
           NodeMeaning(current) = Meaning(o, events)
    PROVE  MeaningPreserved'
<1>1. /\ pc' = "deliver" /\ outcome' = o /\ trace' = trace \o events
      /\ continuations' = continuations /\ program' = program
  BY DEF Deliver
<1>2. continuations \in Seq(Frames)
  BY DEF IInv, TypeOK
<1>3. IsMeaning(Meaning(o, <<>>))
  BY TerminalMeaning
<1>4. After(events, Meaning(o, <<>>)) = Meaning(o, events)
  <2>1. Meaning(o, <<>>).out = o
    BY DEF Meaning
  <2>2. QED BY <1>3, <2>1, AfterFacts
<1>5. Rest = Pass(continuations, After(events, Meaning(o, <<>>)))
  BY <1>4 DEF Rest
<1>6. Rest' = Pass(continuations, Meaning(o, <<>>))
  BY <1>1 DEF Rest
<1>7. QED BY <1>1, <1>2, <1>3, <1>5, <1>6, Progress

LEMMA MeaningHead ==
    ASSUME IInv, MeaningPreserved, faults = {},
           MovedFrom \/ Descend \/ Suspended \/ Eval \/ Constant
    PROVE  MeaningPreserved'
<1>1. pc = "step" /\ IsNode(current) /\ continuations \in Seq(Frames)
  BY DEF IInv, TypeOK, MovedFrom, Descend, Suspended, Eval, Constant, At
<1>2. <<>> \in Seq(Events)
  OBVIOUS
<1>3. CASE MovedFrom
  <2>1. NodeMeaning(current) = Meaning(Defect(LogicError), <<>>)
    BY <1>3 DEF MovedFrom, At, NodeMeaning, MeaningOf
  <2>2. QED BY <1>1, <1>2, <1>3, <2>1, Instructed DEF MovedFrom
<1>4. CASE Constant
  <2>1. NodeMeaning(current) = Meaning(current.outcome, <<>>)
    BY <1>4 DEF Constant, At, NodeMeaning, MeaningOf
  <2>2. QED BY <1>1, <1>2, <1>4, <2>1, Instructed DEF Constant
<1>5. CASE Eval
  <2>1. current.op = "eval" /\ <<<<"call", current.id>>>> \in Seq(Events)
    BY <1>1, <1>5, NodeFacts, OneEventSequence DEF Eval, At
  <2>2. NodeMeaning(current) =
           Meaning(Evaluated(current.run, current.id), <<<<"call", current.id>>>>)
    BY <2>1 DEF NodeMeaning, MeaningOf
  <2>3. QED BY <1>1, <1>5, <2>1, <2>2, Instructed DEF Eval
<1>6. CASE Suspended
  <2>1. current.op = "suspend" /\ current.next \in Callbacks /\ current.id \in Ids
    BY <1>1, <1>6, NodeFacts DEF Suspended, At
  <2>2. <<<<"call", current.id>>>> \in Seq(Events)
    BY <2>1, OneEventSequence
  <2>3. NodeMeaning(current) = Call(Denote, current.next, current.id)
    BY <2>1 DEF NodeMeaning, MeaningOf
  <2>4. CASE current.next.op = "throws"
    <3>1. NodeMeaning(current) = Meaning(Defect(current.id), <<<<"call", current.id>>>>)
      BY <2>1, <2>3, <2>4, CallMeaning
    <3>2. Deliver(Defect(current.id), <<<<"call", current.id>>>>)
      BY <1>6, <2>4 DEF Suspended
    <3>3. QED BY <1>1, <2>2, <3>1, <3>2, Instructed
  <2>5. CASE current.next.op # "throws"
    <3>1. /\ IsMeaning(NodeMeaning(current.next))
          /\ NodeMeaning(current) = After(<<<<"call", current.id>>>>, NodeMeaning(current.next))
      BY <2>1, <2>3, <2>5, CallMeaning
    <3>2. /\ pc' = "step" /\ current' = current.next /\ continuations' = continuations
          /\ program' = program /\ trace' = trace \o <<<<"call", current.id>>>>
      <4>1. <<"call", current.id>> \in Events
        BY <2>1 DEF Events
      <4>2. \A e \in Events : Append(trace, e) = trace \o <<e>>
        BY DEF IInv, TypeOK
      <4>3. trace' = Append(trace, <<"call", current.id>>)
        BY <1>6, <2>5 DEF Suspended
      <4>4. trace' = trace \o <<<<"call", current.id>>>>
        BY <4>1, <4>2, <4>3, Zenon
      <4>5. QED BY <1>1, <1>6, <2>5, <4>4 DEF Suspended
    <3>3. Rest = Pass(continuations,
                      After(<<<<"call", current.id>>>>, NodeMeaning(current.next)))
      BY <1>1, <3>1 DEF Rest
    <3>4. PICK m : m = NodeMeaning(current.next)
      OBVIOUS
    <3>5. Rest' = Pass(continuations, m)
      BY <3>2, <3>4 DEF Rest, NodeMeaning
    <3>6. QED BY <1>1, <2>2, <3>1, <3>2, <3>3, <3>4, <3>5, Progress
  <2>6. QED BY <2>4, <2>5
<1>7. CASE Descend
  <2>1. /\ current.op = "continue" /\ pc' = "step" /\ current' = current.source
        /\ continuations' = Append(continuations, current.frame)
        /\ program' = program /\ trace' = trace \o Entering(current.frame)
    BY <1>1, <1>7 DEF Descend, At
  <2>2. PICK f \in Frames : f = current.frame
    BY <1>1, <2>1, NodeFacts
  <2>3. PICK m : m = NodeMeaning(current.source)
    OBVIOUS
  <2>4. /\ IsMeaning(m)
        /\ NodeMeaning(current) = After(Entering(f), Through(Denote, f, m))
    BY <1>1, <2>1, <2>2, <2>3, ContinueMeaning
  <2>5. Rest = Pass(continuations, After(Entering(f), Through(Denote, f, m)))
    BY <1>1, <2>4 DEF Rest
  <2>6. Rest' = Pass(Append(continuations, f), m)
    BY <2>1, <2>2, <2>3 DEF Rest, NodeMeaning
  <2>7. Rest' = Pass(continuations, Through(Denote, f, m))
    BY <1>1, <2>6, PassFrame
  <2>8. IsMeaning(Through(Denote, f, m))
    BY <2>4, ThroughType, CalledBackType
  <2>9. QED BY <1>1, <2>1, <2>2, <2>5, <2>7, <2>8, EnteringType, Progress
<1>8. QED BY <1>3, <1>4, <1>5, <1>6, <1>7

(* Below the try block what is left is what the popped frame makes of the  *)
(* outcome.                                                                *)
LEMMA RestAtDeliver ==
    ASSUME IInv, pc = "deliver", continuations # <<>>
    PROVE  /\ Frame \in Frames /\ Popped \in Seq(Frames)
           /\ IsMeaning(Handle(Denote, Frame, outcome))
           /\ Rest = Pass(Popped, Handle(Denote, Frame, outcome))
<1>1. continuations \in Seq(Frames)
  BY DEF IInv, TypeOK
<1>2. /\ Frame \in Frames /\ Popped \in Seq(Frames)
      /\ continuations = Append(Popped, Frame)
  BY <1>1, LastFrame DEF Frame, Popped
<1>3. Rest = Pass(Append(Popped, Frame), Meaning(outcome, <<>>))
  BY <1>2 DEF Rest
<1>4. Rest = Pass(Popped, Through(Denote, Frame, Meaning(outcome, <<>>)))
  BY <1>2, <1>3, PassFrame
<1>5. Meaning(outcome, <<>>).out = outcome /\ Meaning(outcome, <<>>).events = <<>>
  BY DEF Meaning
<1>6. IsMeaning(Handle(Denote, Frame, outcome))
  BY <1>2, CalledBackType, HandleType
<1>7. After(<<>>, Handle(Denote, Frame, outcome)) = Handle(Denote, Frame, outcome)
  <2>1. <<>> \in Seq(Events)
    OBVIOUS
  <2>2. QED BY <1>6, <2>1, AfterFacts
<1>8. Through(Denote, Frame, Meaning(outcome, <<>>)) = Handle(Denote, Frame, outcome)
  BY <1>5, <1>7 DEF Through
<1>9. QED BY <1>2, <1>4, <1>6, <1>8

(* The frame's callback returns a node that means what the frame makes of  *)
(* the outcome.                                                            *)
LEMMA Resumption ==
    ASSUME IInv, MeaningPreserved, faults = {}, pc = "deliver", continuations # <<>>,
           NEW node, NEW events \in Seq(Events), Continue(node, events),
           IsMeaning(NodeMeaning(node)),
           Handle(Denote, Frame, outcome) = After(events, NodeMeaning(node))
    PROVE  MeaningPreserved'
<1>1. /\ pc' = "step" /\ current' = node /\ continuations' = Popped
      /\ trace' = trace \o events /\ program' = program
  BY DEF Continue
<1>2. Popped \in Seq(Frames) /\ Rest = Pass(Popped, After(events, NodeMeaning(node)))
  BY RestAtDeliver
<1>3. Rest' = Pass(Popped, NodeMeaning(node))
  BY <1>1 DEF Rest, NodeMeaning
<1>4. PICK frames \in Seq(Frames) : frames = Popped
  BY <1>2
<1>5. PICK m : m = NodeMeaning(node)
  OBVIOUS
<1>6. QED BY <1>1, <1>2, <1>3, <1>4, <1>5, Progress

(* Without a fault an exception becomes a defect.                          *)
LEMMA Thrown ==
    ASSUME IInv, MeaningPreserved, faults' = {}, faults = {}, pc = "deliver", continuations # <<>>,
           NEW exception, NEW events \in Seq(Events), Throw(exception, events),
           Handle(Denote, Frame, outcome) = Meaning(Defect(exception), events)
    PROVE  MeaningPreserved'
<1>1. Continue(Terminal(Defect(exception)), events)
  BY DEF Throw, Unwind
<1>2. PICK o : o = Defect(exception)
  OBVIOUS
<1>3. NodeMeaning(Terminal(o)) = Meaning(o, <<>>) /\ IsMeaning(Meaning(o, <<>>))
  BY TerminalMeaning
<1>4. After(events, Meaning(o, <<>>)) = Meaning(o, events)
  <2>1. Meaning(o, <<>>).out = o
    BY DEF Meaning
  <2>2. QED BY <1>3, <2>1, AfterFacts
<1>5. QED BY <1>1, <1>2, <1>3, <1>4, Resumption

LEMMA OutcomePassedOn ==
    ASSUME IInv, MeaningPreserved, faults' = {}, faults = {}, pc = "deliver", continuations # <<>>,
           NEW o, NEW events \in Seq(Events), PassOn(o, events),
           Handle(Denote, Frame, outcome) = Meaning(o, events)
    PROVE  MeaningPreserved'
<1>1. Continue(Terminal(o), events)
  BY DEF PassOn, ThrowFault, Unwind
<1>2. NodeMeaning(Terminal(o)) = Meaning(o, <<>>) /\ IsMeaning(Meaning(o, <<>>))
  BY TerminalMeaning
<1>3. After(events, Meaning(o, <<>>)) = Meaning(o, events)
  <2>1. Meaning(o, <<>>).out = o
    BY DEF Meaning
  <2>2. QED BY <1>2, <2>1, AfterFacts
<1>4. QED BY <1>1, <1>2, <1>3, Resumption

LEMMA CallbackInvoked ==
    ASSUME IInv, MeaningPreserved, faults' = {}, faults = {}, pc = "deliver", continuations # <<>>,
           NEW effect \in Callbacks, NEW id \in Ids, Invoke(effect, id),
           Handle(Denote, Frame, outcome) = Call(Denote, effect, id)
    PROVE  MeaningPreserved'
<1>1. <<<<"call", id>>>> \in Seq(Events)
  BY OneEventSequence
<1>2. CASE effect.op = "throws"
  <2>1. Throw(id, <<<<"call", id>>>>)
    BY <1>2 DEF Invoke
  <2>2. QED BY <1>1, <1>2, <2>1, CallMeaning, Thrown
<1>3. CASE effect.op # "throws"
  <2>1. Continue(effect, <<<<"call", id>>>>)
    BY <1>3 DEF Invoke
  <2>2. QED BY <1>1, <1>3, <2>1, CallMeaning, Resumption
<1>4. QED BY <1>2, <1>3

LEMMA ValueTransformed ==
    ASSUME IInv, MeaningPreserved, faults' = {}, faults = {}, pc = "deliver", continuations # <<>>,
           NEW what, NEW o, NEW id \in Ids, Transform(what, o, id),
           Handle(Denote, Frame, outcome) = Mapped(what, o, id)
    PROVE  MeaningPreserved'
<1>1. <<<<"call", id>>>> \in Seq(Events)
  BY OneEventSequence
<1>2. CASE what = "throws"
  <2>1. /\ Throw(id, <<<<"call", id>>>>)
        /\ Mapped(what, o, id) = Meaning(Defect(id), <<<<"call", id>>>>)
    BY <1>2 DEF Transform, Mapped
  <2>2. QED BY <1>1, <2>1, Thrown
<1>3. CASE what # "throws"
  <2>1. PassOn(o, <<<<"call", id>>>>) /\ Mapped(what, o, id) = Meaning(o, <<<<"call", id>>>>)
    BY <1>3 DEF Transform, Mapped
  <2>2. QED BY <1>1, <2>1, OutcomePassedOn
<1>4. QED BY <1>2, <1>3

LEMMA MeaningResume ==
    ASSUME IInv, MeaningPreserved, faults' = {}, faults = {},
           \/ ResumeFlatMap \/ ResumeBimap \/ ResumeCatchAll
           \/ ResumeEnsuring \/ ResumeRelease \/ ResumeBracket
    PROVE  MeaningPreserved'
<1>1. pc = "deliver" /\ continuations # <<>>
  BY DEF ResumeFlatMap, ResumeBimap, ResumeCatchAll, ResumeEnsuring, ResumeRelease,
     ResumeBracket, Resuming
<1>2. Frame \in Frames /\ outcome.kind \in Kinds
  BY <1>1, RestAtDeliver DEF IInv, TypeOK, Kinds
<1>3. PICK id \in Ids : id = Frame.id
  BY <1>2, FrameFacts
<1>4. /\ <<>> \in Seq(Events) /\ <<<<"finalize", id>>>> \in Seq(Events)
      /\ <<<<"release", id>>>> \in Seq(Events)
  <2>1. <<>> \in Seq(Events)
    OBVIOUS
  <2>2. QED BY <2>1, OneEventSequence
<1>5. CASE ResumeFlatMap
  <2>1. Frame.kind = "flat_map" /\ Frame.next \in Callbacks
    BY <1>2, <1>5, FrameFacts DEF ResumeFlatMap, Resuming, UserFrame
  <2>2. CASE outcome.kind = "success"
    <3>1. Handle(Denote, Frame, outcome) = Call(Denote, Frame.next, id)
      BY <1>3, <2>1, <2>2 DEF Handle
    <3>2. Invoke(Frame.next, id)
      BY <1>3, <1>5, <2>2 DEF ResumeFlatMap
    <3>3. PICK effect \in Callbacks : effect = Frame.next
      BY <2>1
    <3>4. QED BY <1>1, <3>1, <3>2, <3>3, CallbackInvoked
  <2>3. CASE outcome.kind # "success"
    <3>1. Handle(Denote, Frame, outcome) = Meaning(outcome, <<>>)
      BY <2>1, <2>3 DEF Handle
    <3>2. PassOn(outcome, <<>>)
      BY <1>5, <2>3 DEF ResumeFlatMap
    <3>3. QED BY <1>1, <1>4, <3>1, <3>2, OutcomePassedOn
  <2>4. QED BY <2>2, <2>3
<1>6. CASE ResumeCatchAll
  <2>1. Frame.kind = "catch_all" /\ Frame.recover \in Callbacks
    BY <1>2, <1>6, FrameFacts DEF ResumeCatchAll, Resuming, UserFrame
  <2>2. CASE outcome.kind = "failure"
    <3>1. Handle(Denote, Frame, outcome) = Call(Denote, Frame.recover, id)
      BY <1>3, <2>1, <2>2 DEF Handle
    <3>2. Invoke(Frame.recover, id)
      BY <1>3, <1>6, <2>2 DEF ResumeCatchAll
    <3>3. PICK effect \in Callbacks : effect = Frame.recover
      BY <2>1
    <3>4. QED BY <1>1, <3>1, <3>2, <3>3, CallbackInvoked
  <2>3. CASE outcome.kind # "failure"
    <3>1. Handle(Denote, Frame, outcome) = Meaning(outcome, <<>>)
      BY <2>1, <2>3 DEF Handle
    <3>2. PassOn(outcome, <<>>)
      BY <1>6, <2>3 DEF ResumeCatchAll
    <3>3. QED BY <1>1, <1>4, <3>1, <3>2, OutcomePassedOn
  <2>4. QED BY <2>2, <2>3
<1>7. CASE ResumeBimap
  <2>1. Frame.kind = "bimap"
    BY <1>7 DEF ResumeBimap, Resuming
  <2>2. CASE outcome.kind = "success"
    <3>1. Handle(Denote, Frame, outcome) = Mapped(Frame.on_value, Success(id), id)
      BY <1>3, <2>1, <2>2 DEF Handle
    <3>2. Transform(Frame.on_value, Success(id), id)
      BY <1>3, <1>7, <2>2 DEF ResumeBimap
    <3>3. QED BY <1>1, <3>1, <3>2, ValueTransformed
  <2>3. CASE outcome.kind = "failure"
    <3>1. Handle(Denote, Frame, outcome) = Mapped(Frame.on_error, Failure(id), id)
      BY <1>3, <2>1, <2>3 DEF Handle
    <3>2. Transform(Frame.on_error, Failure(id), id)
      BY <1>3, <1>7, <2>3 DEF ResumeBimap
    <3>3. QED BY <1>1, <3>1, <3>2, ValueTransformed
  <2>4. CASE outcome.kind = "defect"
    <3>1. Handle(Denote, Frame, outcome) = Meaning(outcome, <<>>)
      BY <2>1, <2>4 DEF Handle
    <3>2. PassOn(outcome, <<>>)
      BY <1>7, <2>4 DEF ResumeBimap
    <3>3. QED BY <1>1, <1>4, <3>1, <3>2, OutcomePassedOn
  <2>5. QED BY <1>2, <2>2, <2>3, <2>4 DEF Kinds
<1>8. CASE ResumeEnsuring
  <2>1. Handle(Denote, Frame, outcome) = Meaning(outcome, <<<<"finalize", id>>>>)
    BY <1>3, <1>8 DEF ResumeEnsuring, Resuming, Handle
  <2>2. PassOn(outcome, <<<<"finalize", id>>>>)
    BY <1>3, <1>8 DEF ResumeEnsuring
  <2>3. QED BY <1>1, <1>4, <2>1, <2>2, OutcomePassedOn
<1>9. CASE ResumeRelease
  <2>1. Handle(Denote, Frame, outcome) = Meaning(outcome, <<<<"release", id>>>>)
    BY <1>3, <1>9 DEF ResumeRelease, Resuming, Handle
  <2>2. PassOn(outcome, <<<<"release", id>>>>)
    BY <1>3, <1>9 DEF ResumeRelease
  <2>3. QED BY <1>1, <1>4, <2>1, <2>2, OutcomePassedOn
<1>10. CASE ResumeBracket
  <2>1. Frame.kind = "bracket"
    BY <1>10 DEF ResumeBracket, Resuming
  <2>2. CASE outcome.kind # "success"
    <3>1. Handle(Denote, Frame, outcome) = Meaning(outcome, <<>>)
      BY <2>1, <2>2 DEF Handle
    <3>2. PassOn(outcome, <<>>)
      BY <1>10, <2>2 DEF ResumeBracket
    <3>3. QED BY <1>1, <1>4, <3>1, <3>2, OutcomePassedOn
  <2>3. CASE outcome.kind = "success" /\ Frame.protect = "throws"
    <3>1. PICK events \in Seq(Events) : events = <<<<"acquire", id>>, <<"release", id>>>>
      <4>1. <<"acquire", id>> \in Events /\ <<"release", id>> \in Events
        BY DEF Events
      <4>2. \A a, r \in Events : <<a, r>> \in Seq(Events)
        OBVIOUS
      <4>3. QED BY <4>1, <4>2
    <3>2. Handle(Denote, Frame, outcome) = Meaning(Defect(id), events)
      <4>1. Used(Denote, Frame) =
               Meaning(Defect(id), <<<<"acquire", id>>>> \o <<>> \o <<<<"release", id>>>>)
        BY <1>3, <2>3 DEF Used, Meaning
      <4>2. <<<<"acquire", id>>>> \o <<>> \o <<<<"release", id>>>> = events
        <5>1. PICK a \in Events : a = <<"acquire", id>>
          BY DEF Events
        <5>2. PICK r \in Events : r = <<"release", id>>
          BY DEF Events
        <5>3. <<a>> \o <<>> \o <<r>> = <<a, r>>
          BY TwoElements
        <5>4. QED BY <3>1, <5>1, <5>2, <5>3, Zenon
      <4>3. Handle(Denote, Frame, outcome) = Used(Denote, Frame)
        BY <2>1, <2>3 DEF Handle
      <4>4. QED BY <4>1, <4>2, <4>3
    <3>3. Throw(id, events)
      BY <1>3, <1>10, <2>3, <3>1 DEF ResumeBracket
    <3>4. QED BY <1>1, <3>2, <3>3, Thrown
  <2>4. CASE outcome.kind = "success" /\ Frame.protect # "throws"
    <3>1. Handle(Denote, Frame, outcome) = Used(Denote, Frame)
      BY <2>1, <2>4 DEF Handle
    <3>2. /\ IsMeaning(NodeMeaning(ProtectedUse(Frame)))
          /\ Used(Denote, Frame) =
                After(<<<<"acquire", id>>>>, NodeMeaning(ProtectedUse(Frame)))
      BY <1>2, <1>3, <2>1, <2>4, UsedMeaning
    <3>3. Continue(ProtectedUse(Frame), <<<<"acquire", id>>>>)
      BY <1>3, <1>10, <2>4 DEF ResumeBracket, ThrowFault, Unwind
    <3>4. <<<<"acquire", id>>>> \in Seq(Events)
      BY OneEventSequence
    <3>5. PICK node : node = ProtectedUse(Frame)
      OBVIOUS
    <3>6. QED BY <1>1, <3>1, <3>2, <3>3, <3>4, <3>5, Resumption
  <2>5. QED BY <2>2, <2>3, <2>4
<1>11. QED BY <1>5, <1>6, <1>7, <1>8, <1>9, <1>10

(* Without a fault, the result of evaluate is the exit's.                  *)
LEMMA MeaningEnd ==
    ASSUME MeaningPreserved, faults' = {}, faults = {}, Return \/ RunExit
    PROVE  MeaningPreserved'
<1>1. /\ program' = program /\ trace' = trace /\ continuations' = continuations
      /\ outcome' = outcome /\ pc # "step" /\ pc' # "step"
  BY DEF Return, RunExit, Fault
<1>2. Rest' = Rest
  BY <1>1 DEF Rest
<1>3. QED BY <1>1, <1>2 DEF MeaningPreserved

LEMMA FaultsOnlyGrow ==
    ASSUME Next
    PROVE  faults \subseteq faults'
BY DEF Next, MovedFrom, Descend, DescendFails, Suspended, Eval, Constant, ResumeFlatMap,
   ResumeBimap, ResumeCatchAll, ResumeEnsuring, ResumeRelease, ResumeBracket, Return, RunExit,
   NoFault, Fault, Throw, ThrowFault, Unwind, PassOn, Invoke, Transform

LEMMA MeaningStep ==
    ASSUME IInv, MeaningPreserved, [Next]_vars
    PROVE  MeaningPreserved'
<1>1. CASE UNCHANGED vars
  BY <1>1 DEF vars, MeaningPreserved, Rest, NodeMeaning
<1>2. CASE Next /\ faults' # {}
  BY <1>2 DEF MeaningPreserved
<1>3. CASE Next /\ faults' = {}
  <2>1. faults = {}
    BY <1>3, FaultsOnlyGrow
  <2>2. ~DescendFails
    BY <1>3 DEF DescendFails, Fault
  <2>3. QED BY <1>3, <2>1, <2>2, MeaningHead, MeaningResume, MeaningEnd DEF Next
<1>4. QED BY <1>1, <1>2, <1>3

LEMMA MeaningInit ==
    ASSUME Init
    PROVE  MeaningPreserved
<1>1. program \in Effects /\ Rest = Pass(<<>>, NodeMeaning(program)) /\ trace = <<>>
  BY EffectsAssumption DEF Init, Rest
<1>2. Rest = Denote[program] /\ IsMeaning(Denote[program])
  BY <1>1, PassNothing, EffectMeaning
<1>3. After(<<>>, Denote[program]) = Denote[program]
  <2>1. <<>> \in Seq(Events)
    OBVIOUS
  <2>2. QED BY <1>2, <2>1, AfterFacts
<1>4. QED BY <1>1, <1>2, <1>3 DEF MeaningPreserved

(* At every step of a run without faults the calls made so far, followed   *)
(* by what is pending, are the program's meaning.                          *)
THEOREM LoopComputesRecursion == Spec => []MeaningPreserved
<1>1. Init => MeaningPreserved
  BY MeaningInit
<1>2. IInv /\ MeaningPreserved /\ [Next]_vars => MeaningPreserved'
  BY MeaningStep
<1>3. QED BY <1>1, <1>2, Invariance, PTL DEF Spec

(* What run_exit answers, and the user code it called, in order.           *)
THEOREM RunExitAnswersMeaning ==
    Spec => [](pc = "exited" /\ faults = {} => Denote[program] = Meaning(outcome, trace))
<1>1. ASSUME IInv, MeaningPreserved, pc = "exited", faults = {}
      PROVE  Denote[program] = Meaning(outcome, trace)
  <2>1. continuations = <<>> /\ trace \in Seq(Events)
    BY <1>1 DEF IInv, TypeOK
  <2>2. Rest = Meaning(outcome, <<>>)
    BY <1>1, <2>1, PassNothing DEF Rest
  <2>3. After(trace, Rest) = Meaning(outcome, trace)
    <3>1. IsMeaning(Meaning(outcome, <<>>)) /\ Meaning(outcome, <<>>).out = outcome
      BY TerminalMeaning DEF Meaning
    <3>2. QED BY <2>1, <2>2, <3>1, AfterFacts
  <2>4. QED BY <1>1, <2>3 DEF MeaningPreserved
<1>2. IInv /\ MeaningPreserved =>
         (pc = "exited" /\ faults = {} => Denote[program] = Meaning(outcome, trace))
  BY <1>1
<1>3. QED BY <1>2, LoopComputesRecursion, Invariance, PTL

-----------------------------------------------------------------------------
(* The programs that IO and std::expected have in common.                  *)

HasCommonShape(t) ==
    \/ t.op \in {"outcome", "eval"}
    \/ t.op = "continue" /\ t.frame.kind \in {"flat_map", "bimap", "catch_all"}

(* The definition of IsCommon is its equation: the largest set of programs *)
(* that have the shape and are made of programs of the set satisfies it.   *)
LEMMA CommonEquation ==
    ASSUME NEW t \in Effects
    PROVE  IsCommon[t] <=> HasCommonShape(t) /\ \A p \in PartsOf(t) : IsCommon[p]
<1> DEFINE Closed(S) == \A x \in S : HasCommonShape(x) /\ PartsOf(x) \subseteq S
           Largest == {x \in Effects : \E S \in SUBSET Effects : x \in S /\ Closed(S)}
           Body(f, x) == HasCommonShape(x) /\ \A p \in PartsOf(x) : f[p]
           F == [x \in Effects |-> x \in Largest]
<1>1. Closed(Largest)
  <2>1. SUFFICES ASSUME NEW x \in Largest
                 PROVE  HasCommonShape(x) /\ PartsOf(x) \subseteq Largest
    OBVIOUS
  <2>2. PICK S \in SUBSET Effects : x \in S /\ Closed(S)
    OBVIOUS
  <2>3. S \subseteq Largest
    BY <2>2
  <2>4. QED BY <2>2, <2>3
<1>2. ASSUME NEW x \in Effects, HasCommonShape(x), PartsOf(x) \subseteq Largest
      PROVE  x \in Largest
  <2>1. Closed(Largest \cup {x})
    BY <1>1, <1>2
  <2>2. Largest \cup {x} \in SUBSET Effects
    OBVIOUS
  <2>3. QED BY <2>1, <2>2
<1>3. ASSUME NEW x \in Effects
      PROVE  F[x] = Body(F, x)
  <2>1. PartsOf(x) \subseteq Effects
    BY Parts
  <2>2. \A y \in Effects : F[y] = (y \in Largest)
    OBVIOUS
  <2>3. x \in Largest <=> HasCommonShape(x) /\ \A p \in PartsOf(x) : p \in Largest
    BY <1>1, <1>2
  <2> HIDE DEF F, Largest
  <2>4. (\A p \in PartsOf(x) : F[p]) <=> \A p \in PartsOf(x) : p \in Largest
    BY <2>1, <2>2, Zenon
  <2>5. F[x] = (x \in Largest)
    BY <2>2, Zenon
  <2>6. (x \in Largest) = Body(F, x)
    <3>1. (x \in Largest) <=> Body(F, x)
      BY <2>3, <2>4, Zenon
    <3> HIDE DEF Body
    <3>2. Body(F, x) \in BOOLEAN
      BY Zenon DEF Body
    <3>3. QED BY <3>1, <3>2
  <2>7. QED BY <2>5, <2>6
<1>4. F = [x \in Effects |-> Body(F, x)]
  <2>1. F = [x \in Effects |-> F[x]]
    OBVIOUS
  <2> HIDE DEF F
  <2>2. QED BY <1>3, <2>1
<1>5. IsCommon = CHOOSE f : f = [x \in Effects |-> Body(f, x)]
  BY Zenon DEF IsCommon, HasCommonShape
<1>6. IsCommon = [x \in Effects |-> Body(IsCommon, x)]
  <2> HIDE DEF F, Body
  <2>1. \E f : f = [x \in Effects |-> Body(f, x)]
    BY <1>4
  <2>2. QED BY <1>5, <2>1
<1>7. QED BY <1>6

LEMMA CommonParts ==
    ASSUME NEW t \in CommonPrograms
    PROVE  /\ t \in Effects /\ HasCommonShape(t)
           /\ PartsOf(t) \subseteq CommonPrograms
<1>1. t \in Effects /\ IsCommon[t]
  BY DEF CommonPrograms
<1>2. QED BY <1>1, CommonEquation, Parts DEF CommonPrograms

(* A property of programs that each inherits from its parts: if no program *)
(* of S is the first to be Bad, none is.                                   *)
LEMMA NoLowest ==
    ASSUME NEW Bad \in SUBSET Effects,
           \A t \in Bad : \E p \in PartsOf(t) : p \in Bad
    PROVE  Bad = {}
<1> DEFINE Heights == {Height[t] : t \in Bad}
<1>1. SUFFICES ASSUME Bad # {}
               PROVE  FALSE
  OBVIOUS
<1>2. Heights \in SUBSET Nat /\ Heights # {}
  BY <1>1, HeightAssumption
<1>3. PICK k \in Heights : \A j \in Heights : k <= j
  BY <1>2, LeastNumber
<1>4. PICK t \in Bad : \A s \in Bad : Height[t] <= Height[s]
  BY <1>3
<1>5. PICK p \in PartsOf(t) : p \in Bad
  OBVIOUS
<1>6. Height[p] \in Nat /\ Height[t] \in Nat /\ Height[p] < Height[t]
  BY <1>5, HeightAssumption
<1>7. QED BY <1>4, <1>5, <1>6

-----------------------------------------------------------------------------
(* What the common programs come to.                                       *)

IsOutcome(o) == o.kind \in Kinds

LEMMA OutcomesAre ==
    ASSUME NEW v
    PROVE  IsOutcome(Success(v)) /\ IsOutcome(Failure(v)) /\ IsOutcome(Defect(v))
BY DEF IsOutcome, Kinds, Success, Failure, Defect

(* The parts that a common continuation calls.                             *)
LEMMA CommonFrame ==
    ASSUME NEW t \in CommonPrograms, t.op = "continue"
    PROVE  /\ t.source \in PartsOf(t) /\ t.frame \in Frames /\ t.frame.id \in Ids
           /\ t.frame.kind \in {"flat_map", "bimap", "catch_all"}
           /\ Entering(t.frame) = <<>>
           /\ t.frame.kind = "flat_map" /\ t.frame.next.op # "throws" => t.frame.next \in PartsOf(t)
           /\ t.frame.kind = "catch_all" /\ t.frame.recover.op # "throws" =>
                 t.frame.recover \in PartsOf(t)
<1>1. t \in Effects /\ HasCommonShape(t)
  BY CommonParts
<1>2. t.frame.kind \in {"flat_map", "bimap", "catch_all"}
  BY <1>1 DEF HasCommonShape
<1>3. t.source \in PartsOf(t) /\ t.frame \in Frames
      /\ \A p \in CalledBack(t.frame) : p.op # "throws" => p \in PartsOf(t)
  BY <1>1, Parts
<1>4. t.frame.id \in Ids
  BY <1>3, FrameFacts
<1>5. t.frame.kind = "flat_map" => t.frame.next \in CalledBack(t.frame)
  BY DEF CalledBack
<1>6. t.frame.kind = "catch_all" => t.frame.recover \in CalledBack(t.frame)
  BY DEF CalledBack
<1>7. Entering(t.frame) = <<>>
  BY <1>2 DEF Entering
<1>8. QED BY <1>2, <1>3, <1>4, <1>5, <1>6, <1>7

LEMMA CallOutcome ==
    ASSUME NEW effect, NEW id, effect.op # "throws" => IsOutcome(Denote[effect].out)
    PROVE  IsOutcome(Call(Denote, effect, id).out)
<1>1. CASE effect.op = "throws"
  BY <1>1, OutcomesAre DEF Call, Meaning
<1>2. CASE effect.op # "throws"
  BY <1>2 DEF Call, After, Meaning
<1>3. QED BY <1>1, <1>2

LEMMA CommonOutcome ==
    ASSUME NEW t \in CommonPrograms, \A p \in PartsOf(t) : IsOutcome(Denote[p].out)
    PROVE  IsOutcome(Denote[t].out)
<1>1. t \in Effects /\ HasCommonShape(t)
  BY CommonParts
<1>2. Denote[t] = MeaningOf(Denote, t)
  BY <1>1, DenoteType
<1>3. CASE t.op = "outcome"
  <2>1. t.outcome.kind \in {"success", "failure"}
    BY <1>1, <1>3, EffectsAssumption
  <2>2. QED BY <1>2, <1>3, <2>1 DEF MeaningOf, Meaning, IsOutcome, Kinds
<1>4. CASE t.op = "eval"
  <2>1. t.run \in {"success", "failure", "throws"}
    BY <1>1, <1>4, EffectsAssumption
  <2>2. QED BY <1>2, <1>4, <2>1 DEF MeaningOf, Meaning, IsOutcome, Kinds, Evaluated
<1>5. CASE t.op = "continue"
  <2>1. PICK o : o = Denote[t.source].out
    OBVIOUS
  <2>2. IsOutcome(o)
    BY <1>5, <2>1, CommonFrame
  <2>3. Denote[t].out = Handle(Denote, t.frame, o).out
    BY <1>2, <1>5, <2>1 DEF MeaningOf, Through, After, Meaning
  <2>4. IsOutcome(Handle(Denote, t.frame, o).out)
    <3>1. CASE t.frame.kind = "flat_map" /\ o.kind = "success"
      <4>1. IsOutcome(Call(Denote, t.frame.next, t.frame.id).out)
        BY <1>5, <3>1, CommonFrame, CallOutcome
      <4>2. QED BY <3>1, <4>1 DEF Handle
    <3>2. CASE t.frame.kind = "catch_all" /\ o.kind = "failure"
      <4>1. IsOutcome(Call(Denote, t.frame.recover, t.frame.id).out)
        BY <1>5, <3>2, CommonFrame, CallOutcome
      <4>2. QED BY <3>2, <4>1 DEF Handle
    <3>3. CASE t.frame.kind = "bimap" /\ o.kind \in {"success", "failure"}
      <4>1. \A what, x : IsOutcome(x) => IsOutcome(Mapped(what, x, t.frame.id).out)
        BY OutcomesAre DEF Mapped, Meaning
      <4>2. QED BY <3>3, <4>1, OutcomesAre DEF Handle
    <3>4. CASE /\ ~(t.frame.kind = "flat_map" /\ o.kind = "success")
               /\ ~(t.frame.kind = "catch_all" /\ o.kind = "failure")
               /\ ~(t.frame.kind = "bimap" /\ o.kind \in {"success", "failure"})
      <4>1. Handle(Denote, t.frame, o) = Meaning(o, <<>>)
        BY <1>5, <3>4, CommonFrame DEF Handle
      <4>2. QED BY <2>2, <4>1 DEF Meaning
    <3>5. QED BY <3>1, <3>2, <3>3, <3>4
  <2>5. QED BY <2>3, <2>4
<1>6. QED BY <1>1, <1>3, <1>4, <1>5 DEF HasCommonShape

LEMMA CommonOutcomes ==
    \A t \in CommonPrograms : IsOutcome(Denote[t].out)
<1> DEFINE Bad == {t \in CommonPrograms : ~IsOutcome(Denote[t].out)}
<1>1. Bad \in SUBSET Effects
  BY DEF CommonPrograms
<1>2. ASSUME NEW t \in Bad
      PROVE  \E p \in PartsOf(t) : p \in Bad
  BY CommonOutcome, CommonParts
<1>3. Bad = {}
  <2> HIDE DEF Bad
  <2>1. QED BY <1>1, <1>2, NoLowest
<1>4. QED BY <1>3

-----------------------------------------------------------------------------
(* The eager dictionaries agree with the meaning.                          *)

LEMMA AppendIsConcatenation ==
    ASSUME NEW events \in Seq(Events), NEW id \in Ids
    PROVE  Append(events, <<"call", id>>) = events \o <<<<"call", id>>>>
<1>1. PICK c \in Events : c = <<"call", id>>
  BY DEF Events
<1>2. Append(events, c) = events \o <<c>>
  OBVIOUS
<1>3. QED BY <1>1, <1>2

LEMMA ApplyIsCall ==
    ASSUME NEW e, NEW effect, NEW source, IsMeaning(source), NEW id \in Ids,
           effect.op # "throws" => e[effect] = Denote[effect] /\ IsMeaning(Denote[effect])
    PROVE  Apply(e, effect, source, id) = After(source.events, Call(Denote, effect, id))
<1>1. PICK a \in Seq(Events) : a = source.events
  BY DEF IsMeaning
<1>2. PICK c \in Seq(Events) : c = <<<<"call", id>>>>
  BY OneEventSequence
<1>3. Append(source.events, <<"call", id>>) = a \o c
  BY <1>1, <1>2, AppendIsConcatenation
<1>4. CASE effect.op = "throws"
  <2>1. Apply(e, effect, source, id) = Meaning(Defect(id), a \o c)
    BY <1>3, <1>4 DEF Apply
  <2>2. Call(Denote, effect, id) = Meaning(Defect(id), c)
    BY <1>2, <1>4 DEF Call
  <2>3. After(a, Meaning(Defect(id), c)) = Meaning(Defect(id), a \o c)
    BY DEF After, Meaning
  <2>4. QED BY <1>1, <2>1, <2>2, <2>3
<1>5. CASE effect.op # "throws"
  <2>1. Apply(e, effect, source, id) = After(a \o c, Denote[effect])
    BY <1>3, <1>5 DEF Apply
  <2>2. Call(Denote, effect, id) = After(c, Denote[effect])
    BY <1>2, <1>5 DEF Call
  <2>3. After(a, After(c, Denote[effect])) = After(a \o c, Denote[effect])
    BY <1>5, AfterTwice
  <2>4. QED BY <1>1, <2>1, <2>2, <2>3
<1>6. QED BY <1>4, <1>5

LEMMA BimapAgrees ==
    ASSUME NEW d, NEW source, IsMeaning(source), NEW frame, frame.id \in Ids,
           frame.kind = "bimap", source.out.kind \in {"success", "failure"}
    PROVE  EagerBimap(source, frame) = After(source.events, Handle(d, frame, source.out))
<1>1. PICK a \in Seq(Events) : a = source.events
  BY DEF IsMeaning
<1>2. PICK c \in Seq(Events) : c = <<<<"call", frame.id>>>>
  BY OneEventSequence
<1>3. Append(source.events, <<"call", frame.id>>) = a \o c
  BY <1>1, <1>2, AppendIsConcatenation
<1>4. \A x : After(a, Meaning(x, c)) = Meaning(x, a \o c)
  BY DEF After, Meaning
<1>5. CASE source.out.kind = "success"
  <2> DEFINE x == IF frame.on_value = "throws" THEN Defect(frame.id) ELSE Success(frame.id)
  <2>1. EagerBimap(source, frame) = Meaning(x, a \o c)
    BY <1>3, <1>5 DEF EagerBimap
  <2>2. Handle(d, frame, source.out) = Meaning(x, c)
    BY <1>2, <1>5 DEF Handle, Mapped
  <2> HIDE DEF x
  <2>3. QED BY <1>1, <1>4, <2>1, <2>2
<1>6. CASE source.out.kind = "failure"
  <2> DEFINE x == IF frame.on_error = "throws" THEN Defect(frame.id) ELSE Failure(frame.id)
  <2>1. EagerBimap(source, frame) = Meaning(x, a \o c)
    BY <1>3, <1>6 DEF EagerBimap
  <2>2. Handle(d, frame, source.out) = Meaning(x, c)
    BY <1>2, <1>6 DEF Handle, Mapped
  <2> HIDE DEF x
  <2>3. QED BY <1>1, <1>4, <2>1, <2>2
<1>7. QED BY <1>5, <1>6

(* If the parts agree, so does the program.                                *)
LEMMA EagerStep ==
    ASSUME NEW t \in CommonPrograms, NEW e, \A p \in PartsOf(t) : e[p] = Denote[p]
    PROVE  EagerOf(e, t) = Denote[t]
<1>1. t \in Effects /\ HasCommonShape(t) /\ Denote[t] = MeaningOf(Denote, t)
  BY CommonParts, DenoteType
<1>2. CASE t.op = "outcome" \/ t.op = "eval"
  BY <1>1, <1>2 DEF EagerOf, MeaningOf
<1>3. CASE t.op = "continue"
  <2>1. PICK source : source = Denote[t.source]
    OBVIOUS
  <2>2. PICK frame : frame = t.frame
    OBVIOUS
  <2>3. /\ frame \in Frames /\ frame.id \in Ids
        /\ frame.kind \in {"flat_map", "bimap", "catch_all"} /\ Entering(frame) = <<>>
    BY <1>3, <2>2, CommonFrame
  <2>4. e[t.source] = source /\ IsMeaning(source) /\ IsOutcome(source.out)
    <3>1. t.source \in PartsOf(t)
      BY <1>3, CommonFrame
    <3>2. t.source \in CommonPrograms /\ t.source \in Effects
      BY <3>1, CommonParts
    <3>3. QED BY <2>1, <3>1, <3>2, DenoteType, CommonOutcomes
  <2>5. Denote[t] = After(source.events, Handle(Denote, frame, source.out))
    <3>1. Denote[t] = After(<<>>, Through(Denote, frame, source))
      BY <1>1, <1>3, <2>1, <2>2, <2>3 DEF MeaningOf
    <3>2. IsMeaning(Through(Denote, frame, source))
      BY <2>3, <2>4, CalledBackType, ThroughType
    <3>3. After(<<>>, Through(Denote, frame, source)) = Through(Denote, frame, source)
      <4>1. <<>> \in Seq(Events)
        OBVIOUS
      <4>2. QED BY <3>2, <4>1, AfterFacts
    <3>4. QED BY <3>1, <3>3 DEF Through
  <2>6. EagerOf(e, t) = EagerContinue(e, source, frame)
    BY <1>3, <2>2, <2>4 DEF EagerOf
  <2>7. ASSUME Handle(Denote, frame, source.out) = Meaning(source.out, <<>>)
        PROVE  Denote[t] = source
    <3>1. After(source.events, Meaning(source.out, <<>>)) = Meaning(source.out, source.events)
      BY <2>4, AfterFacts DEF IsMeaning
    <3>2. QED BY <2>4, <2>5, <2>7, <3>1 DEF IsMeaning
  <2>8. CASE frame.kind = "flat_map" /\ source.out.kind = "success"
    <3>1. frame.next.op # "throws" =>
             e[frame.next] = Denote[frame.next] /\ IsMeaning(Denote[frame.next])
      BY <1>3, <2>2, <2>8, CommonFrame, CommonParts, DenoteType
    <3>2. PICK effect : effect = frame.next
      OBVIOUS
    <3>3. PICK id \in Ids : id = frame.id
      BY <2>3
    <3>4. Apply(e, effect, source, id) = After(source.events, Call(Denote, effect, id))
      <4>1. effect.op # "throws" => e[effect] = Denote[effect] /\ IsMeaning(Denote[effect])
        BY <3>1, <3>2
      <4>2. QED BY <2>4, <4>1, ApplyIsCall, Zenon
    <3>5. QED BY <2>5, <2>6, <2>8, <3>2, <3>3, <3>4 DEF Handle, EagerContinue, EagerFlatMap
  <2>9. CASE frame.kind = "catch_all" /\ source.out.kind = "failure"
    <3>1. frame.recover.op # "throws" =>
             e[frame.recover] = Denote[frame.recover] /\ IsMeaning(Denote[frame.recover])
      BY <1>3, <2>2, <2>9, CommonFrame, CommonParts, DenoteType
    <3>2. PICK effect : effect = frame.recover
      OBVIOUS
    <3>3. PICK id \in Ids : id = frame.id
      BY <2>3
    <3>4. Apply(e, effect, source, id) = After(source.events, Call(Denote, effect, id))
      <4>1. effect.op # "throws" => e[effect] = Denote[effect] /\ IsMeaning(Denote[effect])
        BY <3>1, <3>2
      <4>2. QED BY <2>4, <4>1, ApplyIsCall, Zenon
    <3>5. QED BY <2>5, <2>6, <2>9, <3>2, <3>3, <3>4 DEF Handle, EagerContinue, EagerCatchAll
  <2>10. CASE frame.kind = "bimap" /\ source.out.kind \in {"success", "failure"}
    BY <2>3, <2>4, <2>5, <2>6, <2>10, BimapAgrees DEF EagerContinue
  <2>11. CASE /\ ~(frame.kind = "flat_map" /\ source.out.kind = "success")
              /\ ~(frame.kind = "catch_all" /\ source.out.kind = "failure")
              /\ ~(frame.kind = "bimap" /\ source.out.kind \in {"success", "failure"})
    <3>1. Handle(Denote, frame, source.out) = Meaning(source.out, <<>>)
      BY <2>3, <2>11 DEF Handle
    <3>2. EagerContinue(e, source, frame) = source
      BY <2>3, <2>4, <2>11 DEF EagerContinue, EagerFlatMap, EagerCatchAll, IsOutcome, Kinds
    <3>3. QED BY <2>6, <2>7, <3>1, <3>2
  <2>12. QED BY <2>8, <2>9, <2>10, <2>11
<1>4. QED BY <1>1, <1>2, <1>3 DEF HasCommonShape

(* The definition of Eager is its equation, and it is the meaning.         *)
LEMMA EagerIsMeaning ==
    \A t \in CommonPrograms : Eager[t] = Denote[t]
<1> DEFINE F == [t \in CommonPrograms |-> Denote[t]]
           Bad == {t \in CommonPrograms : Eager[t] # Denote[t]}
<1>1. ASSUME NEW t \in CommonPrograms
      PROVE  F[t] = EagerOf(F, t)
  <2>1. \A p \in PartsOf(t) : F[p] = Denote[p]
    BY CommonParts
  <2>2. F[t] = Denote[t]
    OBVIOUS
  <2> HIDE DEF F
  <2>3. QED BY <2>1, <2>2, EagerStep
<1>2. F = [t \in CommonPrograms |-> EagerOf(F, t)]
  <2>1. F = [t \in CommonPrograms |-> F[t]]
    OBVIOUS
  <2> HIDE DEF F
  <2>2. QED BY <1>1, <2>1
<1>3. Eager = CHOOSE f : f = [t \in CommonPrograms |-> EagerOf(f, t)]
  BY Zenon DEF Eager
<1>4. Eager = [t \in CommonPrograms |-> EagerOf(Eager, t)]
  <2> HIDE DEF F
  <2>1. \E f : f = [t \in CommonPrograms |-> EagerOf(f, t)]
    BY <1>2
  <2>2. QED BY <1>3, <2>1
<1>5. ASSUME NEW t \in Bad
      PROVE  \E p \in PartsOf(t) : p \in Bad
  <2>1. Eager[t] = EagerOf(Eager, t)
    BY <1>4
  <2>2. ASSUME \A p \in PartsOf(t) : Eager[p] = Denote[p]
        PROVE  FALSE
    BY <2>1, <2>2, EagerStep
  <2>3. QED BY <2>2, CommonParts
<1>6. Bad \in SUBSET Effects
  BY DEF CommonPrograms
<1>7. Bad = {}
  <2> HIDE DEF Bad
  <2>1. QED BY <1>5, <1>6, NoLowest
<1>8. QED BY <1>7

(* A program that IO and std::expected can both run has one meaning: the   *)
(* trampoline answers what the eager dictionaries answer, after the same   *)
(* calls of user code in the same order.                                   *)
THEOREM TrampolineAgreesWithExpected == Spec => []InterpretersAgree
<1>1. (pc = "exited" /\ faults = {} => Denote[program] = Meaning(outcome, trace))
         => InterpretersAgree
  BY EagerIsMeaning DEF InterpretersAgree
<1>2. QED BY <1>1, RunExitAnswersMeaning, PTL

-----------------------------------------------------------------------------
(* What a traversal is made of.                                            *)

(* r lists what n turns of the loop over the items have made.              *)
IsLoop(r, n, items) ==
    r = [i \in 0 .. n |->
            IF i = 0 THEN Terminal(Success(0))
            ELSE FlatMapped(r[i - 1], StepCall(i), Visited(items[i], i))]

LEMMA LoopExists ==
    ASSUME NEW items, NEW n \in Nat
    PROVE  \E r : IsLoop(r, n, items)
<1> DEFINE Bad == {k \in Nat : ~ \E r : IsLoop(r, k, items)}
           Made(k, before) == FlatMapped(before, StepCall(k), Visited(items[k], k))
           start == Terminal(Success(0))
<1>1. SUFFICES ASSUME Bad # {}
               PROVE  FALSE
  OBVIOUS
<1>2. PICK k \in Bad : \A j \in Bad : k <= j
  BY <1>1, LeastNumber
<1>3. CASE k = 0
  <2>1. IsLoop([j \in 0 .. 0 |-> start], 0, items)
    BY DEF IsLoop
  <2>2. QED BY <1>2, <1>3, <2>1
<1>4. CASE k # 0
  <2>1. k - 1 \in Nat /\ k - 1 \notin Bad /\ k \in Nat
    BY <1>2, <1>4
  <2>2. PICK g : IsLoop(g, k - 1, items)
    BY <2>1
  <2> DEFINE h == [j \in 0 .. k |-> IF j = k THEN Made(k, g[k - 1]) ELSE g[j]]
  <2>3. ASSUME NEW j \in 0 .. k
        PROVE  h[j] = IF j = 0 THEN start ELSE Made(j, h[j - 1])
    <3>1. \A i \in 0 .. k - 1 : g[i] = IF i = 0 THEN start ELSE Made(i, g[i - 1])
      BY <2>2 DEF IsLoop
    <3> HIDE DEF Made, start
    <3>2. CASE j = k
      <4>1. h[k] = Made(k, g[k - 1]) /\ h[k - 1] = g[k - 1]
        BY <2>1
      <4>2. QED BY <1>4, <3>2, <4>1
    <3>3. CASE j # k
      <4>1. j \in 0 .. k - 1 /\ h[j] = g[j] /\ (j # 0 => h[j - 1] = g[j - 1])
        BY <2>1, <3>3
      <4>2. QED BY <3>1, <4>1
    <3>4. QED BY <3>2, <3>3
  <2>4. h = [j \in 0 .. k |-> IF j = 0 THEN start ELSE Made(j, h[j - 1])]
    <3> HIDE DEF Made, start
    <3>1. QED BY <2>3
  <2>5. IsLoop(h, k, items)
    BY <2>4 DEF IsLoop
  <2>6. QED BY <1>2, <2>5
<1>5. QED BY <1>3, <1>4

LEMMA TraverseLoop ==
    ASSUME NEW items, Len(items) \in Nat
    PROVE  \E r : IsLoop(r, Len(items), items) /\ Traverse(items) = r[Len(items)]
<1> DEFINE r == CHOOSE x : IsLoop(x, Len(items), items)
<1>1. IsLoop(r, Len(items), items)
  BY LoopExists
<1>2. Traverse(items) = r[Len(items)]
  BY Zenon DEF Traverse, IsLoop
<1>3. QED BY <1>1, <1>2

LEMMA LoopTurns ==
    ASSUME NEW r, NEW n \in Nat, NEW items, IsLoop(r, n, items)
    PROVE  /\ r[0] = Terminal(Success(0))
           /\ \A i \in 1 .. n :
                 r[i] = FlatMapped(r[i - 1], StepCall(i), Visited(items[i], i))
BY DEF IsLoop

LEMMA FlatMappedParts ==
    ASSUME NEW source, NEW id, NEW next, FlatMapped(source, id, next) \in Effects
    PROVE  source \in Effects /\ id \in Ids /\ next \in Callbacks
<1>1. PICK t \in Effects : t = FlatMapped(source, id, next)
  OBVIOUS
<1>2. /\ t.op = "continue" /\ t.source = source
      /\ t.frame.kind = "flat_map" /\ t.frame.id = id /\ t.frame.next = next
  BY <1>1 DEF FlatMapped
<1>3. t.source \in Effects /\ t.frame \in Frames
  BY <1>2, Parts
<1>4. UserFrame(t.frame)
  BY <1>2, EffectsAssumption
<1>5. id \in Ids
  BY <1>2, <1>3, FrameFacts
<1>6. QED BY <1>2, <1>3, <1>4, <1>5 DEF UserFrame

(* Every turn's program is a part of the last one's.                       *)
LEMMA LoopEffects ==
    ASSUME NEW r, NEW n \in Nat, NEW items, IsLoop(r, n, items), r[n] \in Effects
    PROVE  \A i \in 0 .. n : r[i] \in Effects
<1> DEFINE Bad == {k \in 0 .. n : r[n - k] \notin Effects}
<1>1. ASSUME Bad # {}
      PROVE  FALSE
  <2>1. Bad \in SUBSET Nat
    OBVIOUS
  <2>2. PICK k \in Bad : \A j \in Bad : k <= j
    BY <1>1, <2>1, LeastNumber
  <2>3. k # 0
    BY <2>2
  <2>4. k - 1 \in 0 .. n /\ k - 1 \notin Bad
    BY <2>2, <2>3
  <2>5. PICK i \in 1 .. n : i = n - (k - 1)
    BY <2>3
  <2>6. r[i] \in Effects /\ i - 1 = n - k
    BY <2>4, <2>5
  <2>7. r[i] = FlatMapped(r[i - 1], StepCall(i), Visited(items[i], i))
    BY LoopTurns
  <2>8. r[i - 1] \in Effects
    BY <2>6, <2>7, FlatMappedParts
  <2>9. QED BY <2>2, <2>6, <2>8
<1>2. ASSUME NEW i \in 0 .. n
      PROVE  r[i] \in Effects
  <2>1. n - i \in 0 .. n /\ n - (n - i) = i
    OBVIOUS
  <2>2. QED BY <1>1, <2>1
<1>3. QED BY <1>2

LEMMA ConcatenationFacts ==
    ASSUME NEW S, NEW s \in Seq(S), NEW u \in Seq(S)
    PROVE  /\ s \o u \in Seq(S) /\ Len(s \o u) = Len(s) + Len(u)
           /\ Len(s) \in Nat /\ Len(u) \in Nat
           /\ \A i \in 1 .. Len(s) : (s \o u)[i] = s[i]
           /\ \A i \in 1 .. Len(u) : (s \o u)[Len(s) + i] = u[i]
OBVIOUS

LEMMA TwoConcatenated ==
    ASSUME NEW s \in Seq(Events), NEW u \in Seq(Events), Len(s) = 1, Len(u) = 1
    PROVE  /\ s \o u \in Seq(Events) /\ Len(s \o u) = 2
           /\ (s \o u)[1] = s[1] /\ (s \o u)[2] = u[1]
BY ConcatenationFacts

LEMMA ThreeConcatenated ==
    ASSUME NEW s \in Seq(Events), NEW u \in Seq(Events), Len(s) = 1, Len(u) = 2
    PROVE  /\ Len(s \o u) = 3 /\ (s \o u)[1] = s[1]
           /\ (s \o u)[2] = u[1] /\ (s \o u)[3] = u[2]
<1>1. PICK w : w = s \o u
  OBVIOUS
<1>2. Len(w) = Len(s) + Len(u) /\ \A i \in 1 .. Len(u) : w[Len(s) + i] = u[i]
  BY <1>1, ConcatenationFacts
<1>3. \A i \in 1 .. Len(s) : w[i] = s[i]
  BY <1>1, ConcatenationFacts
<1>4. Len(w) = 3 /\ w[1] = s[1] /\ w[2] = u[1] /\ w[3] = u[2]
  BY <1>2, <1>3
<1>5. QED BY <1>1, <1>4

LEMMA OneCall ==
    ASSUME NEW id \in Ids
    PROVE  /\ <<<<"call", id>>>> \in Seq(Events) /\ Len(<<<<"call", id>>>>) = 1
           /\ <<<<"call", id>>>>[1] = <<"call", id>>
BY OneEventSequence

LEMMA FlatMappedMeaning ==
    ASSUME NEW source, NEW id, NEW next, FlatMapped(source, id, next) \in Effects
    PROVE  /\ IsMeaning(Denote[source]) /\ IsMeaning(Call(Denote, next, id))
           /\ Denote[FlatMapped(source, id, next)] =
                 IF Denote[source].out.kind = "success"
                 THEN After(Denote[source].events, Call(Denote, next, id))
                 ELSE Denote[source]
<1>1. PICK t \in Effects : t = FlatMapped(source, id, next)
  OBVIOUS
<1>2. PICK frame : frame = t.frame
  OBVIOUS
<1>3. /\ t.op = "continue" /\ t.source = source
      /\ frame.kind = "flat_map" /\ frame.id = id /\ frame.next = next
  BY <1>1, <1>2 DEF FlatMapped
<1>4. frame \in Frames
  BY <1>2, <1>3, Parts
<1>5. PICK m : m = Denote[source]
  OBVIOUS
<1>6. source \in Effects /\ id \in Ids /\ IsMeaning(m)
  BY <1>5, FlatMappedParts, DenoteType
<1>7. IsMeaning(Handle(Denote, frame, m.out)) /\ IsMeaning(Through(Denote, frame, m))
  BY <1>4, <1>6, CalledBackType, HandleType, ThroughType
<1>8. Denote[t] = Through(Denote, frame, m)
  <2>1. Entering(frame) = <<>>
    BY <1>3 DEF Entering
  <2>2. Denote[t] = After(<<>>, Through(Denote, frame, m))
    BY <1>2, <1>3, <1>5, <2>1, DenoteType DEF MeaningOf
  <2>3. <<>> \in Seq(Events)
    OBVIOUS
  <2>4. QED BY <1>7, <2>2, <2>3, AfterFacts
<1>9. IsMeaning(Call(Denote, next, id))
  <2>1. next \in CalledBack(frame)
    BY <1>3 DEF CalledBack
  <2>2. next.op # "throws" => IsMeaning(Denote[next])
    BY <1>4, <2>1, CalledBackType
  <2>3. QED BY <1>6, <2>2, CallType
<1>10. CASE m.out.kind = "success"
  <2>1. Handle(Denote, frame, m.out) = Call(Denote, next, id)
    BY <1>3, <1>10 DEF Handle
  <2>2. QED BY <1>1, <1>5, <1>6, <1>8, <1>9, <1>10, <2>1 DEF Through
<1>11. CASE m.out.kind # "success"
  <2>1. Handle(Denote, frame, m.out) = Meaning(m.out, <<>>)
    BY <1>3, <1>11 DEF Handle
  <2>2. m.events \in Seq(Events)
    BY <1>6 DEF IsMeaning
  <2>3. After(m.events, Meaning(m.out, <<>>)) = m
    BY <1>6, <2>2, AfterFacts DEF IsMeaning
  <2>4. QED BY <1>1, <1>5, <1>6, <1>8, <1>9, <1>11, <2>1, <2>3 DEF Through
<1>12. QED BY <1>10, <1>11

(* What the callback for item i comes to.                                  *)
VisitComesTo(m, item, i) ==
    /\ m.events[1] = <<"call", StepCall(i)>>
    /\ item = "refuses" => Len(m.events) = 1 /\ m.out = Defect(StepCall(i))
    /\ item # "refuses" => m.events[2] = <<"call", i>>
    /\ item \in {"failure", "throws"} =>
          Len(m.events) = 2 /\ m.out = Evaluated(item, i)
    /\ item = "success" =>
          /\ Len(m.events) = 3 /\ m.events[3] = <<"call", AppendCall(i)>>
          /\ m.out.kind = "success"

LEMMA VisitMeaning ==
    ASSUME NEW source, NEW item \in Items, NEW i \in Nat,
           FlatMapped(source, StepCall(i), Visited(item, i)) \in Effects,
           NEW m, m = Call(Denote, Visited(item, i), StepCall(i))
    PROVE  VisitComesTo(m, item, i)
<1>1. PICK visit : visit = Visited(item, i)
  OBVIOUS
<1>2. PICK step \in Ids : step = StepCall(i)
  BY FlatMappedParts
<1>3. PICK c \in Seq(Events) : c = <<<<"call", step>>>>
  BY OneCall
<1>4. Len(c) = 1 /\ c[1] = <<"call", step>>
  BY <1>3, OneCall
<1>5. visit \in Callbacks
  BY <1>1, FlatMappedParts
<1>6. CASE item = "refuses"
  <2>1. visit.op = "throws"
    BY <1>1, <1>6 DEF Visited
  <2>2. m = Meaning(Defect(step), c)
    BY <1>1, <1>2, <1>3, <2>1 DEF Call
  <2>3. m.out = Defect(step) /\ m.events = c
    BY <2>2 DEF Meaning
  <2>4. QED BY <1>2, <1>4, <1>6, <2>3 DEF VisitComesTo
<1>7. CASE item # "refuses"
  <2>1. PICK effect : effect = Effect(item, i)
    OBVIOUS
  <2>2. PICK end : end = Terminal(Success(AppendCall(i)))
    OBVIOUS
  <2>3. PICK append : append = AppendCall(i)
    OBVIOUS
  <2>4. visit = FlatMapped(effect, append, end)
    BY <1>1, <1>7, <2>1, <2>2, <2>3 DEF Visited
  <2>5. visit.op # "throws" /\ visit \in Effects
    <3>1. visit.op = "continue"
      BY <2>4 DEF FlatMapped
    <3>2. QED BY <1>5, <3>1 DEF Callbacks
  <2>6. effect \in Effects /\ append \in Ids /\ end \in Callbacks
    BY <2>4, <2>5, FlatMappedParts
  <2>7. /\ effect.op = "eval" /\ effect.id = i /\ effect.run = item
        /\ end.op = "outcome" /\ end.outcome = Success(append)
    BY <2>1, <2>2, <2>3 DEF Effect, Terminal
  <2>8. i \in Ids
    BY <2>6, <2>7, Parts
  <2>9. PICK b \in Seq(Events) : b = <<<<"call", i>>>>
    BY <2>8, OneCall
  <2>10. Len(b) = 1 /\ b[1] = <<"call", i>>
    BY <2>8, <2>9, OneCall
  <2>11. Denote[effect] = Meaning(Evaluated(item, i), b)
    BY <2>6, <2>7, <2>9, DenoteType DEF MeaningOf
  <2>12. Denote[effect].out = Evaluated(item, i) /\ Denote[effect].events = b
    BY <2>11 DEF Meaning
  <2>13. /\ m = After(c, Denote[visit]) /\ IsMeaning(Denote[visit])
         /\ m.out = Denote[visit].out /\ m.events = c \o Denote[visit].events
    <3>1. m = After(c, Denote[visit]) /\ IsMeaning(Denote[visit])
      BY <1>1, <1>2, <1>3, <2>5, DenoteType DEF Call
    <3>2. PICK d : d = Denote[visit]
      OBVIOUS
    <3>3. After(c, d).out = d.out /\ After(c, d).events = c \o d.events
      BY <3>1, <3>2, AfterFacts
    <3>4. QED BY <3>1, <3>2, <3>3
  <2>14. CASE item \in {"failure", "throws"}
    <3>1. Evaluated(item, i).kind # "success"
      BY <2>14 DEF Evaluated
    <3>2. Denote[visit] = Denote[effect]
      BY <2>4, <2>5, <2>12, <3>1, FlatMappedMeaning
    <3>3. m.out = Evaluated(item, i) /\ m.events = c \o b
      BY <2>12, <2>13, <3>2
    <3>4. Len(c \o b) = 2 /\ (c \o b)[1] = c[1] /\ (c \o b)[2] = b[1]
      BY <1>4, <2>10, TwoConcatenated
    <3>5. QED BY <1>2, <1>4, <2>10, <2>14, <3>3, <3>4 DEF VisitComesTo
  <2>15. CASE item = "success"
    <3>1. Evaluated(item, i).kind = "success"
      BY <2>15 DEF Evaluated
    <3>2. PICK a \in Seq(Events) : a = <<<<"call", append>>>>
      BY <2>6, OneCall
    <3>3. Len(a) = 1 /\ a[1] = <<"call", append>>
      BY <2>6, <3>2, OneCall
    <3>4. end.op # "throws" /\ end \in Effects
      BY <2>6, <2>7 DEF Callbacks
    <3>5. Denote[end] = Meaning(Success(append), <<>>)
      BY <2>7, <3>4, DenoteType DEF MeaningOf
    <3>6. Call(Denote, end, append) = Meaning(Success(append), a)
      <4>1. Call(Denote, end, append) = After(a, Meaning(Success(append), <<>>))
        BY <3>2, <3>4, <3>5 DEF Call
      <4>2. IsMeaning(Meaning(Success(append), a)) /\ Meaning(Success(append), a).out = Success(append)
        BY MeaningFields
      <4>3. After(a, Meaning(Success(append), <<>>)) = Meaning(Success(append), a)
        BY <4>2, AfterFacts
      <4>4. QED BY <4>1, <4>3
    <3>7. Denote[visit] = After(b, Meaning(Success(append), a))
      BY <2>4, <2>5, <2>12, <3>1, <3>6, FlatMappedMeaning
    <3>8. Denote[visit].out = Success(append) /\ Denote[visit].events = b \o a
      BY <3>7 DEF After, Meaning
    <3>9. m.out = Success(append) /\ m.events = c \o (b \o a)
      BY <2>13, <3>8
    <3>10. PICK ba \in Seq(Events) : ba = b \o a
      BY <2>10, <3>3, TwoConcatenated
    <3>11. Len(ba) = 2 /\ ba[1] = b[1] /\ ba[2] = a[1]
      BY <2>10, <3>3, <3>10, TwoConcatenated
    <3>12. Len(c \o ba) = 3 /\ (c \o ba)[1] = c[1] /\ (c \o ba)[2] = ba[1] /\ (c \o ba)[3] = ba[2]
      BY <1>4, <3>11, ThreeConcatenated
    <3>13. m.out.kind = "success"
      BY <3>9 DEF Success
    <3>14. QED BY <1>2, <1>4, <2>3, <2>10, <2>15, <3>3, <3>9, <3>10, <3>11, <3>12, <3>13
              DEF VisitComesTo
  <2>16. QED BY <1>7, <2>14, <2>15 DEF Items
<1>8. QED BY <1>6, <1>7

-----------------------------------------------------------------------------
(* A traversal turn by turn.                                               *)

(* What n turns of the loop come to.                                       *)
Traversed(items, n, m) ==
    \/ Completed(items, n, m)
    \/ \E last \in 1 .. n : StoppedAt(items, last, m)

LEMMA RoundsExtended ==
    ASSUME NEW s \in Seq(Events), NEW u \in Seq(Events), NEW k \in Nat,
           Len(s) = 3 * k, Rounds(s, k)
    PROVE  /\ Rounds(s \o u, k) /\ Len(s \o u) = 3 * k + Len(u)
           /\ \A j \in 1 .. Len(u) : (s \o u)[3 * k + j] = u[j]
<1>1. PICK w : w = s \o u
  OBVIOUS
<1>2. /\ Len(w) = Len(s) + Len(u) /\ \A j \in 1 .. Len(u) : w[Len(s) + j] = u[j]
      /\ \A i \in 1 .. Len(s) : w[i] = s[i]
  <2>1. \A x, y \in Seq(Events) :
           /\ Len(x \o y) = Len(x) + Len(y)
           /\ \A i \in 1 .. Len(x) : (x \o y)[i] = x[i]
           /\ \A j \in 1 .. Len(y) : (x \o y)[Len(x) + j] = y[j]
    BY ConcatenationFacts
  <2>2. QED BY <1>1, <2>1, Zenon
<1>3. /\ Len(w) = 3 * k + Len(u) /\ \A j \in 1 .. Len(u) : w[3 * k + j] = u[j]
      /\ \A i \in 1 .. 3 * k : w[i] = s[i]
  BY <1>2, Zenon
<1>4. ASSUME NEW i \in 1 .. k
      PROVE  w[3 * i - 2] = s[3 * i - 2] /\ w[3 * i - 1] = s[3 * i - 1] /\ w[3 * i] = s[3 * i]
  <2>1. 3 * i - 2 \in 1 .. 3 * k /\ 3 * i - 1 \in 1 .. 3 * k /\ 3 * i \in 1 .. 3 * k
    OBVIOUS
  <2>2. QED BY <1>3, <2>1
<1>5. Rounds(w, k)
  BY <1>4 DEF Rounds
<1>6. QED BY <1>1, <1>3, <1>5

LEMMA StoppedFails ==
    ASSUME NEW items, NEW last, NEW m, StoppedAt(items, last, m)
    PROVE  m.out.kind # "success"
BY DEF StoppedAt, Evaluated, Defect

LEMMA TurnTraverses ==
    ASSUME NEW items, NEW k \in Nat, items[k + 1] \in Items, NEW source,
           FlatMapped(source, StepCall(k + 1), Visited(items[k + 1], k + 1)) \in Effects,
           Traversed(items, k, Denote[source])
    PROVE  Traversed(items, k + 1,
               Denote[FlatMapped(source, StepCall(k + 1), Visited(items[k + 1], k + 1))])
<1>1. PICK i \in Nat : i = k + 1
  OBVIOUS
<1>2. PICK item \in Items : item = items[i]
  BY <1>1
<1>3. PICK t \in Effects : t = FlatMapped(source, StepCall(i), Visited(item, i))
  BY <1>1, <1>2
<1>4. PICK before : before = Denote[source]
  OBVIOUS
<1>5. PICK m : m = Call(Denote, Visited(item, i), StepCall(i))
  OBVIOUS
<1>6. /\ IsMeaning(before) /\ IsMeaning(m)
      /\ Denote[t] = IF before.out.kind = "success" THEN After(before.events, m) ELSE before
  BY <1>3, <1>4, <1>5, FlatMappedMeaning
<1>7. CASE \E last \in 1 .. k : StoppedAt(items, last, before)
  <2>1. PICK last \in 1 .. k : StoppedAt(items, last, before)
    BY <1>7
  <2>2. Denote[t] = before
    BY <1>6, <2>1, StoppedFails
  <2>3. last \in 1 .. i
    BY <1>1
  <2>4. Traversed(items, i, Denote[t])
    BY <2>1, <2>2, <2>3 DEF Traversed
  <2>5. QED BY <1>1, <1>2, <1>3, <2>4
<1>8. CASE Completed(items, k, before)
  <2>1. PICK s \in Seq(Events) : s = before.events
    BY <1>6 DEF IsMeaning
  <2>2. PICK u \in Seq(Events) : u = m.events
    BY <1>6 DEF IsMeaning
  <2>3. PICK w : w = s \o u
    OBVIOUS
  <2>4. PICK whole : whole = Denote[t]
    OBVIOUS
  <2>5. whole.out = m.out /\ whole.events = w
    <3>1. whole = After(s, m)
      BY <1>6, <1>8, <2>1, <2>4 DEF Completed
    <3>2. QED BY <1>6, <2>2, <2>3, <3>1, AfterFacts
  <2>6. Len(s) = 3 * k /\ Rounds(s, k) /\ AllSucceed(items, k)
    BY <1>8, <2>1 DEF Completed
  <2>7. /\ Rounds(w, k) /\ Len(w) = 3 * k + Len(u)
        /\ \A j \in 1 .. Len(u) : w[3 * k + j] = u[j]
    BY <2>3, <2>6, RoundsExtended
  <2>8. /\ u[1] = <<"call", StepCall(i)>>
        /\ item = "refuses" => Len(u) = 1 /\ m.out = Defect(StepCall(i))
        /\ item # "refuses" => u[2] = <<"call", i>>
        /\ item \in {"failure", "throws"} => Len(u) = 2 /\ m.out = Evaluated(item, i)
        /\ item = "success" =>
              Len(u) = 3 /\ u[3] = <<"call", AppendCall(i)>> /\ m.out.kind = "success"
    <3>1. VisitComesTo(m, item, i)
      BY <1>3, <1>5, VisitMeaning
    <3>2. QED BY <2>2, <3>1 DEF VisitComesTo
  <2>9. /\ 3 * i - 2 = 3 * k + 1 /\ 3 * i - 1 = 3 * k + 2 /\ 3 * i = 3 * k + 3
        /\ i - 1 = k /\ i \in 1 .. i
    BY <1>1
  <2>10. w[3 * i - 2] = u[1]
    <3>1. 1 \in 1 .. Len(u)
      BY <2>8 DEF Items
    <3>2. QED BY <2>7, <2>9, <3>1
  <2>11. CASE item = "success"
    <3>1. Len(u) = 3 /\ w[3 * i - 1] = u[2] /\ w[3 * i] = u[3] /\ Len(w) = 3 * i
      <4>1. Len(u) = 3 /\ 2 \in 1 .. 3 /\ 3 \in 1 .. 3
        BY <2>8, <2>11
      <4>2. QED BY <2>7, <2>9, <4>1
    <3>2. AllSucceed(items, i)
      <4>1. \A j \in 1 .. i : j = i \/ j \in 1 .. k
        BY <1>1
      <4>2. QED BY <1>2, <2>6, <2>11, <4>1 DEF AllSucceed
    <3>3. Rounds(w, i)
      <4>1. ASSUME NEW j \in 1 .. i
            PROVE  /\ w[3 * j - 2] = <<"call", StepCall(j)>>
                   /\ w[3 * j - 1] = <<"call", j>> /\ w[3 * j] = <<"call", AppendCall(j)>>
        <5>1. CASE j = i
          BY <2>8, <2>10, <2>11, <3>1, <5>1
        <5>2. CASE j # i
          <6>1. j \in 1 .. k
            BY <1>1, <5>2
          <6>2. QED BY <2>7, <6>1 DEF Rounds
        <5>3. QED BY <5>1, <5>2
      <4>2. QED BY <4>1 DEF Rounds
    <3>4. Completed(items, i, whole)
      BY <2>5, <2>8, <2>11, <3>1, <3>2, <3>3 DEF Completed
    <3>5. QED BY <1>1, <1>2, <1>3, <2>4, <3>4 DEF Traversed
  <2>12. CASE item # "success"
    <3>1. StoppedAt(items, i, whole)
      <4>1. CASE item = "refuses"
        <5>1. Len(w) = 3 * i - 2
          BY <2>7, <2>8, <2>9, <4>1
        <5>2. QED BY <1>2, <2>5, <2>6, <2>7, <2>8, <2>9, <2>10, <4>1, <5>1 DEF StoppedAt
      <4>2. CASE item \in {"failure", "throws"}
        <5>1. Len(u) = 2 /\ 2 \in 1 .. 2
          BY <2>8, <4>2
        <5>2. Len(w) = 3 * i - 1 /\ w[3 * i - 1] = u[2]
          BY <2>7, <2>9, <5>1
        <5>3. QED BY <1>2, <2>5, <2>6, <2>7, <2>8, <2>9, <2>10, <4>2, <5>2 DEF StoppedAt
      <4>3. QED BY <2>12, <4>1, <4>2 DEF Items
    <3>2. QED BY <1>1, <1>2, <1>3, <2>4, <2>9, <3>1 DEF Traversed
  <2>13. QED BY <2>11, <2>12
<1>9. QED BY <1>4, <1>7, <1>8 DEF Traversed

LEMMA TraverseMeaning ==
    ASSUME NEW items \in Seq(Items), Traverse(items) \in Effects
    PROVE  Traversed(items, Len(items), Denote[Traverse(items)])
<1>1. PICK n \in Nat : n = Len(items)
  OBVIOUS
<1>2. PICK r : IsLoop(r, n, items) /\ Traverse(items) = r[n]
  BY <1>1, TraverseLoop
<1>3. \A i \in 0 .. n : r[i] \in Effects
  BY <1>2, LoopEffects
<1> DEFINE Bad == {k \in 0 .. n : ~Traversed(items, k, Denote[r[k]])}
<1>4. ASSUME Bad # {}
      PROVE  FALSE
  <2>1. Bad \in SUBSET Nat
    OBVIOUS
  <2>2. PICK k \in Bad : \A j \in Bad : k <= j
    BY <1>4, <2>1, LeastNumber
  <2>3. CASE k = 0
    <3>1. r[0] = Terminal(Success(0)) /\ r[0] \in Effects
      BY <1>2, <1>3, LoopTurns
    <3>2. r[0].op = "outcome" /\ r[0].outcome = Success(0)
      BY <3>1 DEF Terminal
    <3>3. Denote[r[0]] = Meaning(Success(0), <<>>)
      BY <3>1, <3>2, DenoteType DEF MeaningOf
    <3>4. Completed(items, 0, Meaning(Success(0), <<>>))
      BY DEF Completed, AllSucceed, Rounds, Meaning, Success
    <3>5. QED BY <2>2, <2>3, <3>3, <3>4 DEF Traversed
  <2>4. CASE k # 0
    <3>1. PICK j \in Nat : j = k - 1 /\ j + 1 = k /\ j \in 0 .. n /\ k \in 1 .. n
      BY <2>4
    <3>2. Traversed(items, j, Denote[r[j]])
      BY <2>2, <3>1
    <3>3. r[k] = FlatMapped(r[j], StepCall(k), Visited(items[k], k)) /\ r[k] \in Effects
      BY <1>2, <1>3, <3>1, LoopTurns
    <3>4. items[k] \in Items
      BY <1>1, <3>1
    <3>5. PICK source : source = r[j]
      OBVIOUS
    <3>6. Traversed(items, j + 1,
              Denote[FlatMapped(source, StepCall(j + 1), Visited(items[j + 1], j + 1))])
      BY <3>1, <3>2, <3>3, <3>4, <3>5, TurnTraverses
    <3>7. QED BY <2>2, <3>1, <3>3, <3>5, <3>6
  <2>5. QED BY <2>3, <2>4
<1>5. n \in 0 .. n
  OBVIOUS
<1>6. Traversed(items, n, Denote[r[n]])
  BY <1>4, <1>5
<1>7. QED BY <1>1, <1>2, <1>6

LEMMA ProgramStays == Spec => [](program \in Effects)
<1>1. Init => program \in Effects
  BY EffectsAssumption DEF Init
<1>2. Next => program' = program
  BY DEF Next, MovedFrom, Descend, DescendFails, Suspended, Eval, Constant, ResumeFlatMap,
     ResumeBimap, ResumeCatchAll, ResumeEnsuring, ResumeRelease, ResumeBracket, Return, RunExit,
     Deliver, Continue, Throw, ThrowFault, Unwind, PassOn, Invoke, Transform
<1>3. program \in Effects /\ [Next]_vars => (program \in Effects)'
  BY <1>2 DEF vars
<1>4. QED BY <1>1, <1>3, PTL DEF Spec

(* Whatever the items are, traverse calls its step for them in their order *)
(* up to the first that does not succeed, runs each effect before the next *)
(* call, and ends as that item's effect or step did, or with success.      *)
THEOREM TraverseKeepsOrder == Spec => []TraverseInOrder
<1>1. ASSUME program \in Effects, Denote[program] = Meaning(outcome, trace),
             NEW items \in ItemLists, program = Traverse(items)
      PROVE  \/ Completed(items, Len(items), Meaning(outcome, trace))
             \/ \E last \in DOMAIN items : StoppedAt(items, last, Meaning(outcome, trace))
  <2>1. items \in Seq(Items)
    BY ItemsAssumption
  <2>2. Traversed(items, Len(items), Denote[program])
    BY <1>1, <2>1, TraverseMeaning
  <2>3. DOMAIN items = 1 .. Len(items)
    BY <2>1
  <2>4. QED BY <1>1, <2>2, <2>3 DEF Traversed
<1>2. program \in Effects
      /\ (pc = "exited" /\ faults = {} => Denote[program] = Meaning(outcome, trace))
         => TraverseInOrder
  BY <1>1 DEF TraverseInOrder
<1>3. QED BY <1>2, ProgramStays, RunExitAnswersMeaning, PTL

-----------------------------------------------------------------------------
(* How long evaluate's loop can run.  A function of the turn and the value *)
(* so far, applied n times from zero.                                      *)

IsIteration(h, n, g) ==
    h = [k \in 0 .. n |-> IF k = 0 THEN 0 ELSE g[k][h[k - 1]]]

Iterated(g, n) == (CHOOSE h : IsIteration(h, n, g))[n]

LEMMA IterationExists ==
    ASSUME NEW g, NEW n \in Nat
    PROVE  \E h : IsIteration(h, n, g)
<1> DEFINE Bad == {k \in Nat : ~ \E h : IsIteration(h, k, g)}
<1>1. SUFFICES ASSUME Bad # {}
               PROVE  FALSE
  OBVIOUS
<1>2. PICK k \in Bad : \A m \in Bad : k <= m
  BY <1>1, LeastNumber
<1>3. CASE k = 0
  <2>1. IsIteration([j \in 0 .. 0 |-> 0], 0, g)
    BY DEF IsIteration
  <2>2. QED BY <1>2, <1>3, <2>1
<1>4. CASE k # 0
  <2>1. k - 1 \in Nat /\ k - 1 \notin Bad /\ k \in Nat
    BY <1>2, <1>4
  <2>2. PICK f : IsIteration(f, k - 1, g)
    BY <2>1
  <2> DEFINE h == [j \in 0 .. k |-> IF j = k THEN g[k][f[k - 1]] ELSE f[j]]
  <2>3. ASSUME NEW j \in 0 .. k
        PROVE  h[j] = IF j = 0 THEN 0 ELSE g[j][h[j - 1]]
    <3>1. \A i \in 0 .. k - 1 : f[i] = IF i = 0 THEN 0 ELSE g[i][f[i - 1]]
      BY <2>2 DEF IsIteration
    <3>2. CASE j = k
      <4>1. h[k] = g[k][f[k - 1]] /\ h[k - 1] = f[k - 1]
        BY <2>1
      <4>2. QED BY <1>4, <3>2, <4>1
    <3>3. CASE j # k
      <4>1. j \in 0 .. k - 1 /\ h[j] = f[j] /\ (j # 0 => h[j - 1] = f[j - 1])
        BY <2>1, <3>3
      <4>2. QED BY <3>1, <4>1
    <3>4. QED BY <3>2, <3>3
  <2>4. IsIteration(h, k, g)
    BY <2>3 DEF IsIteration
  <2>5. QED BY <1>2, <2>4
<1>5. QED BY <1>3, <1>4

(* What is reached after n turns depends on those turns only.              *)
LEMMA IteratedFacts ==
    ASSUME NEW n \in Nat, NEW g, NEW f,
           \A k \in 1 .. n : \A v \in Nat : g[k][v] \in Nat /\ f[k][v] = g[k][v]
    PROVE  /\ Iterated(g, n) \in Nat /\ Iterated(g, 0) = 0
           /\ Iterated(f, n + 1) = f[n + 1][Iterated(g, n)]
<1> DEFINE a == CHOOSE h : IsIteration(h, n, g)
           b == CHOOSE h : IsIteration(h, n + 1, f)
           z == CHOOSE h : IsIteration(h, 0, g)
<1>1. IsIteration(a, n, g) /\ IsIteration(b, n + 1, f) /\ IsIteration(z, 0, g)
  BY IterationExists
<1>2. Iterated(g, n) = a[n] /\ Iterated(f, n + 1) = b[n + 1] /\ Iterated(g, 0) = z[0]
  BY DEF Iterated
<1> HIDE DEF a, b, z
<1>3. /\ \A k \in 0 .. n : a[k] = IF k = 0 THEN 0 ELSE g[k][a[k - 1]]
      /\ \A k \in 0 .. n + 1 : b[k] = IF k = 0 THEN 0 ELSE f[k][b[k - 1]]
      /\ z[0] = 0
  BY <1>1 DEF IsIteration
<1> DEFINE Bad == {k \in 0 .. n : a[k] \notin Nat \/ a[k] # b[k]}
<1>4. Bad = {}
  <2>1. SUFFICES ASSUME Bad # {}
                 PROVE  FALSE
    OBVIOUS
  <2>2. PICK k \in Bad : \A j \in Bad : k <= j
    <3>1. Bad \in SUBSET Nat
      OBVIOUS
    <3>2. QED BY <2>1, <3>1, LeastNumber
  <2>3. k # 0
    BY <1>3
  <2>4. k - 1 \in 0 .. n /\ k - 1 \notin Bad /\ k \in 1 .. n
    BY <2>2, <2>3
  <2>5. a[k - 1] \in Nat /\ a[k - 1] = b[k - 1]
    BY <2>4
  <2>6. a[k] = g[k][a[k - 1]] /\ b[k] = f[k][b[k - 1]]
    BY <1>3, <2>3, <2>4
  <2>7. QED BY <2>4, <2>5, <2>6
<1>5. a[n] \in Nat /\ a[n] = b[n]
  <2>1. n \in 0 .. n
    OBVIOUS
  <2>2. QED BY <1>4, <2>1
<1>6. b[n + 1] = f[n + 1][b[n]]
  <2>1. n + 1 \in 0 .. n + 1 /\ n + 1 # 0 /\ (n + 1) - 1 = n
    OBVIOUS
  <2>2. QED BY <1>3, <2>1
<1>7. QED BY <1>2, <1>3, <1>5, <1>6

LEMMA NoIteration ==
    ASSUME NEW g
    PROVE  Iterated(g, 0) = 0
<1>1. \A k \in 1 .. 0 : \A v \in Nat : g[k][v] \in Nat /\ g[k][v] = g[k][v]
  OBVIOUS
<1>2. 0 \in Nat
  OBVIOUS
<1>3. QED BY <1>1, <1>2, IteratedFacts

(* Two parts of a node at most, and what their frame takes itself.         *)
Steps(height) == Iterated([k \in 1 .. height |-> [v \in Nat |-> 2 * v + 6]], height)

LEMMA StepsFacts ==
    ASSUME NEW n \in Nat
    PROVE  Steps(n) \in Nat /\ Steps(n + 1) = 2 * Steps(n) + 6
<1> DEFINE g == [k \in 1 .. n |-> [v \in Nat |-> 2 * v + 6]]
           f == [k \in 1 .. n + 1 |-> [v \in Nat |-> 2 * v + 6]]
<1>1. \A k \in 1 .. n : \A v \in Nat : g[k][v] \in Nat /\ f[k][v] = g[k][v]
  OBVIOUS
<1>2. \A v \in Nat : f[n + 1][v] = 2 * v + 6
  OBVIOUS
<1>3. Steps(n) = Iterated(g, n) /\ Steps(n + 1) = Iterated(f, n + 1)
  BY DEF Steps
<1> HIDE DEF f, g
<1>4. Iterated(g, n) \in Nat /\ Iterated(f, n + 1) = f[n + 1][Iterated(g, n)]
  BY <1>1, IteratedFacts
<1>5. QED BY <1>2, <1>3, <1>4

LEMMA StepsGrow ==
    ASSUME NEW m \in Nat, NEW n \in Nat, m <= n
    PROVE  Steps(m) <= Steps(n)
<1> DEFINE Bad == {k \in Nat : m <= k /\ ~(Steps(m) <= Steps(k))}
<1>1. SUFFICES ASSUME Bad # {}
               PROVE  FALSE
  OBVIOUS
<1>2. PICK k \in Bad : \A j \in Bad : k <= j
  BY <1>1, LeastNumber
<1>3. k # m
  BY StepsFacts
<1>4. k - 1 \in Nat /\ m <= k - 1 /\ k - 1 \notin Bad
  BY <1>2, <1>3
<1>5. Steps(k - 1) \in Nat /\ Steps((k - 1) + 1) = 2 * Steps(k - 1) + 6 /\ (k - 1) + 1 = k
  BY <1>4, StepsFacts
<1>6. Steps(m) <= Steps(k - 1) /\ Steps(m) \in Nat
  BY <1>4, StepsFacts
<1>7. QED BY <1>5, <1>6

-----------------------------------------------------------------------------
(* How many steps evaluate can take for a callback's program, if it makes  *)
(* one, for a frame once an outcome reaches it, and for a node.            *)

Cost(t) == IF t.op = "throws" THEN 2 ELSE Steps(Height[t] + 1)

FrameCost(frame) ==
    CASE frame.kind = "flat_map" -> 3 + Cost(frame.next)
      [] frame.kind = "catch_all" -> 3 + Cost(frame.recover)
      [] frame.kind = "bracket" -> 3 + Cost(frame.use)
      [] OTHER -> 2

NodeCost(t) ==
    CASE t.op = "suspend" -> 1 + Cost(t.next)
      [] t.op = "continue" ->
            1 + FrameCost(t.frame)
              + (IF t.frame.kind = "release" THEN 1 + Cost(t.source.next) ELSE Cost(t.source))
      [] OTHER -> 3

PendingCost(frames) ==
    Iterated([k \in 1 .. Len(frames) |-> [v \in Nat |-> v + FrameCost(frames[k])]], Len(frames))

StepsLeft ==
    CASE pc = "step" -> PendingCost(continuations) + NodeCost(current)
      [] pc = "deliver" -> PendingCost(continuations) + 2
      [] pc = "returned" -> 1
      [] pc = "exited" -> 0

LEMMA CostType ==
    ASSUME NEW t \in Callbacks
    PROVE  Cost(t) \in Nat /\ (t.op # "throws" => t \in Effects /\ Height[t] \in Nat)
<1>1. CASE t.op = "throws"
  BY <1>1 DEF Cost
<1>2. CASE t.op # "throws"
  <2>1. t \in Effects /\ Height[t] \in Nat
    <3>1. [op |-> "throws"].op = "throws"
      OBVIOUS
    <3>2. QED BY <1>2, <3>1, HeightAssumption DEF Callbacks
  <2>2. Height[t] + 1 \in Nat
    BY <2>1
  <2>3. QED BY <1>2, <2>1, <2>2, StepsFacts DEF Cost
<1>3. QED BY <1>1, <1>2

LEMMA FrameCostType ==
    ASSUME NEW f \in Frames
    PROVE  FrameCost(f) \in Nat /\ FrameCost(f) >= 2
<1>1. CASE f.kind = "flat_map"
  <2>1. f.next \in Callbacks
    BY <1>1, FrameFacts DEF UserFrame
  <2>2. QED BY <1>1, <2>1, CostType DEF FrameCost
<1>2. CASE f.kind = "catch_all"
  <2>1. f.recover \in Callbacks
    BY <1>2, FrameFacts DEF UserFrame
  <2>2. QED BY <1>2, <2>1, CostType DEF FrameCost
<1>3. CASE f.kind = "bracket"
  <2>1. f.use \in Callbacks
    BY <1>3, FrameFacts DEF UserFrame
  <2>2. QED BY <1>3, <2>1, CostType DEF FrameCost
<1>4. CASE f.kind \notin {"flat_map", "catch_all", "bracket"}
  BY <1>4 DEF FrameCost
<1>5. QED BY <1>1, <1>2, <1>3, <1>4

(* A part of a program takes less than half of what the whole may take.    *)
LEMMA PartCost ==
    ASSUME NEW t \in Effects, NEW p \in Callbacks, p.op # "throws" => p \in PartsOf(t)
    PROVE  /\ Cost(t) \in Nat /\ Cost(p) \in Nat
           /\ p.op # "throws" => Cost(t) >= 2 * Cost(p) + 6
           /\ Cost(t) >= 6 /\ Cost(p) >= 2
<1>1. PICK h \in Nat : h = Height[t]
  BY HeightAssumption
<1>2. t.op # "throws"
  BY Parts
<1>3. Cost(t) = Steps(h + 1)
  BY <1>1, <1>2 DEF Cost
<1>4. Steps(h) \in Nat /\ Steps(h + 1) = 2 * Steps(h) + 6
  BY StepsFacts
<1>5. CASE p.op = "throws"
  BY <1>3, <1>4, <1>5 DEF Cost
<1>6. CASE p.op # "throws"
  <2>1. p \in Effects /\ Height[p] \in Nat /\ Height[p] < h
    BY <1>1, <1>6, Parts, HeightAssumption
  <2>2. PICK j \in Nat : j = Height[p] + 1
    BY <2>1
  <2>3. j <= h /\ Cost(p) = Steps(j)
    BY <1>6, <2>1, <2>2 DEF Cost
  <2>4. Steps(j) <= Steps(h) /\ Steps(j) \in Nat
    BY <2>3, StepsGrow, StepsFacts
  <2>5. PICK i \in Nat : i = Height[p]
    BY <2>1
  <2>6. Steps(i + 1) = 2 * Steps(i) + 6 /\ Steps(i) \in Nat /\ i + 1 = j
    BY <2>2, <2>5, StepsFacts
  <2>7. Steps(j) >= 2
    BY <2>6
  <2>8. QED BY <1>3, <1>4, <1>6, <2>3, <2>4, <2>7
<1>7. QED BY <1>5, <1>6

LEMMA NodeCostOfEffect ==
    ASSUME NEW t \in Effects
    PROVE  NodeCost(t) \in Nat /\ 3 <= NodeCost(t) /\ NodeCost(t) <= Cost(t)
<1>0. Cost(t) \in Nat /\ Cost(t) >= 6
  <2>1. [op |-> "throws"] \in Callbacks /\ [op |-> "throws"].op = "throws"
    BY DEF Callbacks
  <2>2. QED BY <2>1, PartCost
<1>1. CASE t.op = "suspend"
  <2>1. t.next \in Callbacks /\ (t.next.op # "throws" => t.next \in PartsOf(t))
    BY <1>1, Parts
  <2>2. /\ Cost(t.next) \in Nat /\ Cost(t.next) >= 2
        /\ t.next.op # "throws" => Cost(t) >= 2 * Cost(t.next) + 6
    BY <2>1, PartCost
  <2>3. t.next.op = "throws" => Cost(t.next) = 2
    BY DEF Cost
  <2>4. NodeCost(t) = 1 + Cost(t.next)
    BY <1>1 DEF NodeCost
  <2>5. QED BY <1>0, <2>2, <2>3, <2>4
<1>2. CASE t.op = "continue"
  <2>1. /\ t.source \in PartsOf(t) /\ t.frame \in Frames /\ t.frame.kind # "release"
        /\ PartsOf(t) \subseteq Effects
        /\ \A p \in CalledBack(t.frame) : p.op # "throws" => p \in PartsOf(t)
    BY <1>2, Parts
  <2>2. t.source \in Callbacks /\ t.source.op # "throws"
    BY <2>1, Parts DEF Callbacks
  <2>3. PICK c \in Nat : c = Cost(t.source)
    BY <2>2, CostType
  <2>4. Cost(t) >= 2 * c + 6 /\ c >= 2
    BY <2>1, <2>2, <2>3, PartCost
  <2>5. PICK f \in Nat : f = FrameCost(t.frame) /\ f >= 2
    BY <2>1, FrameCostType
  <2>6. ASSUME NEW p \in Callbacks, p \in CalledBack(t.frame), f = 3 + Cost(p)
        PROVE  1 + f + c <= Cost(t)
    <3>1. CASE p.op = "throws"
      BY <1>0, <2>4, <2>6, <3>1 DEF Cost
    <3>2. CASE p.op # "throws"
      <4>1. Cost(t) >= 2 * Cost(p) + 6 /\ Cost(p) \in Nat
        BY <2>1, <2>6, <3>2, PartCost
      <4>2. QED BY <1>0, <2>4, <2>6, <4>1
    <3>3. QED BY <3>1, <3>2
  <2>7. 1 + f + c <= Cost(t)
    <3>1. UserFrame(t.frame)
      BY <2>1, FrameFacts
    <3>2. CASE t.frame.kind = "flat_map"
      <4>1. t.frame.next \in Callbacks /\ t.frame.next \in CalledBack(t.frame)
        BY <3>1, <3>2 DEF UserFrame, CalledBack
      <4>2. f = 3 + Cost(t.frame.next)
        BY <2>5, <3>2 DEF FrameCost
      <4>3. QED BY <2>6, <4>1, <4>2
    <3>3. CASE t.frame.kind = "catch_all"
      <4>1. t.frame.recover \in Callbacks /\ t.frame.recover \in CalledBack(t.frame)
        BY <3>1, <3>3 DEF UserFrame, CalledBack
      <4>2. f = 3 + Cost(t.frame.recover)
        BY <2>5, <3>3 DEF FrameCost
      <4>3. QED BY <2>6, <4>1, <4>2
    <3>4. CASE t.frame.kind = "bracket"
      <4>1. t.frame.use \in Callbacks /\ t.frame.use \in CalledBack(t.frame)
        BY <3>1, <3>4 DEF UserFrame, CalledBack
      <4>2. f = 3 + Cost(t.frame.use)
        BY <2>5, <3>4 DEF FrameCost
      <4>3. QED BY <2>6, <4>1, <4>2
    <3>5. CASE t.frame.kind \notin {"flat_map", "catch_all", "bracket"}
      <4>1. f = 2
        BY <2>5, <3>5 DEF FrameCost
      <4>2. QED BY <1>0, <2>4, <4>1
    <3>6. QED BY <3>2, <3>3, <3>4, <3>5
  <2>8. NodeCost(t) = 1 + f + c
    BY <1>2, <2>1, <2>3, <2>5 DEF NodeCost
  <2>9. QED BY <1>0, <2>5, <2>7, <2>8
<1>3. CASE t.op \notin {"suspend", "continue"}
  BY <1>0, <1>3 DEF NodeCost
<1>4. QED BY <1>1, <1>2, <1>3

LEMMA NodeCostType ==
    ASSUME NEW t, IsNode(t)
    PROVE  NodeCost(t) \in Nat /\ NodeCost(t) >= 3
<1>1. CASE t \in Effects
  BY <1>1, NodeCostOfEffect
<1>2. CASE t.op = "outcome"
  BY <1>2 DEF NodeCost
<1>3. CASE t.op = "suspend" /\ t.next \in Callbacks
  <2>1. Cost(t.next) \in Nat /\ Cost(t.next) >= 2
    <3>1. CASE t.next.op = "throws"
      BY <3>1 DEF Cost
    <3>2. CASE t.next.op # "throws"
      BY <1>3, <3>2, CostType, NodeCostOfEffect
    <3>3. QED BY <3>1, <3>2
  <2>2. QED BY <1>3, <2>1 DEF NodeCost
<1>4. CASE \E f \in Frames : f.kind = "bracket" /\ t = ProtectedUse(f)
  <2>1. PICK f \in Frames : f.kind = "bracket" /\ t = ProtectedUse(f)
    BY <1>4
  <2>2. f.use \in Callbacks
    BY <2>1, FrameFacts DEF UserFrame
  <2>3. /\ t.op = "continue" /\ t.frame.kind = "release"
        /\ t.source.next = f.use
    BY <2>1 DEF ProtectedUse
  <2>4. FrameCost(t.frame) = 2
    BY <2>3 DEF FrameCost
  <2>5. NodeCost(t) = 1 + FrameCost(t.frame) + (1 + Cost(f.use))
    BY <2>3 DEF NodeCost
  <2>6. QED BY <2>2, <2>4, <2>5, CostType
<1>5. QED BY <1>1, <1>2, <1>3, <1>4 DEF IsNode

(* The node of a bracket's protected use.                                  *)
LEMMA ProtectedCost ==
    ASSUME NEW f \in Frames, f.kind = "bracket"
    PROVE  NodeCost(ProtectedUse(f)) = 1 + FrameCost(f) /\ FrameCost(f) \in Nat
<1>1. PICK t : t = ProtectedUse(f)
  OBVIOUS
<1>2. /\ t.op = "continue" /\ t.frame.kind = "release"
      /\ t.source.next = f.use
  BY <1>1 DEF ProtectedUse
<1>3. FrameCost(t.frame) = 2
  BY <1>2 DEF FrameCost
<1>4. NodeCost(t) = 1 + FrameCost(t.frame) + (1 + Cost(f.use))
  BY <1>2 DEF NodeCost
<1>5. FrameCost(f) = 3 + Cost(f.use)
  BY DEF FrameCost
<1>6. Cost(f.use) \in Nat
  BY FrameFacts, CostType DEF UserFrame
<1>7. QED BY <1>1, <1>3, <1>4, <1>5, <1>6

LEMMA PendingCostFacts ==
    ASSUME NEW s \in Seq(Frames), NEW frame \in Frames
    PROVE  /\ PendingCost(<<>>) = 0 /\ PendingCost(s) \in Nat
           /\ PendingCost(Append(s, frame)) = PendingCost(s) + FrameCost(frame)
<1>1. PICK n \in Nat : n = Len(s)
  OBVIOUS
<1>2. PICK t : t = Append(s, frame)
  OBVIOUS
<1>3. Len(t) = n + 1 /\ t[n + 1] = frame /\ \A k \in 1 .. n : t[k] = s[k] /\ s[k] \in Frames
  BY <1>1, <1>2
<1> DEFINE g == [k \in 1 .. n |-> [v \in Nat |-> v + FrameCost(s[k])]]
           f == [k \in 1 .. n + 1 |-> [v \in Nat |-> v + FrameCost(t[k])]]
           z == [k \in 1 .. 0 |-> [v \in Nat |-> v + FrameCost(<<>>[k])]]
<1>4. ASSUME NEW k \in 1 .. n, NEW v \in Nat
      PROVE  g[k][v] \in Nat /\ f[k][v] = g[k][v]
  <2>1. FrameCost(s[k]) \in Nat
    BY <1>3, FrameCostType
  <2>2. g[k][v] = v + FrameCost(s[k]) /\ f[k][v] = v + FrameCost(s[k])
    BY <1>3
  <2>3. QED BY <2>1, <2>2
<1>5. \A v \in Nat : f[n + 1][v] = v + FrameCost(frame)
  BY <1>3
<1>6. PendingCost(s) = Iterated(g, n) /\ PendingCost(t) = Iterated(f, n + 1)
  BY <1>1, <1>3 DEF PendingCost
<1>7. PendingCost(<<>>) = Iterated(z, 0)
  BY DEF PendingCost
<1> HIDE DEF f, g, z
<1>8. Iterated(g, n) \in Nat /\ Iterated(f, n + 1) = f[n + 1][Iterated(g, n)]
  BY <1>4, IteratedFacts
<1>9. Iterated(z, 0) = 0
  BY NoIteration
<1>10. QED BY <1>2, <1>5, <1>6, <1>7, <1>8, <1>9

LEMMA PendingCostType ==
    ASSUME NEW s \in Seq(Frames)
    PROVE  PendingCost(s) \in Nat
<1>1. CASE s = <<>>
  <2>1. Iterated([k \in 1 .. 0 |-> [v \in Nat |-> v + FrameCost(<<>>[k])]], 0) = 0
    BY NoIteration
  <2>2. QED BY <1>1, <2>1 DEF PendingCost
<1>2. CASE s # <<>>
  BY <1>2, LastFrame, PendingCostFacts
<1>3. QED BY <1>1, <1>2

(* What the frame of a node is put on top of.                              *)
LEMMA ReleaseSource ==
    ASSUME NEW t, IsNode(t), t.op = "continue"
    PROVE  IF t.frame.kind = "release" THEN t.source.op = "suspend" ELSE t.source \in Effects
<1>1. CASE t \in Effects
  BY <1>1, Parts
<1>2. CASE \E f \in Frames : f.kind = "bracket" /\ t = ProtectedUse(f)
  BY <1>2 DEF ProtectedUse
<1>3. QED BY <1>1, <1>2 DEF IsNode

-----------------------------------------------------------------------------
(* One step.                                                               *)

LEMMA StepsLeftType ==
    ASSUME IInv
    PROVE  StepsLeft \in Nat
<1>1. TypeOK
  BY DEF IInv
<1>2. PICK c \in Seq(Frames) : c = continuations
  BY <1>1 DEF TypeOK
<1>3. PendingCost(c) \in Nat
  BY PendingCostType
<1>4. NodeCost(current) \in Nat
  BY <1>1, NodeCostType DEF TypeOK
<1>5. QED BY <1>1, <1>2, <1>3, <1>4 DEF StepsLeft, TypeOK

LEMMA DeliveryCosts ==
    ASSUME IInv, pc = "step", NEW o, NEW events, Deliver(o, events)
    PROVE  StepsLeft' < StepsLeft
<1>1. NodeCost(current) \in Nat /\ NodeCost(current) >= 3
  BY NodeCostType DEF IInv, TypeOK
<1>2. StepsLeft = PendingCost(continuations) + NodeCost(current) /\ StepsLeft \in Nat
  BY StepsLeftType DEF StepsLeft
<1>3. PICK n : n = PendingCost(continuations)
  OBVIOUS
<1>4. n \in Nat
  BY PendingCostType, <1>3 DEF IInv, TypeOK
<1>5. pc' = "deliver" /\ continuations' = continuations
  BY DEF Deliver
<1>6. StepsLeft' = n + 2
  BY <1>3, <1>5 DEF StepsLeft
<1>7. QED BY <1>1, <1>2, <1>3, <1>4, <1>6

LEMMA ResumptionCosts ==
    ASSUME Resumed, NEW node, NEW events, Continue(node, events),
           NodeCost(node) \in Nat, NodeCost(node) < FrameCost(Frame) + 2
    PROVE  StepsLeft' < StepsLeft
<1>1. /\ pc' = "step" /\ current' = node /\ continuations' = Popped
  BY DEF Continue
<1>2. pc = "deliver" /\ continuations \in Seq(Frames) /\ continuations # <<>>
  BY DEF Resumed, IInv, TypeOK
<1>3. /\ Frame \in Frames /\ Popped \in Seq(Frames) /\ continuations = Append(Popped, Frame)
  BY <1>2, LastFrame DEF Frame, Popped
<1>4. PICK n \in Nat : n = PendingCost(Popped)
  BY <1>3, PendingCostType
<1>5. PICK f \in Nat : f = FrameCost(Frame)
  BY <1>3, FrameCostType
<1>6. PendingCost(continuations) = n + f
  BY <1>3, <1>4, <1>5, PendingCostFacts
<1>7. StepsLeft = n + f + 2
  BY <1>2, <1>6 DEF StepsLeft
<1>8. StepsLeft' = n + NodeCost(node)
  BY <1>1, <1>4 DEF StepsLeft
<1>9. QED BY <1>5, <1>7, <1>8

LEMMA TerminalCosts ==
    ASSUME Resumed, NEW o, NEW events, Continue(Terminal(o), events)
    PROVE  StepsLeft' < StepsLeft
<1>1. PICK node : node = Terminal(o)
  OBVIOUS
<1>2. NodeCost(node) = 3
  BY <1>1 DEF Terminal, NodeCost
<1>3. Frame \in Frames
  BY PoppedScopes DEF Resumed, IInv
<1>4. FrameCost(Frame) \in Nat /\ FrameCost(Frame) >= 2
  BY <1>3, FrameCostType
<1>5. QED BY <1>1, <1>2, <1>4, ResumptionCosts

LEMMA UnwindCosts ==
    ASSUME Resumed, NEW x, NEW events, NEW met, Unwind(x, events, met)
    PROVE  StepsLeft' < StepsLeft
<1>1. CASE Continue(Terminal(Defect(x)), events)
  BY <1>1, TerminalCosts
<1>2. CASE pc' = "exited"
  <2>1. StepsLeft' = 0
    BY <1>2 DEF StepsLeft
  <2>2. PICK n \in Nat : n = PendingCost(continuations)
    BY PendingCostType DEF Resumed, IInv, TypeOK
  <2>3. StepsLeft = n + 2
    BY <2>2 DEF StepsLeft, Resumed
  <2>4. QED BY <2>1, <2>2, <2>3
<1>3. QED BY <1>1, <1>2 DEF Unwind

LEMMA PassingCosts ==
    ASSUME Resumed, NEW o, NEW events, PassOn(o, events)
    PROVE  StepsLeft' < StepsLeft
<1>1. CASE Continue(Terminal(o), events)
  BY <1>1, TerminalCosts
<1>2. CASE ThrowFault(events)
  BY <1>2, UnwindCosts DEF ThrowFault
<1>3. QED BY <1>1, <1>2 DEF PassOn

LEMMA InvocationCosts ==
    ASSUME Resumed, NEW effect \in Callbacks, NEW id, Invoke(effect, id),
           FrameCost(Frame) = 3 + Cost(effect)
    PROVE  StepsLeft' < StepsLeft
<1>1. CASE effect.op = "throws"
  BY <1>1, UnwindCosts DEF Invoke, Throw
<1>2. CASE effect.op # "throws"
  <2>1. effect \in Effects /\ Cost(effect) \in Nat
    BY <1>2, CostType
  <2>2. NodeCost(effect) \in Nat /\ NodeCost(effect) <= Cost(effect)
    BY <2>1, NodeCostOfEffect
  <2>3. Continue(effect, <<<<"call", id>>>>)
    BY <1>2 DEF Invoke
  <2>4. QED BY <2>1, <2>2, <2>3, ResumptionCosts
<1>3. QED BY <1>1, <1>2

LEMMA FrameStepCosts ==
    ASSUME IInv, \/ ResumeFlatMap \/ ResumeBimap \/ ResumeCatchAll
                 \/ ResumeEnsuring \/ ResumeRelease \/ ResumeBracket
    PROVE  StepsLeft' < StepsLeft
<1>1. Resumed
  BY DEF Resumed, Resuming, ResumeFlatMap, ResumeBimap, ResumeCatchAll, ResumeEnsuring,
         ResumeRelease, ResumeBracket
<1>2. Frame \in Frames /\ (UserFrame(Frame) \/ Frame.kind = "release")
  BY <1>1, PoppedScopes, FrameFacts DEF Resumed, IInv
<1>3. CASE ResumeFlatMap
  <2>1. Frame.kind = "flat_map" /\ Frame.next \in Callbacks
    BY <1>2, <1>3 DEF ResumeFlatMap, Resuming, UserFrame
  <2>2. FrameCost(Frame) = 3 + Cost(Frame.next)
    BY <2>1 DEF FrameCost
  <2>3. Invoke(Frame.next, Frame.id) \/ PassOn(outcome, <<>>)
    BY <1>3 DEF ResumeFlatMap
  <2>4. QED BY <1>1, <2>1, <2>2, <2>3, InvocationCosts, PassingCosts
<1>4. CASE ResumeCatchAll
  <2>1. Frame.kind = "catch_all" /\ Frame.recover \in Callbacks
    BY <1>2, <1>4 DEF ResumeCatchAll, Resuming, UserFrame
  <2>2. FrameCost(Frame) = 3 + Cost(Frame.recover)
    BY <2>1 DEF FrameCost
  <2>3. Invoke(Frame.recover, Frame.id) \/ PassOn(outcome, <<>>)
    BY <1>4 DEF ResumeCatchAll
  <2>4. QED BY <1>1, <2>1, <2>2, <2>3, InvocationCosts, PassingCosts
<1>5. CASE ResumeBimap
  <2>1. \/ Transform(Frame.on_value, Success(Frame.id), Frame.id)
        \/ Transform(Frame.on_error, Failure(Frame.id), Frame.id)
        \/ PassOn(outcome, <<>>)
    BY <1>5 DEF ResumeBimap
  <2>2. ASSUME NEW what, NEW o, NEW id, Transform(what, o, id)
        PROVE  StepsLeft' < StepsLeft
    BY <1>1, <2>2, UnwindCosts, PassingCosts DEF Transform, Throw
  <2>3. QED BY <1>1, <2>1, <2>2, PassingCosts
<1>6. CASE ResumeEnsuring \/ ResumeRelease
  BY <1>1, <1>6, PassingCosts DEF ResumeEnsuring, ResumeRelease
<1>7. CASE ResumeBracket
  <2>1. Frame.kind = "bracket"
    BY <1>7 DEF ResumeBracket, Resuming
  <2>2. CASE PassOn(outcome, <<>>)
    BY <1>1, <2>2, PassingCosts
  <2>3. ASSUME NEW events, Throw(Frame.id, events) \/ ThrowFault(events)
        PROVE  StepsLeft' < StepsLeft
    BY <1>1, <2>3, UnwindCosts DEF Throw, ThrowFault
  <2>4. CASE Continue(ProtectedUse(Frame), <<<<"acquire", Frame.id>>>>)
    <3>1. /\ NodeCost(ProtectedUse(Frame)) = 1 + FrameCost(Frame)
          /\ FrameCost(Frame) \in Nat
      BY <1>2, <2>1, ProtectedCost
    <3>2. PICK node : node = ProtectedUse(Frame)
      OBVIOUS
    <3>3. NodeCost(node) \in Nat /\ NodeCost(node) < FrameCost(Frame) + 2
      BY <3>1, <3>2
    <3>4. QED BY <1>1, <2>4, <3>2, <3>3, ResumptionCosts
  <2>5. QED BY <1>7, <2>2, <2>3, <2>4 DEF ResumeBracket
<1>8. QED BY <1>3, <1>4, <1>5, <1>6, <1>7

LEMMA InstructionCosts ==
    ASSUME IInv, MovedFrom \/ Descend \/ DescendFails \/ Suspended \/ Eval \/ Constant
    PROVE  StepsLeft' < StepsLeft
<1>1. pc = "step" /\ IsNode(current) /\ continuations \in Seq(Frames)
  BY DEF MovedFrom, Descend, DescendFails, Suspended, Eval, Constant, At, IInv, TypeOK
<1>2. PICK n \in Nat : n = PendingCost(continuations)
  BY <1>1, PendingCostType
<1>3. StepsLeft = n + NodeCost(current)
  BY <1>1, <1>2 DEF StepsLeft
<1>4. CASE MovedFrom \/ DescendFails \/ Eval \/ Constant
  BY <1>1, <1>4, DeliveryCosts DEF MovedFrom, DescendFails, Eval, Constant
<1>5. CASE Suspended
  <2>1. current.op = "suspend" /\ current.next \in Callbacks
    BY <1>1, <1>5, NodeFacts DEF Suspended, At
  <2>2. CASE current.next.op = "throws"
    BY <1>1, <1>5, <2>2, DeliveryCosts DEF Suspended
  <2>3. CASE current.next.op # "throws"
    <3>1. PICK next \in Effects : next = current.next
      BY <2>1, <2>3, CostType
    <3>2. current' = next /\ pc' = pc /\ continuations' = continuations
      BY <1>5, <2>3, <3>1 DEF Suspended
    <3>3. StepsLeft' = n + NodeCost(next)
      BY <1>1, <1>2, <3>2 DEF StepsLeft
    <3>4. NodeCost(current) = 1 + Cost(next)
      BY <2>1, <3>1 DEF NodeCost
    <3>5. NodeCost(next) \in Nat /\ NodeCost(next) <= Cost(next) /\ Cost(next) \in Nat
      BY <2>1, <2>3, <3>1, NodeCostOfEffect, CostType
    <3>6. QED BY <1>3, <3>3, <3>4, <3>5
  <2>4. QED BY <2>2, <2>3
<1>6. CASE Descend
  <2>1. /\ current.op = "continue" /\ pc' = pc
        /\ continuations' = Append(continuations, current.frame) /\ current' = current.source
    BY <1>6 DEF Descend, At
  <2>2. PICK frame \in Frames : frame = current.frame
    BY <1>1, <2>1, NodeFacts
  <2>3. PICK f \in Nat : f = FrameCost(frame)
    BY FrameCostType
  <2>4. PendingCost(continuations') = n + f
    BY <1>1, <1>2, <2>1, <2>2, <2>3, PendingCostFacts
  <2>5. PICK source : source = current.source
    OBVIOUS
  <2>6. StepsLeft' = n + f + NodeCost(source)
    BY <1>1, <2>1, <2>4, <2>5 DEF StepsLeft
  <2>7. NodeCost(source) \in Nat /\ NodeCost(current) > f + NodeCost(source)
    <3>1. CASE current.frame.kind = "release"
      <4>1. source.op = "suspend" /\ IsNode(source)
        BY <1>1, <2>1, <2>5, <3>1, ReleaseSource, NodeFacts
      <4>2. NodeCost(current) = 1 + f + (1 + Cost(source.next))
        BY <2>1, <2>2, <2>3, <2>5, <3>1 DEF NodeCost
      <4>3. NodeCost(source) = 1 + Cost(source.next) /\ NodeCost(source) \in Nat
        BY <4>1, NodeCostType DEF NodeCost
      <4>4. QED BY <4>2, <4>3
    <3>2. CASE current.frame.kind # "release"
      <4>1. source \in Effects
        BY <1>1, <2>1, <2>5, <3>2, ReleaseSource
      <4>2. NodeCost(current) = 1 + f + Cost(source)
        BY <2>1, <2>2, <2>3, <2>5, <3>2 DEF NodeCost
      <4>3. NodeCost(source) \in Nat /\ NodeCost(source) <= Cost(source) /\ Cost(source) \in Nat
        BY <4>1, NodeCostOfEffect, CostType DEF Callbacks
      <4>4. QED BY <4>2, <4>3
    <3>3. QED BY <3>1, <3>2
  <2>8. NodeCost(current) \in Nat
    BY <1>1, NodeCostType
  <2>9. QED BY <1>3, <2>6, <2>7, <2>8
<1>7. QED BY <1>4, <1>5, <1>6

LEMMA StepCosts ==
    ASSUME IInv, Next
    PROVE  StepsLeft' < StepsLeft
<1>1. CASE MovedFrom \/ Descend \/ DescendFails \/ Suspended \/ Eval \/ Constant
  BY <1>1, InstructionCosts
<1>2. CASE \/ ResumeFlatMap \/ ResumeBimap \/ ResumeCatchAll
           \/ ResumeEnsuring \/ ResumeRelease \/ ResumeBracket
  BY <1>2, FrameStepCosts
<1>3. CASE Return
  <2>1. PICK n \in Nat : n = PendingCost(continuations)
    BY PendingCostType DEF IInv, TypeOK
  <2>2. StepsLeft = n + 2 /\ StepsLeft' = 1
    BY <1>3, <2>1 DEF Return, StepsLeft
  <2>3. QED BY <2>1, <2>2
<1>4. CASE RunExit
  BY <1>4 DEF RunExit, StepsLeft
<1>5. QED BY <1>1, <1>2, <1>3, <1>4 DEF Next

(* Every turn of detail::evaluate's loop lowers a natural number that the  *)
(* program bounds, whatever its callbacks and the faults do: no finite     *)
(* program keeps run_exit busy forever.                                    *)
THEOREM LoopStepsRunOut == Spec => [](StepsLeft \in Nat) /\ [][StepsLeft' < StepsLeft]_vars
<1>1. IInv => StepsLeft \in Nat
  BY StepsLeftType
<1>2. IInv /\ [Next]_vars => [StepsLeft' < StepsLeft]_vars
  BY StepCosts
<1>3. QED BY <1>1, <1>2, Invariance, PTL DEF Spec

=============================================================================
