--------------------------- MODULE EvaluatorProofs ---------------------------
(***************************************************************************)
(* Evaluator for any set of programs of any size and any choice of faults: *)
(* scopes are closed once and inside-out whatever throws, and a defect is  *)
(* not recoverable.                                                        *)
(***************************************************************************)
EXTENDS Evaluator, WellFoundedInduction, FiniteSetTheorems, TLAPS

-----------------------------------------------------------------------------
(* The scopes that a sequence of events leaves open.  OpenScopes is defined *)
(* by recursion; what is needed of it follows from the fact that a set of   *)
(* numbers has a least element.                                             *)

LEMMA LeastNumber ==
    ASSUME NEW S \in SUBSET Nat, S # {}
    PROVE  \E n \in S : \A m \in S : n <= m
<1>1. PICK x \in S : \A y \in S : ~ (<<y, x>> \in OpToRel(<, Nat))
  BY NatLessThanWellFounded, WFMin
<1>2. \A y \in S : ~ (y < x)
  BY <1>1 DEF OpToRel
<1>3. QED BY <1>2

(* h lists the scopes open after each of the first n events.               *)
IsHistory(h, n, events) ==
    h = [k \in 0 .. n |-> IF k = 0 THEN <<>> ELSE Follow(h[k - 1], events[k])]

LEMMA HistoryExists ==
    ASSUME NEW events, NEW n \in Nat
    PROVE  \E h : IsHistory(h, n, events)
<1> DEFINE Bad == {k \in Nat : ~ \E h : IsHistory(h, k, events)}
<1>1. SUFFICES ASSUME Bad # {}
               PROVE  FALSE
  OBVIOUS
<1>2. PICK k \in Bad : \A m \in Bad : k <= m
  BY <1>1, LeastNumber
<1>3. CASE k = 0
  <2>1. IsHistory([j \in 0 .. 0 |-> <<>>], 0, events)
    BY DEF IsHistory
  <2>2. QED BY <1>2, <1>3, <2>1
<1>4. CASE k # 0
  <2>1. k - 1 \in Nat /\ k - 1 \notin Bad /\ k \in Nat
    BY <1>2, <1>4
  <2>2. PICK g : IsHistory(g, k - 1, events)
    BY <2>1
  <2> DEFINE h == [j \in 0 .. k |-> IF j = k THEN Follow(g[k - 1], events[k]) ELSE g[j]]
  <2>3. ASSUME NEW j \in 0 .. k
        PROVE  h[j] = IF j = 0 THEN <<>> ELSE Follow(h[j - 1], events[j])
    <3>1. \A i \in 0 .. k - 1 : g[i] = IF i = 0 THEN <<>> ELSE Follow(g[i - 1], events[i])
      BY <2>2 DEF IsHistory
    <3>2. CASE j = k
      <4>1. h[k] = Follow(g[k - 1], events[k]) /\ h[k - 1] = g[k - 1]
        BY <2>1
      <4>2. QED BY <1>4, <3>2, <4>1
    <3>3. CASE j # k
      <4>1. j \in 0 .. k - 1 /\ h[j] = g[j] /\ (j # 0 => h[j - 1] = g[j - 1])
        BY <2>1, <3>3
      <4>2. QED BY <3>1, <4>1
    <3>4. QED BY <3>2, <3>3
  <2>4. IsHistory(h, k, events)
    BY <2>3 DEF IsHistory
  <2>5. QED BY <1>2, <2>4
<1>5. QED BY <1>3, <1>4

(* The scopes open after n events depend on those events only.             *)
LEMMA HistoriesAgree ==
    ASSUME NEW s, NEW t, NEW m \in Nat, NEW n \in Nat, m <= n,
           \A i \in 1 .. m : s[i] = t[i],
           NEW g, IsHistory(g, m, s), NEW h, IsHistory(h, n, t)
    PROVE  g[m] = h[m]
<1> DEFINE Bad == {k \in 0 .. m : g[k] # h[k]}
<1>1. SUFFICES ASSUME Bad # {}
               PROVE  FALSE
  <2>1. m \in 0 .. m
    OBVIOUS
  <2>2. QED BY <2>1
<1>2. PICK k \in Bad : \A j \in Bad : k <= j
  <2>1. Bad \in SUBSET Nat
    OBVIOUS
  <2>2. QED BY <1>1, <2>1, LeastNumber
<1>3. /\ g[k] = IF k = 0 THEN <<>> ELSE Follow(g[k - 1], s[k])
      /\ h[k] = IF k = 0 THEN <<>> ELSE Follow(h[k - 1], t[k])
  BY DEF IsHistory
<1>4. CASE k = 0
  BY <1>3, <1>4
<1>5. CASE k # 0
  <2>1. k - 1 \in 0 .. m /\ k - 1 \notin Bad /\ k \in 1 .. m
    BY <1>2, <1>5
  <2>2. g[k - 1] = h[k - 1]
    BY <2>1
  <2>3. QED BY <1>2, <1>3, <1>5, <2>1, <2>2
<1>6. QED BY <1>4, <1>5

LEMMA OpenScopesHistory ==
    ASSUME NEW events, Len(events) \in Nat
    PROVE  \E h : IsHistory(h, Len(events), events) /\ OpenScopes(events) = h[Len(events)]
<1> DEFINE h == CHOOSE x : IsHistory(x, Len(events), events)
<1>1. IsHistory(h, Len(events), events)
  BY HistoryExists
<1>2. OpenScopes(events) = h[Len(events)]
  BY Zenon DEF OpenScopes, IsHistory
<1>3. QED BY <1>1, <1>2

LEMMA NoEvents ==
    OpenScopes(<<>>) = <<>>
<1>1. PICK h : IsHistory(h, Len(<<>>), <<>>) /\ OpenScopes(<<>>) = h[Len(<<>>)]
  BY OpenScopesHistory
<1>2. QED BY <1>1 DEF IsHistory

(* One more event.                                                         *)
LEMMA OneEvent ==
    ASSUME NEW S, NEW s \in Seq(S), NEW e
    PROVE  OpenScopes(Append(s, e)) = Follow(OpenScopes(s), e)
<1> DEFINE t == Append(s, e)
<1>1. PICK n \in Nat : n = Len(s)
  OBVIOUS
<1>2. Len(t) = n + 1 /\ t[n + 1] = e /\ \A i \in 1 .. n : t[i] = s[i]
  BY <1>1
<1> HIDE DEF t
<1>3. PICK g : IsHistory(g, n, s) /\ OpenScopes(s) = g[n]
  BY <1>1, OpenScopesHistory
<1>4. PICK h : IsHistory(h, n + 1, t) /\ OpenScopes(t) = h[n + 1]
  BY <1>2, OpenScopesHistory
<1>5. g[n] = h[n]
  BY <1>2, <1>3, <1>4, HistoriesAgree
<1>6. h[n + 1] = Follow(h[n], t[n + 1])
  BY <1>4 DEF IsHistory
<1>7. QED BY <1>2, <1>3, <1>4, <1>5, <1>6 DEF t

(* Events that open and close scopes of S leave a sequence of them open.   *)
LEMMA OpenScopesType ==
    ASSUME NEW S, NEW K, NEW events \in Seq(K \X S)
    PROVE  OpenScopes(events) \in Seq(S \cup {0})
<1>1. PICK h : IsHistory(h, Len(events), events) /\ OpenScopes(events) = h[Len(events)]
  BY OpenScopesHistory
<1> DEFINE Bad == {k \in 0 .. Len(events) : h[k] \notin Seq(S \cup {0})}
<1>2. SUFFICES ASSUME Bad # {}
               PROVE  FALSE
  <2>1. Len(events) \in 0 .. Len(events)
    OBVIOUS
  <2>2. QED BY <1>1, <2>1
<1>3. PICK k \in Bad : \A j \in Bad : k <= j
  <2>1. Bad \in SUBSET Nat
    OBVIOUS
  <2>2. QED BY <1>2, <2>1, LeastNumber
<1>4. h[k] = IF k = 0 THEN <<>> ELSE Follow(h[k - 1], events[k])
  BY <1>1 DEF IsHistory
<1>5. CASE k = 0
  <2>1. <<>> \in Seq(S \cup {0})
    OBVIOUS
  <2>2. QED BY <1>3, <1>4, <1>5, <2>1
<1>6. CASE k # 0
  <2>1. k - 1 \in 0 .. Len(events) /\ k - 1 \notin Bad /\ k \in 1 .. Len(events)
    BY <1>3, <1>6
  <2>2. PICK open \in Seq(S \cup {0}) : open = h[k - 1]
    BY <2>1
  <2>3. events[k][2] \in S
    BY <2>1
  <2>4. Follow(open, events[k]) \in Seq(S \cup {0})
    <3>1. Append(open, events[k][2]) \in Seq(S \cup {0}) /\ Append(open, 0) \in Seq(S \cup {0})
      BY <2>3
    <3>2. open # <<>> => Front(open) \in Seq(S \cup {0})
      BY DEF Front
    <3>3. QED BY <3>1, <3>2 DEF Follow
  <2>5. QED BY <1>3, <1>4, <1>6, <2>2, <2>4
<1>7. QED BY <1>5, <1>6

-----------------------------------------------------------------------------
(* The inductive invariant.                                                *)

Ids ==
    {t.id : t \in {x \in Effects : x.op \in {"eval", "suspend"}}}
        \cup {t.frame.id : t \in {x \in Effects : x.op = "continue"}}

Frames ==
    {t.frame : t \in {x \in Effects : x.op = "continue"}}
        \cup [kind : {"release"}, id : Ids]

Events == {"call", "enter", "finalize", "acquire", "release"} \X Ids

Kinds == {"success", "failure", "defect"}

(* What current may be: a part of a program, an outcome that a frame       *)
(* passed on, or what a bracket returned and its source.                   *)
IsNode(t) ==
    \/ t \in Effects
    \/ t.op = "outcome" /\ t.outcome.kind \in Kinds
    \/ t.op = "suspend" /\ t.next \in Callbacks /\ t.id \in Ids
    \/ \E f \in Frames : f.kind = "bracket" /\ t = ProtectedUse(f)

TypeOK ==
    /\ pc \in {"step", "deliver", "returned", "exited"}
    /\ IsNode(current)
    /\ continuations \in Seq(Frames)
    /\ capacity \in Nat /\ Len(continuations) <= capacity
    /\ outcome.kind \in Kinds \cup {"none"}
    /\ pc # "step" => outcome.kind # "none"
    /\ pc \in {"returned", "exited"} => continuations = <<>>
    /\ trace \in Seq(Events)
    /\ faults \subseteq Faults

(* The buffer has a place for the frame of a release.                      *)
PlaceForRelease == AwaitsRelease => Len(continuations) < capacity

(* A defect that was passed on is what evaluate looks at next.             *)
DefectIsCurrent ==
    pc = "step" /\ outcome.kind = "defect" =>
        current.op = "outcome" /\ current.outcome.kind = "defect"

IInv == TypeOK /\ PlaceForRelease /\ DefectIsCurrent /\ ScopesMatchFrames

-----------------------------------------------------------------------------
(* Facts about nodes and frames.                                           *)

LEMMA FrameFacts ==
    ASSUME NEW f \in Frames
    PROVE  /\ f.id \in Ids
           /\ UserFrame(f) \/ f.kind = "release"
<1>1. CASE \E t \in Effects : t.op = "continue" /\ f = t.frame
  BY <1>1, EffectsAssumption DEF Ids
<1>2. CASE f \in [kind : {"release"}, id : Ids]
  BY <1>2
<1>3. QED BY <1>1, <1>2 DEF Frames

(* What the loop reads of a node, by the kind of instruction.              *)
LEMMA NodeFacts ==
    ASSUME NEW t, IsNode(t)
    PROVE  /\ t.op = "outcome" => t.outcome.kind \in Kinds
           /\ t.op = "eval" => t.id \in Ids /\ t.run \in {"success", "failure", "throws"}
           /\ t.op = "suspend" => t.id \in Ids /\ t.next \in Callbacks
           /\ t.op = "continue" => IsNode(t.source) /\ t.frame \in Frames
           /\ t.op = "continue" => t.source.op # "continue" \/ t.source \in Effects
<1>1. CASE t \in Effects
  BY <1>1, EffectsAssumption DEF Ids, Frames, Kinds, IsNode
<1>2. CASE t.op = "outcome" /\ t.outcome.kind \in Kinds
  BY <1>2
<1>3. CASE t.op = "suspend" /\ t.next \in Callbacks /\ t.id \in Ids
  BY <1>3
<1>4. CASE \E f \in Frames : f.kind = "bracket" /\ t = ProtectedUse(f)
  <2>1. PICK f \in Frames : f.kind = "bracket" /\ t = ProtectedUse(f)
    BY <1>4
  <2>2. f.id \in Ids /\ f.use \in Callbacks
    BY <2>1, FrameFacts DEF UserFrame
  <2>3. /\ t.op = "continue"
        /\ t.source = [op |-> "suspend", id |-> f.id, next |-> f.use]
        /\ t.frame = [kind |-> "release", id |-> f.id]
    BY <2>1 DEF ProtectedUse
  <2>4. t.source.op = "suspend" /\ t.source.id = f.id /\ t.source.next = f.use
    BY <2>3
  <2>5. IsNode(t.source) /\ t.frame \in Frames
    BY <2>2, <2>3, <2>4 DEF IsNode, Frames
  <2>6. QED BY <2>3, <2>4, <2>5
<1>5. QED BY <1>1, <1>2, <1>3, <1>4 DEF IsNode

(* No program has the frame of a release.                                  *)
LEMMA EffectsAwaitNoRelease ==
    ASSUME NEW t \in Callbacks
    PROVE  t.op = "continue" => t.frame.kind # "release"
BY EffectsAssumption DEF Callbacks, UserFrame

LEMMA LastFrame ==
    ASSUME NEW s \in Seq(Frames), s # <<>>
    PROVE  /\ Last(s) \in Frames /\ Front(s) \in Seq(Frames)
           /\ s = Append(Front(s), Last(s))
           /\ Len(s) \in Nat /\ Len(Front(s)) = Len(s) - 1
<1>1. Len(s) \in Nat \ {0}
  OBVIOUS
<1>2. Last(s) \in Frames
  BY <1>1 DEF Last
<1>3. /\ Front(s) \in Seq(Frames) /\ Len(Front(s)) = Len(s) - 1
      /\ \A i \in 1 .. Len(s) - 1 : Front(s)[i] = s[i]
  <2>1. Front(s) = SubSeq(s, 1, Len(s) - 1)
    BY DEF Front
  <2>2. SubSeq(s, 1, Len(s) - 1) \in Seq(Frames)
    BY <1>1
  <2>3. Len(SubSeq(s, 1, Len(s) - 1)) = Len(s) - 1
    <3>1. \A n \in Nat : n <= Len(s) => Len(SubSeq(s, 1, n)) = n
      OBVIOUS
    <3>2. Len(s) - 1 \in Nat /\ Len(s) - 1 <= Len(s)
      BY <1>1
    <3>3. QED BY <3>1, <3>2
  <2>4. \A i \in 1 .. Len(s) - 1 : SubSeq(s, 1, Len(s) - 1)[i] = s[i]
    BY <1>1
  <2>5. QED BY <2>1, <2>2, <2>3, <2>4
<1>4. s = Append(Front(s), Last(s))
  <2>1. Len(Append(Front(s), Last(s))) = Len(s) /\ Append(Front(s), Last(s)) \in Seq(Frames)
    BY <1>1, <1>2, <1>3
  <2>2. \A i \in 1 .. Len(s) : Append(Front(s), Last(s))[i] = s[i]
    BY <1>1, <1>2, <1>3 DEF Last
  <2>3. QED BY <2>1, <2>2
<1>5. QED BY <1>1, <1>2, <1>3, <1>4

LEMMA AwaitingType ==
    ASSUME NEW s \in Seq(Frames)
    PROVE  /\ Awaiting(s) \in Seq(Events) /\ Len(Awaiting(s)) = Len(s)
           /\ \A i \in 1 .. Len(s) : Awaiting(s)[i] = Entered(s[i])
           /\ OpenScopes(Awaiting(s)) \in Seq(Ids \cup {0})
<1>1. \A f \in Frames : Entered(f) \in Events
  BY FrameFacts DEF Entered, Events
<1>2. Awaiting(s) = [i \in 1 .. Len(s) |-> Entered(s[i])] /\ Len(s) \in Nat
  BY DEF Awaiting
<1>3. Awaiting(s) \in Seq(Events)
  BY <1>1, <1>2
<1>4. OpenScopes(Awaiting(s)) \in Seq(Ids \cup {0})
  BY <1>3, OpenScopesType DEF Events
<1>5. QED BY <1>2, <1>3, <1>4

(* What one more pending frame adds.                                       *)
LEMMA OneFrame ==
    ASSUME NEW s \in Seq(Frames), NEW f \in Frames
    PROVE  OpenScopes(Awaiting(Append(s, f))) =
               IF IsScope(f) THEN Append(OpenScopes(Awaiting(s)), f.id)
               ELSE OpenScopes(Awaiting(s))
<1>1. PICK e \in Events : e = Entered(f)
  <2>1. Entered(f) \in Events
    BY FrameFacts DEF Entered, Events
  <2>2. QED BY <2>1
<1>2. Awaiting(Append(s, f)) = Append(Awaiting(s), e)
  <2>1. /\ Append(s, f) \in Seq(Frames) /\ Len(Append(s, f)) = Len(s) + 1 /\ Len(s) \in Nat
        /\ Append(s, f)[Len(s) + 1] = f
        /\ \A i \in 1 .. Len(s) : Append(s, f)[i] = s[i]
    OBVIOUS
  <2>2. /\ Awaiting(s) \in Seq(Events) /\ Len(Awaiting(s)) = Len(s)
        /\ \A i \in 1 .. Len(s) : Awaiting(s)[i] = Entered(s[i])
    BY AwaitingType
  <2>3. /\ Append(Awaiting(s), e) \in Seq(Events) /\ Len(Append(Awaiting(s), e)) = Len(s) + 1
        /\ Append(Awaiting(s), e)[Len(s) + 1] = e
        /\ \A i \in 1 .. Len(s) : Append(Awaiting(s), e)[i] = Awaiting(s)[i]
    BY <2>2
  <2>4. /\ Awaiting(Append(s, f)) \in Seq(Events) /\ Len(Awaiting(Append(s, f))) = Len(s) + 1
        /\ \A i \in 1 .. Len(s) + 1 : Awaiting(Append(s, f))[i] = Entered(Append(s, f)[i])
    BY <2>1, AwaitingType
  <2>5. \A i \in 1 .. Len(s) + 1 : Awaiting(Append(s, f))[i] = Append(Awaiting(s), e)[i]
    BY <1>1, <2>1, <2>2, <2>3, <2>4
  <2>6. QED BY <2>3, <2>4, <2>5
<1>3. OpenScopes(Append(Awaiting(s), e)) = Follow(OpenScopes(Awaiting(s)), e)
  BY AwaitingType, OneEvent
<1>4. e[1] = (IF IsScope(f) THEN "enter" ELSE "call") /\ e[2] = f.id
  BY <1>1 DEF Entered
<1>5. QED BY <1>2, <1>3, <1>4 DEF Follow, Opens, Closes

(* The pending frames without the innermost.                               *)
LEMMA PoppedScopes ==
    ASSUME TypeOK, continuations # <<>>
    PROVE  /\ Frame \in Frames /\ Popped \in Seq(Frames) /\ Frame.id \in Ids
           /\ Len(Popped) + 1 = Len(continuations)
           /\ OpenScopes(Awaiting(Popped)) \in Seq(Ids \cup {0})
           /\ OpenScopes(Awaiting(continuations)) =
                  IF IsScope(Frame) THEN Append(OpenScopes(Awaiting(Popped)), Frame.id)
                  ELSE OpenScopes(Awaiting(Popped))
<1>1. continuations \in Seq(Frames)
  BY DEF TypeOK
<1>2. /\ Frame \in Frames /\ Popped \in Seq(Frames)
      /\ continuations = Append(Popped, Frame) /\ Len(Popped) + 1 = Len(continuations)
  BY <1>1, LastFrame DEF Frame, Popped
<1>3. QED BY <1>2, OneFrame, AwaitingType, FrameFacts

-----------------------------------------------------------------------------
(* Events.                                                                 *)

LEMMA TraceScopes ==
    ASSUME TypeOK
    PROVE  OpenScopes(trace) \in Seq(Ids \cup {0})
BY OpenScopesType DEF TypeOK, Events

LEMMA NothingHappens ==
    ASSUME TypeOK
    PROVE  trace \o <<>> = trace
BY DEF TypeOK

(* A call of a user function opens and closes no scope.                    *)
LEMMA CallScopes ==
    ASSUME TypeOK, NEW id \in Ids
    PROVE  /\ trace \o <<<<"call", id>>>> \in Seq(Events)
           /\ OpenScopes(trace \o <<<<"call", id>>>>) = OpenScopes(trace)
<1>1. PICK e \in Events : e = <<"call", id>> /\ e[1] = "call"
  <2>1. <<"call", id>> \in Events
    BY DEF Events
  <2>2. <<"call", id>>[1] = "call"
    OBVIOUS
  <2>3. QED BY <2>1, <2>2
<1>2. trace \o <<e>> = Append(trace, e) /\ Append(trace, e) \in Seq(Events)
  BY DEF TypeOK
<1>3. OpenScopes(Append(trace, e)) = Follow(OpenScopes(trace), e)
  BY OneEvent DEF TypeOK
<1>4. QED BY <1>1, <1>2, <1>3 DEF Follow, Opens, Closes

LEMMA OpeningScopes ==
    ASSUME TypeOK, NEW id \in Ids, NEW kind \in {"enter", "acquire"}
    PROVE  /\ trace \o <<<<kind, id>>>> \in Seq(Events)
           /\ OpenScopes(trace \o <<<<kind, id>>>>) = Append(OpenScopes(trace), id)
<1>1. PICK e \in Events : e = <<kind, id>> /\ e[1] = kind /\ e[2] = id
  <2>1. <<kind, id>> \in Events
    BY DEF Events
  <2>2. <<kind, id>>[1] = kind /\ <<kind, id>>[2] = id
    OBVIOUS
  <2>3. QED BY <2>1, <2>2
<1>2. trace \o <<e>> = Append(trace, e) /\ Append(trace, e) \in Seq(Events)
  BY DEF TypeOK
<1>3. OpenScopes(Append(trace, e)) = Follow(OpenScopes(trace), e)
  BY OneEvent DEF TypeOK
<1>4. QED BY <1>1, <1>2, <1>3 DEF Follow, Opens

(* Closing the innermost scope.                                            *)
LEMMA ClosingScopes ==
    ASSUME NEW s \in Seq(Events), NEW id \in Ids, NEW kind \in {"finalize", "release"},
           NEW open \in Seq(Ids \cup {0}), OpenScopes(s) = Append(open, id)
    PROVE  /\ Append(s, <<kind, id>>) \in Seq(Events)
           /\ OpenScopes(Append(s, <<kind, id>>)) = open
<1>1. PICK e \in Events : e = <<kind, id>> /\ e[1] = kind /\ e[2] = id
  <2>1. <<kind, id>> \in Events
    BY DEF Events
  <2>2. <<kind, id>>[1] = kind /\ <<kind, id>>[2] = id
    OBVIOUS
  <2>3. QED BY <2>1, <2>2
<1>2. OpenScopes(Append(s, e)) = Follow(OpenScopes(s), e)
  BY OneEvent
<1>3. /\ Append(open, id) # <<>> /\ Last(Append(open, id)) = id
      /\ Front(Append(open, id)) = open
  <2>1. PICK T : T = Ids \cup {0}
    OBVIOUS
  <2>2. PICK t \in Seq(T) : t = Append(open, id) /\ Len(t) = Len(open) + 1 /\ Len(open) \in Nat
    BY <2>1
  <2>3. t[Len(t)] = id /\ \A i \in 1 .. Len(open) : t[i] = open[i]
    BY <2>2
  <2>4. Front(t) = SubSeq(t, 1, Len(open))
    BY <2>2 DEF Front
  <2>5. Front(t) = open
    BY <2>2, <2>3, <2>4
  <2>6. QED BY <2>2, <2>3, <2>5 DEF Last
<1>4. QED BY <1>1, <1>2, <1>3 DEF Follow, Opens, Closes

-----------------------------------------------------------------------------
(* One instruction.                                                        *)

LEMMA AtDeliver ==
    ASSUME IInv, pc = "deliver", "handler" \notin faults
    PROVE  OpenScopes(trace) = OpenScopes(Awaiting(continuations))
BY DEF IInv, ScopesMatchFrames, PendingScopes, AwaitsRelease

LEMMA AtInstruction ==
    ASSUME IInv, pc = "step", ~AwaitsRelease, "handler" \notin faults
    PROVE  OpenScopes(trace) = OpenScopes(Awaiting(continuations))
BY DEF IInv, ScopesMatchFrames, PendingScopes

LEMMA Delivered ==
    ASSUME IInv, pc = "step", ~AwaitsRelease, NEW o, NEW events, Deliver(o, events),
           o.kind \in Kinds, faults \subseteq faults', faults' \subseteq Faults,
           trace \o events \in Seq(Events), OpenScopes(trace \o events) = OpenScopes(trace)
    PROVE  IInv'
<1>1. /\ pc' = "deliver" /\ outcome' = o /\ trace' = trace \o events
      /\ UNCHANGED <<program, current, continuations, capacity>>
  BY DEF Deliver
<1>2. TypeOK'
  BY <1>1 DEF IInv, TypeOK, Kinds
<1>3. PlaceForRelease' /\ DefectIsCurrent'
  BY <1>1 DEF PlaceForRelease, DefectIsCurrent, AwaitsRelease
<1>4. ASSUME "handler" \notin faults'
      PROVE  OpenScopes(trace)' = PendingScopes'
  <2>1. OpenScopes(trace) = OpenScopes(Awaiting(continuations))
    BY <1>4, AtInstruction
  <2>2. PendingScopes' = OpenScopes(Awaiting(continuations'))
    BY <1>1 DEF PendingScopes, AwaitsRelease
  <2>3. QED BY <1>1, <2>1, <2>2
<1>5. QED BY <1>2, <1>3, <1>4 DEF IInv, ScopesMatchFrames

LEMMA OutcomeStep ==
    ASSUME IInv, MovedFrom \/ Eval \/ Constant
    PROVE  IInv'
<1>1. pc = "step" /\ ~AwaitsRelease /\ faults' = faults /\ faults \subseteq Faults
  BY DEF MovedFrom, Eval, Constant, At, AwaitsRelease, NoFault, IInv, TypeOK
<1>2. trace \o <<>> = trace /\ trace \in Seq(Events) /\ IsNode(current)
  BY NothingHappens DEF IInv, TypeOK
<1>3. CASE MovedFrom
  BY <1>1, <1>2, <1>3, Delivered DEF MovedFrom, Defect, Kinds
<1>4. CASE Eval
  <2>1. current.op = "eval" /\ Deliver(Evaluated(current.run, current.id), <<<<"call", current.id>>>>)
    BY <1>4 DEF Eval, At
  <2>2. current.id \in Ids /\ current.run \in {"success", "failure", "throws"}
    BY <1>2, <2>1, NodeFacts
  <2>3. Evaluated(current.run, current.id).kind \in Kinds
    BY <2>2 DEF Evaluated, Kinds
  <2>4. QED BY <1>1, <2>1, <2>2, <2>3, CallScopes, Delivered DEF IInv
<1>5. CASE Constant
  <2>1. current.op = "outcome" /\ Deliver(current.outcome, <<>>)
    BY <1>5 DEF Constant, At
  <2>2. current.outcome.kind \in Kinds
    BY <1>2, <2>1, NodeFacts
  <2>3. QED BY <1>1, <1>2, <2>1, <2>2, Delivered
<1>6. QED BY <1>3, <1>4, <1>5

(* Evaluation goes on with a node that is not a release waiting.           *)
LEMMA SuspendedStep ==
    ASSUME IInv, Suspended
    PROVE  IInv'
<1>1. /\ pc = "step" /\ current.op = "suspend" /\ ~AwaitsRelease
      /\ faults' = faults /\ faults \subseteq Faults
  BY DEF Suspended, At, AwaitsRelease, NoFault, IInv, TypeOK
<1>2. current.id \in Ids /\ current.next \in Callbacks
  BY <1>1, NodeFacts DEF IInv, TypeOK
<1>3. CASE current.next.op = "throws"
  <2>1. Deliver(Defect(current.id), <<<<"call", current.id>>>>)
    BY <1>3 DEF Suspended
  <2>2. Defect(current.id).kind \in Kinds
    BY DEF Defect, Kinds
  <2>3. QED BY <1>1, <1>2, <2>1, <2>2, CallScopes, Delivered DEF IInv
<1>4. CASE current.next.op # "throws"
  <2>1. /\ current' = current.next /\ trace' = Append(trace, <<"call", current.id>>)
        /\ UNCHANGED <<program, pc, continuations, capacity, outcome>>
    BY <1>4 DEF Suspended
  <2>2. current' \in Effects
    BY <1>2, <1>4, <2>1 DEF Callbacks
  <2>3. trace' \in Seq(Events) /\ OpenScopes(trace') = OpenScopes(trace)
    <3>1. Append(trace, <<"call", current.id>>) = trace \o <<<<"call", current.id>>>>
      <4>1. \A e \in Events : Append(trace, e) = trace \o <<e>>
        BY DEF IInv, TypeOK
      <4>2. <<"call", current.id>> \in Events
        BY <1>2 DEF Events
      <4>3. QED BY <4>1, <4>2
    <3>2. QED BY <1>2, <2>1, <3>1, CallScopes DEF IInv
  <2>4. ~AwaitsRelease'
    BY <2>2, EffectsAwaitNoRelease DEF AwaitsRelease, Callbacks
  <2>5. TypeOK'
    BY <1>1, <2>1, <2>2, <2>3 DEF IInv, TypeOK, IsNode
  <2>6. outcome'.kind # "defect"
    BY <1>1, <2>1 DEF IInv, DefectIsCurrent
  <2>7. ScopesMatchFrames'
    BY <1>1, <2>1, <2>3, <2>4, AtInstruction DEF ScopesMatchFrames, PendingScopes
  <2>8. QED BY <2>4, <2>5, <2>6, <2>7 DEF IInv, PlaceForRelease, DefectIsCurrent
<1>5. QED BY <1>3, <1>4

(* The frame of a continuation gets its place.                             *)
LEMMA DescendStep ==
    ASSUME IInv, Descend
    PROVE  IInv'
<1>1. /\ pc = "step" /\ current.op = "continue" /\ pc' = "step"
      /\ continuations' = Append(continuations, current.frame)
      /\ capacity' = Larger(capacity, Len(continuations) + 1)
      /\ current' = current.source
      /\ trace' = trace \o Entering(current.frame)
      /\ outcome' = outcome /\ faults' = faults
  BY DEF Descend, At, NoFault
<1>2. PICK frame \in Frames : frame = current.frame /\ IsNode(current.source)
  BY <1>1, NodeFacts DEF IInv, TypeOK
<1>3. frame.id \in Ids
  BY FrameFacts
<1>4. continuations \in Seq(Frames) /\ capacity \in Nat /\ Len(continuations) \in Nat
  BY DEF IInv, TypeOK
<1>5. /\ continuations' \in Seq(Frames) /\ Len(continuations') = Len(continuations) + 1
      /\ capacity' \in Nat /\ Len(continuations') <= capacity'
  BY <1>1, <1>2, <1>4 DEF Larger
<1>6. OpenScopes(Awaiting(continuations')) =
          IF IsScope(frame) THEN Append(OpenScopes(Awaiting(continuations)), frame.id)
          ELSE OpenScopes(Awaiting(continuations))
  BY <1>1, <1>2, <1>4, OneFrame
<1>7. /\ trace' \in Seq(Events)
      /\ frame.kind = "ensuring" => OpenScopes(trace') = Append(OpenScopes(trace), frame.id)
      /\ frame.kind # "ensuring" => OpenScopes(trace') = OpenScopes(trace)
  <2>1. CASE frame.kind = "ensuring"
    BY <1>1, <1>2, <1>3, <2>1, OpeningScopes DEF Entering, IInv
  <2>2. CASE frame.kind # "ensuring"
    <3>1. trace' = trace
      BY <1>1, <1>2, <2>2, NothingHappens DEF Entering, IInv
    <3>2. QED BY <2>2, <3>1 DEF IInv, TypeOK
  <2>3. QED BY <2>1, <2>2
<1>8. ~AwaitsRelease'
  <2>1. current.source.op = "continue" => current.source \in Effects
    BY <1>1, NodeFacts DEF IInv, TypeOK
  <2>2. QED BY <1>1, <2>1, EffectsAwaitNoRelease DEF AwaitsRelease, Callbacks
<1>9. TypeOK'
  BY <1>1, <1>2, <1>5, <1>7 DEF IInv, TypeOK
<1>10. outcome'.kind # "defect"
  BY <1>1 DEF IInv, DefectIsCurrent
<1>11. ASSUME "handler" \notin faults
       PROVE  OpenScopes(trace') = OpenScopes(Awaiting(continuations'))
  <2>1. CASE frame.kind = "release"
    <3>1. OpenScopes(trace) = Append(OpenScopes(Awaiting(continuations)), frame.id)
      BY <1>1, <1>2, <1>11, <2>1 DEF IInv, ScopesMatchFrames, PendingScopes, AwaitsRelease
    <3>2. QED BY <1>6, <1>7, <2>1, <3>1 DEF IsScope
  <2>2. CASE frame.kind # "release"
    <3>1. OpenScopes(trace) = OpenScopes(Awaiting(continuations))
      BY <1>1, <1>2, <1>11, <2>2, AtInstruction DEF AwaitsRelease
    <3>2. QED BY <1>6, <1>7, <2>2, <3>1 DEF IsScope
  <2>3. QED BY <2>1, <2>2
<1>12. ScopesMatchFrames'
  BY <1>1, <1>8, <1>11 DEF ScopesMatchFrames, PendingScopes
<1>13. QED BY <1>8, <1>9, <1>10, <1>12 DEF IInv, PlaceForRelease, DefectIsCurrent

(* The frame of a release is never the one that finds no place.            *)
LEMMA DescendFailsStep ==
    ASSUME IInv, DescendFails
    PROVE  IInv'
<1>1. /\ pc = "step" /\ Deliver(Defect(BadAlloc), <<>>) /\ Len(continuations) = capacity
      /\ faults' = faults \cup {"push"} /\ "push" \in Faults
  BY DEF DescendFails, At, Fault
<1>2. ~AwaitsRelease
  BY <1>1 DEF IInv, TypeOK, PlaceForRelease
<1>3. trace \o <<>> = trace /\ trace \in Seq(Events) /\ faults \subseteq Faults
  BY NothingHappens DEF IInv, TypeOK
<1>4. Defect(BadAlloc).kind \in Kinds
  BY DEF Defect, Kinds
<1>5. QED BY <1>1, <1>2, <1>3, <1>4, Delivered

-----------------------------------------------------------------------------
(* One continuation.                                                       *)

(* With those events the innermost frame has done what it waited for.      *)
Settled(events) ==
    /\ trace \o events \in Seq(Events)
    /\ "handler" \notin faults =>
          OpenScopes(trace \o events) = OpenScopes(Awaiting(Popped))

Resumed == IInv /\ pc = "deliver" /\ continuations # <<>>

(* The callback returned a node, and what was a defect stays one.          *)
LEMMA Continued ==
    ASSUME Resumed, NEW node, NEW events, Continue(node, events), Settled(events),
           faults \subseteq faults', faults' \subseteq Faults,
           IsNode(node), node.op = "continue" => node.frame.kind # "release",
           outcome.kind = "defect" => node.op = "outcome" /\ node.outcome.kind = "defect"
    PROVE  IInv'
<1>1. /\ pc' = "step" /\ current' = node /\ continuations' = Popped
      /\ trace' = trace \o events /\ UNCHANGED <<program, capacity, outcome>>
  BY DEF Continue
<1>2. TypeOK /\ Popped \in Seq(Frames) /\ Len(Popped) + 1 = Len(continuations)
      /\ Len(Popped) \in Nat /\ capacity \in Nat
  BY PoppedScopes DEF Resumed, IInv, TypeOK
<1>3. Len(Popped) <= capacity
  BY <1>2 DEF TypeOK
<1>4. TypeOK'
  BY <1>1, <1>2, <1>3 DEF TypeOK, Settled
<1>5. ~AwaitsRelease'
  BY <1>1 DEF AwaitsRelease
<1>6. DefectIsCurrent'
  BY <1>1 DEF DefectIsCurrent
<1>7. ScopesMatchFrames'
  BY <1>1, <1>5 DEF ScopesMatchFrames, PendingScopes, Settled
<1>8. QED BY <1>4, <1>5, <1>6, <1>7 DEF IInv, PlaceForRelease

LEMMA Unwound ==
    ASSUME Resumed, NEW x, NEW events, NEW met \in SUBSET Faults,
           Unwind(x, events, met), Settled(events)
    PROVE  IInv'
<1>1. faults \subseteq Faults
  BY DEF Resumed, IInv, TypeOK
<1>2. CASE Continue(Terminal(Defect(x)), events) /\ faults' = faults \cup met
  <2>0. PICK node : node = Terminal(Defect(x))
    OBVIOUS
  <2>1. node.op = "outcome" /\ node.outcome.kind = "defect"
    BY <2>0 DEF Terminal, Defect
  <2>2. IsNode(node)
    BY <2>1 DEF IsNode, Kinds
  <2>3. QED BY <1>1, <1>2, <2>0, <2>1, <2>2, Continued
<1>3. CASE ~(Continue(Terminal(Defect(x)), events) /\ faults' = faults \cup met)
  <2>1. /\ "handler" \in Faults /\ pc' = "exited" /\ outcome' = Defect(BadAlloc)
        /\ continuations' = <<>> /\ capacity' = 0 /\ trace' = trace \o events
        /\ faults' = faults \cup met \cup {"handler"}
        /\ UNCHANGED <<program, current>>
    BY <1>3 DEF Unwind
  <2>2. outcome'.kind = "defect"
    BY <2>1 DEF Defect
  <2>3. <<>> \in Seq(Frames) /\ Len(<<>>) = 0
    OBVIOUS
  <2>4. TypeOK'
    BY <1>1, <2>1, <2>2, <2>3 DEF Resumed, IInv, TypeOK, Settled, Kinds
  <2>5. QED BY <2>1, <2>4 DEF IInv, PlaceForRelease, AwaitsRelease, DefectIsCurrent, ScopesMatchFrames
<1>4. QED BY <1>2, <1>3

LEMMA FaultThrown ==
    ASSUME Resumed, NEW events, ThrowFault(events), Settled(events)
    PROVE  IInv'
BY Unwound DEF ThrowFault

LEMMA PassedOn ==
    ASSUME Resumed, NEW o, NEW events, PassOn(o, events), Settled(events),
           o.kind \in Kinds, outcome.kind = "defect" => o.kind = "defect"
    PROVE  IInv'
<1>1. CASE Continue(Terminal(o), events) /\ NoFault
  <2>0. PICK node : node = Terminal(o)
    OBVIOUS
  <2>1. node.op = "outcome" /\ node.outcome = o
    BY <2>0 DEF Terminal
  <2>2. IsNode(node)
    BY <2>1 DEF IsNode
  <2>3. faults' = faults /\ faults \subseteq Faults
    BY <1>1 DEF NoFault, Resumed, IInv, TypeOK
  <2>4. QED BY <1>1, <2>0, <2>1, <2>2, <2>3, Continued
<1>2. CASE ThrowFault(events)
  BY <1>2, FaultThrown
<1>3. QED BY <1>1, <1>2 DEF PassOn

LEMMA Invoked ==
    ASSUME Resumed, NEW effect \in Callbacks, NEW id \in Ids, Invoke(effect, id),
           Settled(<<<<"call", id>>>>), outcome.kind # "defect"
    PROVE  IInv'
<1>1. CASE effect.op = "throws"
  BY <1>1, Unwound DEF Invoke, Throw
<1>2. CASE effect.op # "throws"
  <2>1. effect \in Effects /\ IsNode(effect)
    BY <1>2 DEF Callbacks, IsNode
  <2>2. effect.op = "continue" => effect.frame.kind # "release"
    BY EffectsAwaitNoRelease
  <2>3. Continue(effect, <<<<"call", id>>>>) /\ faults' = faults /\ faults \subseteq Faults
    BY <1>2 DEF Invoke, NoFault, Resumed, IInv, TypeOK
  <2>4. QED BY <2>1, <2>2, <2>3, Continued
<1>3. QED BY <1>1, <1>2

LEMMA Transformed ==
    ASSUME Resumed, NEW what, NEW o, NEW id \in Ids, Transform(what, o, id),
           Settled(<<<<"call", id>>>>), o.kind \in Kinds, outcome.kind # "defect"
    PROVE  IInv'
BY Unwound, PassedOn DEF Transform, Throw

(* A frame that is no scope is done with no event, or with a call.         *)
LEMMA SettledWithoutScope ==
    ASSUME Resumed, ~IsScope(Frame)
    PROVE  /\ Settled(<<>>) /\ Settled(<<<<"call", Frame.id>>>>)
           /\ Frame.id \in Ids /\ Frame \in Frames /\ outcome.kind \in Kinds
<1>1. TypeOK
  BY DEF Resumed, IInv
<1>2. Frame \in Frames /\ Frame.id \in Ids
  BY <1>1, PoppedScopes DEF Resumed
<1>3. "handler" \notin faults => OpenScopes(trace) = OpenScopes(Awaiting(Popped))
  BY <1>1, AtDeliver, PoppedScopes DEF Resumed
<1>4. outcome.kind \in Kinds /\ trace \in Seq(Events)
  BY <1>1 DEF Resumed, TypeOK, Kinds
<1>5. QED BY <1>1, <1>2, <1>3, <1>4, CallScopes, NothingHappens DEF Settled

LEMMA FlatMapStep ==
    ASSUME IInv, ResumeFlatMap
    PROVE  IInv'
<1>1. Resumed /\ Frame.kind = "flat_map" /\ ~IsScope(Frame)
  BY DEF ResumeFlatMap, Resuming, Resumed, IsScope
<1>2. /\ Settled(<<>>) /\ Settled(<<<<"call", Frame.id>>>>)
      /\ Frame.id \in Ids /\ Frame \in Frames /\ outcome.kind \in Kinds
  BY <1>1, SettledWithoutScope
<1>3. Frame.next \in Callbacks
  BY <1>1, <1>2, FrameFacts DEF UserFrame
<1>4. CASE outcome.kind = "success"
  BY <1>1, <1>2, <1>3, <1>4, Invoked DEF ResumeFlatMap
<1>5. CASE outcome.kind # "success"
  BY <1>1, <1>2, <1>5, PassedOn DEF ResumeFlatMap
<1>6. QED BY <1>4, <1>5

LEMMA CatchAllStep ==
    ASSUME IInv, ResumeCatchAll
    PROVE  IInv'
<1>1. Resumed /\ Frame.kind = "catch_all" /\ ~IsScope(Frame)
  BY DEF ResumeCatchAll, Resuming, Resumed, IsScope
<1>2. /\ Settled(<<>>) /\ Settled(<<<<"call", Frame.id>>>>)
      /\ Frame.id \in Ids /\ Frame \in Frames /\ outcome.kind \in Kinds
  BY <1>1, SettledWithoutScope
<1>3. Frame.recover \in Callbacks
  BY <1>1, <1>2, FrameFacts DEF UserFrame
<1>4. CASE outcome.kind = "failure"
  BY <1>1, <1>2, <1>3, <1>4, Invoked DEF ResumeCatchAll
<1>5. CASE outcome.kind # "failure"
  BY <1>1, <1>2, <1>5, PassedOn DEF ResumeCatchAll
<1>6. QED BY <1>4, <1>5

LEMMA BimapStep ==
    ASSUME IInv, ResumeBimap
    PROVE  IInv'
<1>1. Resumed /\ Frame.kind = "bimap" /\ ~IsScope(Frame)
  BY DEF ResumeBimap, Resuming, Resumed, IsScope
<1>2. /\ Settled(<<>>) /\ Settled(<<<<"call", Frame.id>>>>)
      /\ Frame.id \in Ids /\ Frame \in Frames /\ outcome.kind \in Kinds
  BY <1>1, SettledWithoutScope
<1>3. Success(Frame.id).kind \in Kinds /\ Failure(Frame.id).kind \in Kinds
  BY DEF Success, Failure, Kinds
<1>4. CASE outcome.kind = "success"
  BY <1>1, <1>2, <1>3, <1>4, Transformed DEF ResumeBimap
<1>5. CASE outcome.kind = "failure"
  BY <1>1, <1>2, <1>3, <1>5, Transformed DEF ResumeBimap
<1>6. CASE outcome.kind = "defect"
  BY <1>1, <1>2, <1>6, PassedOn DEF ResumeBimap
<1>7. QED BY <1>4, <1>5, <1>6 DEF ResumeBimap

(* A finalizer or a release closes the innermost open scope.               *)
LEMMA ScopeStep ==
    ASSUME IInv, ResumeEnsuring \/ ResumeRelease
    PROVE  IInv'
<1>1. PICK kind \in {"finalize", "release"} :
         Resumed /\ IsScope(Frame) /\ PassOn(outcome, <<<<kind, Frame.id>>>>)
  BY DEF ResumeEnsuring, ResumeRelease, Resuming, Resumed, IsScope
<1>2. TypeOK
  BY DEF IInv
<1>3. /\ Frame.id \in Ids
      /\ OpenScopes(Awaiting(Popped)) \in Seq(Ids \cup {0})
      /\ OpenScopes(Awaiting(continuations)) = Append(OpenScopes(Awaiting(Popped)), Frame.id)
  BY <1>1, <1>2, PoppedScopes DEF Resumed
<1>4. PICK id \in Ids : id = Frame.id
  BY <1>3
<1>5. trace \in Seq(Events) /\ trace \o <<<<kind, id>>>> = Append(trace, <<kind, id>>)
  <2>1. \A e \in Events : trace \o <<e>> = Append(trace, e)
    BY <1>2 DEF TypeOK
  <2>2. <<kind, id>> \in Events
    BY DEF Events
  <2>3. QED BY <1>2, <2>1, <2>2 DEF TypeOK
<1>6. /\ Append(trace, <<kind, id>>) \in Seq(Events)
      /\ "handler" \notin faults =>
            OpenScopes(Append(trace, <<kind, id>>)) = OpenScopes(Awaiting(Popped))
  <2>1. Append(trace, <<kind, id>>) \in Seq(Events)
    BY <1>5 DEF Events
  <2>2. ASSUME "handler" \notin faults
        PROVE  OpenScopes(Append(trace, <<kind, id>>)) = OpenScopes(Awaiting(Popped))
    <3>1. PICK open \in Seq(Ids \cup {0}) : open = OpenScopes(Awaiting(Popped))
      BY <1>3
    <3>2. OpenScopes(trace) = Append(open, id)
      BY <1>1, <1>3, <1>4, <2>2, <3>1, AtDeliver DEF Resumed
    <3>3. PICK s \in Seq(Events) : s = trace
      BY <1>5
    <3>4. OpenScopes(s) = Append(open, id)
      BY <3>2, <3>3
    <3>5. kind \in {"finalize", "release"} /\ id \in Ids /\ open \in Seq(Ids \cup {0})
      BY <1>1, <1>4, <3>1
    <3>6. OpenScopes(Append(s, <<kind, id>>)) = open
      BY <3>4, <3>5, ClosingScopes
    <3>7. QED BY <3>1, <3>3, <3>6
  <2>3. QED BY <2>1, <2>2
<1>7. Settled(<<<<kind, Frame.id>>>>)
  BY <1>4, <1>5, <1>6, Zenon DEF Settled
<1>8. outcome.kind \in Kinds
  BY <1>1, <1>2 DEF Resumed, TypeOK, Kinds
<1>9. QED BY <1>1, <1>7, <1>8, PassedOn

(* A resource that is acquired and released at once.                       *)
LEMMA AcquiredAndReleased ==
    ASSUME Resumed, ~IsScope(Frame)
    PROVE  Settled(<<<<"acquire", Frame.id>>, <<"release", Frame.id>>>>)
<1>1. PICK id \in Ids : id = Frame.id
  BY SettledWithoutScope
<1>2. PICK a \in Events : a = <<"acquire", id>>
  <2>1. <<"acquire", id>> \in Events
    BY DEF Events
  <2>2. QED BY <2>1
<1>3. PICK r \in Events : r = <<"release", id>>
  <2>1. <<"release", id>> \in Events
    BY DEF Events
  <2>2. QED BY <2>1
<1>4. TypeOK /\ trace \in Seq(Events)
  BY DEF Resumed, IInv, TypeOK
<1>5. PICK s \in Seq(Events) : s = Append(trace, a) /\ s = trace \o <<a>>
  <2>1. Append(trace, a) \in Seq(Events) /\ Append(trace, a) = trace \o <<a>>
    BY <1>4
  <2>2. QED BY <2>1
<1>6. trace \o <<a, r>> = Append(s, r)
  BY <1>4, <1>5
<1>7. PICK open \in Seq(Ids \cup {0}) : open = OpenScopes(trace)
  BY <1>4, TraceScopes
<1>8. OpenScopes(s) = Append(open, id)
  <2>1. OpenScopes(trace \o <<<<"acquire", id>>>>) = Append(OpenScopes(trace), id)
    BY <1>4, OpeningScopes
  <2>2. QED BY <1>2, <1>5, <1>7, <2>1
<1>9. Append(s, r) \in Seq(Events) /\ OpenScopes(Append(s, r)) = open
  <2>1. OpenScopes(Append(s, <<"release", id>>)) = open
    BY <1>8, ClosingScopes
  <2>2. QED BY <1>3, <2>1
<1>10. "handler" \notin faults => open = OpenScopes(Awaiting(Popped))
  BY <1>4, <1>7, AtDeliver, PoppedScopes DEF Resumed
<1>11. trace \o <<<<"acquire", Frame.id>>, <<"release", Frame.id>>>> = Append(s, r)
  BY <1>1, <1>2, <1>3, <1>6
<1>12. QED BY <1>9, <1>10, <1>11, Zenon DEF Settled

(* The bracket's own place in the buffer becomes that of the release.      *)
LEMMA Protected ==
    ASSUME Resumed, Frame.kind = "bracket",
           Continue(ProtectedUse(Frame), <<<<"acquire", Frame.id>>>>), NoFault,
           outcome.kind = "success"
    PROVE  IInv'
<1>1. PICK id \in Ids : id = Frame.id
  BY SettledWithoutScope DEF IsScope
<1>2. PICK node : node = ProtectedUse(Frame)
  OBVIOUS
<1>3. /\ pc' = "step" /\ current' = node /\ continuations' = Popped
      /\ trace' = trace \o <<<<"acquire", id>>>>
      /\ capacity' = capacity /\ outcome' = outcome /\ faults' = faults
  BY <1>1, <1>2 DEF Continue, NoFault
<1>4. /\ node.op = "continue" /\ node.frame.kind = "release" /\ node.frame.id = id
  BY <1>1, <1>2 DEF ProtectedUse
<1>5. /\ TypeOK /\ Popped \in Seq(Frames) /\ Len(Popped) + 1 = Len(continuations)
      /\ Len(Popped) \in Nat /\ capacity \in Nat /\ Frame \in Frames /\ ~IsScope(Frame)
  BY PoppedScopes DEF Resumed, IInv, TypeOK, IsScope
<1>6. Len(Popped) < capacity
  BY <1>5 DEF TypeOK
<1>7. IsNode(node)
  BY <1>2, <1>5 DEF IsNode
<1>8. trace' \in Seq(Events) /\ OpenScopes(trace') = Append(OpenScopes(trace), id)
  BY <1>3, <1>5, OpeningScopes
<1>9. TypeOK'
  BY <1>3, <1>5, <1>6, <1>7, <1>8 DEF TypeOK
<1>10. PlaceForRelease'
  BY <1>3, <1>6 DEF PlaceForRelease
<1>11. DefectIsCurrent'
  BY <1>3 DEF DefectIsCurrent
<1>12. ASSUME "handler" \notin faults
       PROVE  OpenScopes(trace') = PendingScopes'
  <2>1. OpenScopes(trace) = OpenScopes(Awaiting(Popped))
    BY <1>5, <1>12, AtDeliver, PoppedScopes DEF Resumed
  <2>2. PendingScopes' = Append(OpenScopes(Awaiting(Popped)), id)
    BY <1>3, <1>4 DEF PendingScopes, AwaitsRelease
  <2>3. QED BY <1>8, <2>1, <2>2
<1>13. QED BY <1>3, <1>9, <1>10, <1>11, <1>12 DEF IInv, ScopesMatchFrames

LEMMA BracketStep ==
    ASSUME IInv, ResumeBracket
    PROVE  IInv'
<1>1. Resumed /\ Frame.kind = "bracket" /\ ~IsScope(Frame)
  BY DEF ResumeBracket, Resuming, Resumed, IsScope
<1>2. Settled(<<>>) /\ outcome.kind \in Kinds
  BY <1>1, SettledWithoutScope
<1>3. Settled(<<<<"acquire", Frame.id>>, <<"release", Frame.id>>>>)
  BY <1>1, AcquiredAndReleased
<1>4. CASE outcome.kind # "success"
  BY <1>1, <1>2, <1>4, PassedOn DEF ResumeBracket
<1>5. CASE outcome.kind = "success" /\ Frame.protect = "throws"
  BY <1>1, <1>3, <1>5, Unwound DEF ResumeBracket, Throw
<1>6. CASE outcome.kind = "success" /\ Frame.protect # "throws"
  <2>1. \/ Continue(ProtectedUse(Frame), <<<<"acquire", Frame.id>>>>) /\ NoFault
        \/ ThrowFault(<<<<"acquire", Frame.id>>, <<"release", Frame.id>>>>)
    BY <1>6 DEF ResumeBracket
  <2>2. QED BY <1>1, <1>3, <1>6, <2>1, Protected, FaultThrown
<1>7. QED BY <1>4, <1>5, <1>6

-----------------------------------------------------------------------------
(* The end, and the whole.                                                 *)

LEMMA EndStep ==
    ASSUME IInv, Return \/ RunExit
    PROVE  IInv'
<1>1. /\ pc \in {"deliver", "returned"} /\ pc' \in {"returned", "exited"}
      /\ continuations = <<>>
      /\ UNCHANGED <<program, current, continuations, capacity, trace>>
      /\ outcome' = outcome \/ outcome' = Defect(BadAlloc)
      /\ faults \subseteq faults' /\ faults' \subseteq Faults
  BY DEF Return, RunExit, NoFault, Fault, IInv, TypeOK
<1>2. Defect(BadAlloc).kind = "defect"
  BY DEF Defect
<1>3. TypeOK'
  BY <1>1, <1>2 DEF IInv, TypeOK, Kinds
<1>4. ~AwaitsRelease' /\ ~AwaitsRelease
  BY <1>1 DEF AwaitsRelease
<1>5. ScopesMatchFrames'
  BY <1>1, <1>4 DEF IInv, ScopesMatchFrames, PendingScopes
<1>6. QED BY <1>1, <1>3, <1>4, <1>5 DEF IInv, PlaceForRelease, DefectIsCurrent

LEMMA InitOK == Init => IInv
<1>1. SUFFICES ASSUME Init
               PROVE  IInv
  OBVIOUS
<1>2. program \in Effects /\ current = program /\ ~AwaitsRelease
  BY <1>1, EffectsAssumption, EffectsAwaitNoRelease DEF Init, AwaitsRelease, Callbacks
<1>3. TypeOK
  BY <1>1, <1>2 DEF Init, TypeOK, IsNode, NotYet
<1>4. Awaiting(<<>>) = <<>>
  BY DEF Awaiting
<1>5. ScopesMatchFrames
  BY <1>1, <1>2, <1>4, NoEvents DEF Init, ScopesMatchFrames, PendingScopes
<1>6. DefectIsCurrent
  BY <1>1 DEF Init, DefectIsCurrent, NotYet
<1>7. QED BY <1>2, <1>3, <1>5, <1>6 DEF IInv, PlaceForRelease

LEMMA NextOK == IInv /\ [Next]_vars => IInv'
<1>1. SUFFICES ASSUME IInv, [Next]_vars
               PROVE  IInv'
  OBVIOUS
<1>2. CASE UNCHANGED vars
  BY <1>1, <1>2 DEF vars, IInv, TypeOK, PlaceForRelease, DefectIsCurrent,
     ScopesMatchFrames, PendingScopes, AwaitsRelease
<1>3. CASE Next
  BY <1>1, <1>3, OutcomeStep, SuspendedStep, DescendStep, DescendFailsStep,
     FlatMapStep, BimapStep, CatchAllStep, ScopeStep, BracketStep, EndStep DEF Next
<1>4. QED BY <1>1, <1>2, <1>3

(* The inductive invariant, of every set of programs and of faults.        *)
THEOREM Invariance == Spec => []IInv
BY InitOK, NextOK, PTL DEF Spec

(* Whatever throws, the scopes that were entered and not yet closed are    *)
(* exactly those with a frame waiting, in that order.                      *)
THEOREM ScopesAreBalanced == Spec => []ScopesMatchFrames
<1>1. IInv => ScopesMatchFrames
  BY DEF IInv
<1>2. QED BY <1>1, Invariance, PTL

(* Unless an exception leaves the handler, run_exit answers when every      *)
(* scope that was entered has been closed.                                 *)
THEOREM NothingStaysOpen == "handler" \notin Faults => (Spec => []EveryScopeIsClosed)
<1>1. ASSUME "handler" \notin Faults, IInv
      PROVE  EveryScopeIsClosed
  <2>1. SUFFICES ASSUME pc = "exited"
                 PROVE  OpenScopes(trace) = <<>>
    BY DEF EveryScopeIsClosed
  <2>2. continuations = <<>> /\ "handler" \notin faults
    BY <1>1, <2>1 DEF IInv, TypeOK
  <2>3. OpenScopes(trace) = OpenScopes(Awaiting(<<>>))
    BY <1>1, <2>1, <2>2 DEF IInv, ScopesMatchFrames, PendingScopes, AwaitsRelease
  <2>4. Awaiting(<<>>) = <<>>
    BY DEF Awaiting
  <2>5. QED BY <2>3, <2>4, NoEvents
<1>2. SUFFICES ASSUME "handler" \notin Faults
               PROVE  Spec => []EveryScopeIsClosed
  OBVIOUS
<1>3. IInv => EveryScopeIsClosed
  BY <1>1, <1>2
<1>4. QED BY <1>3, Invariance, PTL

-----------------------------------------------------------------------------
(* A defect is not recoverable.                                            *)

LEMMA DefectPassedOn ==
    ASSUME outcome.kind = "defect", NEW events, PassOn(outcome, events)
    PROVE  outcome'.kind = "defect" /\ trace' = trace \o events
<1>1. CASE Continue(Terminal(outcome), events)
  BY <1>1 DEF Continue
<1>2. CASE ThrowFault(events)
  <2>1. Defect(BadAlloc).kind = "defect"
    BY DEF Defect
  <2>2. QED BY <1>2, <2>1 DEF ThrowFault, Unwind, Continue
<1>3. QED BY <1>1, <1>2 DEF PassOn

LEMMA DefectStays ==
    ASSUME IInv, Next, outcome.kind = "defect"
    PROVE  outcome'.kind = "defect" /\ (trace' = trace \/ Closes(Last(trace')))
<1>1. trace \in Seq(Events) /\ trace \o <<>> = trace
  BY NothingHappens DEF IInv, TypeOK
<1>2. CASE pc = "step"
  <2>1. current.op = "outcome" /\ current.outcome.kind = "defect"
    BY <1>2 DEF IInv, DefectIsCurrent
  <2>2. Constant
    BY <1>2, <2>1 DEF Next, MovedFrom, Descend, DescendFails, Suspended, Eval, At,
       ResumeFlatMap, ResumeBimap, ResumeCatchAll, ResumeEnsuring, ResumeRelease,
       ResumeBracket, Resuming, Return, RunExit
  <2>3. QED BY <1>1, <2>1, <2>2 DEF Constant, Deliver
<1>3. CASE ResumeFlatMap \/ ResumeBimap \/ ResumeCatchAll \/ ResumeBracket
  <2>1. PassOn(outcome, <<>>)
    BY <1>3 DEF ResumeFlatMap, ResumeBimap, ResumeCatchAll, ResumeBracket
  <2>2. QED BY <1>1, <2>1, DefectPassedOn
<1>4. CASE ResumeEnsuring \/ ResumeRelease
  <2>1. PICK kind \in {"finalize", "release"} :
           Resumed /\ PassOn(outcome, <<<<kind, Frame.id>>>>)
    BY <1>4 DEF ResumeEnsuring, ResumeRelease, Resuming, Resumed
  <2>2. PICK id \in Ids : id = Frame.id
    BY <2>1, PoppedScopes DEF Resumed, IInv
  <2>3. PICK e \in Events : e = <<kind, id>> /\ Closes(e)
    <3>1. <<kind, id>> \in Events
      BY <2>1 DEF Events
    <3>2. <<kind, id>>[1] = kind
      OBVIOUS
    <3>3. QED BY <2>1, <3>1, <3>2 DEF Closes
  <2>4. outcome'.kind = "defect" /\ trace' = trace \o <<e>>
    BY <2>1, <2>2, <2>3, DefectPassedOn
  <2>5. Last(trace \o <<e>>) = e
    BY <1>1 DEF Last
  <2>6. QED BY <2>3, <2>4, <2>5
<1>5. CASE Return \/ RunExit
  BY <1>5 DEF Return, RunExit
<1>6. CASE pc # "step" /\ ~(Return \/ RunExit)
  BY <1>3, <1>4, <1>6 DEF Next, MovedFrom, Descend, DescendFails, Suspended, Eval, Constant, At
<1>7. QED BY <1>2, <1>5, <1>6

(* After a defect only finalizers and releases are called, and nothing     *)
(* turns the defect into a value or a typed error.                         *)
THEOREM NoRecovery == Spec => DefectIsFinal
<1>1. IInv /\ [Next]_vars =>
         [outcome.kind = "defect" =>
             /\ outcome'.kind = "defect"
             /\ trace' = trace \/ Closes(Last(trace'))]_vars
  BY DefectStays
<1>2. QED BY <1>1, Invariance, PTL DEF Spec, DefectIsFinal

-----------------------------------------------------------------------------
(* Nothing is closed twice, even when frames are lost: of each scope, what *)
(* was opened was closed or is still open.                                 *)

(* How many elements of s are in M.                                        *)
Times(s, M) == Cardinality({j \in DOMAIN s : s[j] \in M})

Openings(id) == {e \in Events : Opens(e) /\ e[2] = id}

Closings(id) == {e \in Events : Closes(e) /\ e[2] = id}

IsBalanced(events) ==
    \A id \in Ids :
        Times(events, Openings(id)) = Times(events, Closings(id)) + Times(OpenScopes(events), {id})

(* Only the handler loses frames, and that is the run's end.               *)
LossIsLast == "handler" \in faults => pc = "exited"

CountInv == IsBalanced(trace) /\ LossIsLast

LEMMA OneMore ==
    ASSUME NEW S, NEW s \in Seq(S), NEW e \in S, NEW M
    PROVE  /\ Times(s, M) \in Nat
           /\ Times(Append(s, e), M) = Times(s, M) + (IF e \in M THEN 1 ELSE 0)
<1>1. PICK n \in Nat : n = Len(s) /\ DOMAIN s = 1 .. n
  OBVIOUS
<1>2. PICK t \in Seq(S) : t = Append(s, e)
  <2>1. Append(s, e) \in Seq(S)
    OBVIOUS
  <2>2. QED BY <2>1
<1>3. DOMAIN t = 1 .. n + 1 /\ t[n + 1] = e /\ \A j \in 1 .. n : t[j] = s[j]
  BY <1>1, <1>2
<1>4. PICK P : P = {j \in DOMAIN s : s[j] \in M}
  OBVIOUS
<1>5. PICK Q : Q = {j \in DOMAIN t : t[j] \in M}
  OBVIOUS
<1>6. IsFiniteSet(P) /\ Cardinality(P) \in Nat /\ n + 1 \notin P
  <2>1. IsFiniteSet(1 .. n)
    BY FS_Interval
  <2>2. P \subseteq 1 .. n
    BY <1>1, <1>4
  <2>3. IsFiniteSet(P)
    BY <2>1, <2>2, FS_Subset
  <2>4. n + 1 \notin 1 .. n
    BY <1>1
  <2>5. QED BY <2>2, <2>3, <2>4, FS_CardinalityType
<1>7. CASE e \in M
  <2>1. Q = P \cup {n + 1}
    BY <1>1, <1>3, <1>4, <1>5, <1>7
  <2>2. Cardinality(Q) = Cardinality(P) + 1
    BY <1>6, <2>1, FS_AddElement
  <2>3. QED BY <1>2, <1>4, <1>5, <1>6, <1>7, <2>2 DEF Times
<1>8. CASE e \notin M
  <2>1. Q = P
    BY <1>1, <1>3, <1>4, <1>5, <1>8
  <2>2. Times(t, M) = Cardinality(P) /\ Times(s, M) = Cardinality(P)
    BY <1>4, <1>5, <2>1 DEF Times
  <2>3. QED BY <1>2, <1>6, <1>8, <2>2
<1>9. QED BY <1>7, <1>8

LEMMA TimesType ==
    ASSUME NEW S, NEW s \in Seq(S), NEW M
    PROVE  Times(s, M) \in Nat
<1>1. IsFiniteSet(1 .. Len(s)) /\ DOMAIN s = 1 .. Len(s)
  BY FS_Interval
<1>2. IsFiniteSet({j \in DOMAIN s : s[j] \in M})
  BY <1>1, FS_Subset
<1>3. QED BY <1>2, FS_CardinalityType DEF Times

LEMMA NeutralEvent ==
    ASSUME NEW s \in Seq(Events), IsBalanced(s), NEW e \in Events, ~Opens(e), ~Closes(e)
    PROVE  IsBalanced(Append(s, e))
<1>1. OpenScopes(Append(s, e)) = OpenScopes(s)
  BY OneEvent DEF Follow
<1>2. ASSUME NEW id \in Ids
      PROVE  /\ Times(Append(s, e), Openings(id)) = Times(s, Openings(id))
             /\ Times(Append(s, e), Closings(id)) = Times(s, Closings(id))
  <2>1. e \notin Openings(id) /\ e \notin Closings(id)
    BY DEF Openings, Closings
  <2>2. QED BY <2>1, OneMore
<1>3. QED BY <1>1, <1>2 DEF IsBalanced

LEMMA OpeningEvent ==
    ASSUME NEW s \in Seq(Events), IsBalanced(s), NEW e \in Events, Opens(e)
    PROVE  IsBalanced(Append(s, e))
<1>1. PICK open \in Seq(Ids \cup {0}) : open = OpenScopes(s)
  BY OpenScopesType DEF Events
<1>2. PICK name \in Ids : name = e[2]
  BY DEF Events
<1>3. OpenScopes(Append(s, e)) = Append(open, name)
  BY <1>1, <1>2, OneEvent DEF Follow
<1>4. ~Closes(e)
  BY DEF Opens, Closes
<1>5. ASSUME NEW id \in Ids
      PROVE  Times(Append(s, e), Openings(id)) =
                 Times(Append(s, e), Closings(id)) + Times(OpenScopes(Append(s, e)), {id})
  <2>1. PICK k : k = IF name = id THEN 1 ELSE 0
    OBVIOUS
  <2>2. Times(Append(s, e), Openings(id)) = Times(s, Openings(id)) + k
    <3>1. e \in Openings(id) <=> name = id
      BY <1>2 DEF Openings
    <3>2. QED BY <2>1, <3>1, OneMore
  <2>3. Times(Append(s, e), Closings(id)) = Times(s, Closings(id))
    <3>1. e \notin Closings(id)
      BY <1>4 DEF Closings
    <3>2. QED BY <3>1, OneMore
  <2>4. Times(Append(open, name), {id}) = Times(open, {id}) + k
    BY <1>1, <1>2, <2>1, OneMore
  <2>5. Times(s, Openings(id)) = Times(s, Closings(id)) + Times(open, {id})
    BY <1>1 DEF IsBalanced
  <2>6. /\ Times(s, Closings(id)) \in Nat /\ Times(open, {id}) \in Nat /\ k \in Nat
    BY <1>1, <2>1, TimesType
  <2>7. QED BY <1>3, <2>2, <2>3, <2>4, <2>5, <2>6
<1>6. QED BY <1>5 DEF IsBalanced

LEMMA ClosingEvent ==
    ASSUME NEW s \in Seq(Events), IsBalanced(s), NEW name \in Ids,
           NEW kind \in {"finalize", "release"},
           NEW open \in Seq(Ids \cup {0}), OpenScopes(s) = Append(open, name)
    PROVE  IsBalanced(Append(s, <<kind, name>>))
<1>1. PICK e \in Events : e = <<kind, name>> /\ e[2] = name /\ Closes(e) /\ ~Opens(e)
  <2>1. <<kind, name>> \in Events
    BY DEF Events
  <2>2. <<kind, name>>[1] = kind /\ <<kind, name>>[2] = name
    OBVIOUS
  <2>3. QED BY <2>1, <2>2 DEF Opens, Closes
<1>2. OpenScopes(Append(s, e)) = open
  <2>1. OpenScopes(Append(s, <<kind, name>>)) = open
    BY ClosingScopes
  <2>2. QED BY <1>1, <2>1
<1>3. ASSUME NEW id \in Ids
      PROVE  Times(Append(s, e), Openings(id)) =
                 Times(Append(s, e), Closings(id)) + Times(OpenScopes(Append(s, e)), {id})
  <2>1. PICK k : k = IF name = id THEN 1 ELSE 0
    OBVIOUS
  <2>2. Times(Append(s, e), Closings(id)) = Times(s, Closings(id)) + k
    <3>1. e \in Closings(id) <=> name = id
      BY <1>1 DEF Closings
    <3>2. QED BY <1>1, <2>1, <3>1, OneMore
  <2>3. Times(Append(s, e), Openings(id)) = Times(s, Openings(id))
    <3>1. e \notin Openings(id)
      BY <1>1 DEF Openings
    <3>2. QED BY <1>1, <3>1, OneMore
  <2>4. Times(Append(open, name), {id}) = Times(open, {id}) + k
    BY <2>1, OneMore
  <2>5. Times(s, Openings(id)) = Times(s, Closings(id)) + Times(Append(open, name), {id})
    BY DEF IsBalanced
  <2>6. /\ Times(s, Closings(id)) \in Nat /\ Times(open, {id}) \in Nat /\ k \in Nat
    BY <2>1, TimesType
  <2>7. QED BY <1>2, <2>2, <2>3, <2>4, <2>5, <2>6
<1>4. QED BY <1>1, <1>3 DEF IsBalanced

(* What a step adds to the trace: nothing, one event that opens or closes  *)
(* no scope or opens one, one that closes the innermost scope, or a scope  *)
(* that is closed at once.                                                 *)
Neutral == \E id \in Ids : trace' = trace \o <<<<"call", id>>>>

Opening ==
    \E id \in Ids, kind \in {"enter", "acquire"} : trace' = trace \o <<<<kind, id>>>>

Closing ==
    \E id \in Ids, kind \in {"finalize", "release"} :
        /\ trace' = trace \o <<<<kind, id>>>>
        /\ \E open \in Seq(Ids \cup {0}) : OpenScopes(trace) = Append(open, id)

OpeningAndClosing ==
    \E id \in Ids : trace' = trace \o <<<<"acquire", id>>, <<"release", id>>>>

LEMMA ResumeEvents ==
    ASSUME Resumed, LossIsLast
    PROVE  /\ Frame.id \in Ids /\ trace \o <<>> = trace
           /\ IsScope(Frame) =>
                 \E open \in Seq(Ids \cup {0}) : OpenScopes(trace) = Append(open, Frame.id)
<1>1. TypeOK /\ pc = "deliver" /\ continuations # <<>> /\ "handler" \notin faults
  BY DEF Resumed, IInv, LossIsLast
<1>2. OpenScopes(trace) = OpenScopes(Awaiting(continuations))
  BY <1>1, AtDeliver DEF Resumed
<1>3. QED BY <1>1, <1>2, PoppedScopes, NothingHappens

(* Every way on from a continuation adds the events it is given.           *)
LEMMA ContinuationEvents ==
    ASSUME NEW events
    PROVE  /\ \A node : Continue(node, events) => trace' = trace \o events
           /\ \A x, met : Unwind(x, events, met) => trace' = trace \o events
           /\ \A x : Throw(x, events) => trace' = trace \o events
           /\ ThrowFault(events) => trace' = trace \o events
           /\ \A o : PassOn(o, events) => trace' = trace \o events
BY DEF PassOn, ThrowFault, Throw, Unwind, Continue

LEMMA StepEvents ==
    ASSUME IInv, LossIsLast, Next
    PROVE  trace' = trace \/ Neutral \/ Opening \/ Closing \/ OpeningAndClosing
<1>1. TypeOK /\ trace \o <<>> = trace /\ IsNode(current)
  BY NothingHappens DEF IInv, TypeOK
<1>2. CASE MovedFrom \/ DescendFails \/ Constant \/ Return \/ RunExit
  BY <1>1, <1>2 DEF MovedFrom, DescendFails, Constant, Return, RunExit, Deliver
<1>3. CASE Eval
  <2>1. current.id \in Ids
    BY <1>1, <1>3, NodeFacts DEF Eval, At
  <2>2. trace' = trace \o <<<<"call", current.id>>>>
    BY <1>3 DEF Eval, Deliver
  <2>3. QED BY <2>1, <2>2 DEF Neutral
<1>4. CASE Suspended
  <2>1. current.id \in Ids
    BY <1>1, <1>4, NodeFacts DEF Suspended, At
  <2>2. Append(trace, <<"call", current.id>>) = trace \o <<<<"call", current.id>>>>
    <3>1. \A e \in Events : Append(trace, e) = trace \o <<e>>
      BY <1>1 DEF TypeOK
    <3>2. <<"call", current.id>> \in Events
      BY <2>1 DEF Events
    <3>3. QED BY <3>1, <3>2
  <2>3. trace' = trace \o <<<<"call", current.id>>>>
    BY <1>4, <2>2 DEF Suspended, Deliver
  <2>4. QED BY <2>1, <2>3 DEF Neutral
<1>5. CASE Descend
  <2>1. /\ current.op = "continue"
        /\ trace' = trace \o Entering(current.frame)
    BY <1>5 DEF Descend, At
  <2>2. current.frame.id \in Ids
    BY <1>1, <2>1, NodeFacts, FrameFacts
  <2>3. CASE current.frame.kind = "ensuring"
    <3>1. trace' = trace \o <<<<"enter", current.frame.id>>>>
      BY <2>1, <2>3 DEF Entering
    <3>2. QED BY <2>2, <3>1 DEF Opening
  <2>4. CASE current.frame.kind # "ensuring"
    BY <1>1, <2>1, <2>4 DEF Entering
  <2>5. QED BY <2>3, <2>4
<1>6. CASE ResumeFlatMap \/ ResumeBimap \/ ResumeCatchAll
  <2>1. Frame.id \in Ids
    BY <1>6, ResumeEvents DEF ResumeFlatMap, ResumeBimap, ResumeCatchAll, Resuming, Resumed
  <2>2. PICK call : call = <<<<"call", Frame.id>>>>
    OBVIOUS
  <2>3. \/ \E effect : Invoke(effect, Frame.id)
        \/ \E what, o : Transform(what, o, Frame.id)
        \/ PassOn(outcome, <<>>)
    BY <1>6 DEF ResumeFlatMap, ResumeBimap, ResumeCatchAll
  <2>4. trace' = trace \o call \/ trace' = trace \o <<>>
    BY <2>2, <2>3, ContinuationEvents DEF Invoke, Transform
  <2>5. QED BY <1>1, <2>1, <2>2, <2>4 DEF Neutral
<1>7. CASE ResumeEnsuring \/ ResumeRelease
  <2>1. PICK kind \in {"finalize", "release"} :
           Resumed /\ IsScope(Frame) /\ PassOn(outcome, <<<<kind, Frame.id>>>>)
    BY <1>7 DEF ResumeEnsuring, ResumeRelease, Resuming, Resumed, IsScope
  <2>2. trace' = trace \o <<<<kind, Frame.id>>>>
    BY <2>1, ContinuationEvents
  <2>3. QED BY <2>1, <2>2, ResumeEvents DEF Closing
<1>8. CASE ResumeBracket
  <2>1. Frame.id \in Ids
    BY <1>8, ResumeEvents DEF ResumeBracket, Resuming, Resumed
  <2>2. PICK both : both = <<<<"acquire", Frame.id>>, <<"release", Frame.id>>>>
    OBVIOUS
  <2>3. PICK acquired : acquired = <<<<"acquire", Frame.id>>>>
    OBVIOUS
  <2>4. \/ PassOn(outcome, <<>>)
        \/ Throw(Frame.id, both)
        \/ Continue(ProtectedUse(Frame), acquired)
        \/ ThrowFault(both)
    BY <1>8, <2>2, <2>3 DEF ResumeBracket
  <2>5. trace' = trace \o <<>> \/ trace' = trace \o acquired \/ trace' = trace \o both
    BY <2>4, ContinuationEvents
  <2>6. QED BY <1>1, <2>1, <2>2, <2>3, <2>5 DEF Opening, OpeningAndClosing
<1>9. QED BY <1>2, <1>3, <1>4, <1>5, <1>6, <1>7, <1>8 DEF Next

LEMMA BalanceStep ==
    ASSUME IInv, CountInv, Next
    PROVE  IsBalanced(trace')
<1>1. PICK s \in Seq(Events) : s = trace
  BY DEF IInv, TypeOK
<1>2. IsBalanced(s) /\ \A e \in Events : s \o <<e>> = Append(s, e)
  BY <1>1 DEF CountInv
<1>3. CASE trace' = trace
  BY <1>3 DEF CountInv
<1>4. CASE Neutral
  <2>1. PICK id \in Ids : trace' = trace \o <<<<"call", id>>>>
    BY <1>4 DEF Neutral
  <2>2. PICK e \in Events : e = <<"call", id>> /\ ~Opens(e) /\ ~Closes(e)
    <3>1. <<"call", id>> \in Events /\ <<"call", id>>[1] = "call"
      BY DEF Events
    <3>2. QED BY <3>1 DEF Opens, Closes
  <2>3. trace' = Append(s, e)
    BY <1>1, <1>2, <2>1, <2>2
  <2>4. QED BY <1>2, <2>2, <2>3, NeutralEvent
<1>5. CASE Opening
  <2>1. PICK id \in Ids, kind \in {"enter", "acquire"} : trace' = trace \o <<<<kind, id>>>>
    BY <1>5 DEF Opening
  <2>2. PICK e \in Events : e = <<kind, id>> /\ Opens(e)
    <3>1. <<kind, id>> \in Events /\ <<kind, id>>[1] = kind
      BY DEF Events
    <3>2. QED BY <3>1 DEF Opens
  <2>3. trace' = Append(s, e)
    BY <1>1, <1>2, <2>1, <2>2
  <2>4. QED BY <1>2, <2>2, <2>3, OpeningEvent
<1>6. CASE Closing
  <2>1. PICK id \in Ids, kind \in {"finalize", "release"} :
           /\ trace' = trace \o <<<<kind, id>>>>
           /\ \E open \in Seq(Ids \cup {0}) : OpenScopes(trace) = Append(open, id)
    BY <1>6 DEF Closing
  <2>2. PICK open \in Seq(Ids \cup {0}) : OpenScopes(s) = Append(open, id)
    BY <1>1, <2>1
  <2>3. <<kind, id>> \in Events
    BY DEF Events
  <2>4. trace' = Append(s, <<kind, id>>)
    BY <1>1, <1>2, <2>1, <2>3
  <2>5. IsBalanced(Append(s, <<kind, id>>))
    BY <1>2, <2>2, ClosingEvent
  <2>6. QED BY <2>4, <2>5
<1>7. CASE OpeningAndClosing
  <2>1. PICK id \in Ids : trace' = trace \o <<<<"acquire", id>>, <<"release", id>>>>
    BY <1>7 DEF OpeningAndClosing
  <2>2. PICK a \in Events : a = <<"acquire", id>> /\ Opens(a) /\ ~Closes(a) /\ a[2] = id
    <3>1. /\ <<"acquire", id>> \in Events
          /\ <<"acquire", id>>[1] = "acquire" /\ <<"acquire", id>>[2] = id
      BY DEF Events
    <3>2. QED BY <3>1 DEF Opens, Closes
  <2>3. PICK r \in Events : r = <<"release", id>>
    BY DEF Events
  <2>4. PICK t \in Seq(Events) : t = Append(s, a)
    <3>1. Append(s, a) \in Seq(Events)
      OBVIOUS
    <3>2. QED BY <3>1
  <2>5. trace' = Append(t, r)
    <3>1. s \o <<a, r>> = Append(Append(s, a), r)
      OBVIOUS
    <3>2. trace' = s \o <<a, r>>
      BY <1>1, <2>1, <2>2, <2>3
    <3>3. QED BY <2>4, <3>1, <3>2
  <2>6. IsBalanced(t)
    BY <1>2, <2>2, <2>4, OpeningEvent
  <2>7. PICK open \in Seq(Ids \cup {0}) : open = OpenScopes(s)
    BY OpenScopesType DEF Events
  <2>8. OpenScopes(t) = Append(open, id)
    BY <2>2, <2>4, <2>7, OneEvent DEF Follow
  <2>9. IsBalanced(Append(t, <<"release", id>>))
    BY <2>6, <2>8, ClosingEvent
  <2>10. QED BY <2>3, <2>5, <2>9
<1>8. LossIsLast
  BY DEF CountInv
<1>9. QED BY <1>3, <1>4, <1>5, <1>6, <1>7, <1>8, StepEvents

LEMMA LossStep ==
    ASSUME LossIsLast, Next
    PROVE  LossIsLast'
<1>1. pc # "exited" /\ "handler" \notin faults
  BY DEF LossIsLast, Next, MovedFrom, Descend, DescendFails, Suspended, Eval, Constant, At,
     ResumeFlatMap, ResumeBimap, ResumeCatchAll, ResumeEnsuring, ResumeRelease,
     ResumeBracket, Resuming, Return, RunExit
<1>2. "handler" \in faults' => pc' = "exited"
  BY <1>1 DEF Next, MovedFrom, Descend, DescendFails, Suspended, Eval, Constant,
     ResumeFlatMap, ResumeBimap, ResumeCatchAll, ResumeEnsuring, ResumeRelease,
     ResumeBracket, Return, RunExit, NoFault, Fault, Invoke, Transform, PassOn, Throw,
     ThrowFault, Unwind
<1>3. QED BY <1>2 DEF LossIsLast

LEMMA CountInit ==
    ASSUME Init
    PROVE  CountInv
<1>1. trace = <<>> /\ faults = {} /\ OpenScopes(<<>>) = <<>>
  BY NoEvents DEF Init
<1>2. \A M : Times(<<>>, M) = 0
  <2>1. \A M : {j \in DOMAIN <<>> : <<>>[j] \in M} = {}
    OBVIOUS
  <2>2. QED BY <2>1, FS_EmptySet DEF Times
<1>3. IsBalanced(<<>>)
  BY <1>1, <1>2 DEF IsBalanced
<1>4. QED BY <1>1, <1>3 DEF CountInv, LossIsLast

(* Of a balanced trace nothing was closed more often than it was opened.   *)
LEMMA BalancedIsNeverClosedTwice ==
    ASSUME IInv, IsBalanced(trace)
    PROVE  NeverClosedTwice
<1>1. PICK s \in Seq(Events) : s = trace
  BY DEF IInv, TypeOK
<1>2. ASSUME NEW i \in DOMAIN trace
      PROVE  Cardinality({j \in DOMAIN trace : Closes(trace[j]) /\ trace[j][2] = trace[i][2]})
                <= Cardinality({j \in DOMAIN trace : Opens(trace[j]) /\ trace[j][2] = trace[i][2]})
  <2>1. PICK id \in Ids : id = trace[i][2]
    BY <1>1 DEF Events
  <2>2. \A j \in DOMAIN trace : trace[j] \in Events
    BY <1>1
  <2>3. {j \in DOMAIN trace : Closes(trace[j]) /\ trace[j][2] = id}
           = {j \in DOMAIN trace : trace[j] \in Closings(id)}
    BY <2>2 DEF Closings
  <2>4. {j \in DOMAIN trace : Opens(trace[j]) /\ trace[j][2] = id}
           = {j \in DOMAIN trace : trace[j] \in Openings(id)}
    BY <2>2 DEF Openings
  <2>5. PICK open \in Seq(Ids \cup {0}) : open = OpenScopes(trace)
    BY <1>1, OpenScopesType DEF Events
  <2>6. Times(trace, Openings(id)) = Times(trace, Closings(id)) + Times(open, {id})
    BY <2>5 DEF IsBalanced
  <2>7. Times(trace, Closings(id)) \in Nat /\ Times(open, {id}) \in Nat
    BY <1>1, TimesType
  <2>8. Times(trace, Closings(id)) <= Times(trace, Openings(id))
    BY <2>6, <2>7
  <2>9. QED BY <2>1, <2>3, <2>4, <2>8 DEF Times
<1>3. QED BY <1>2 DEF NeverClosedTwice

(* Nothing is closed that was not opened, nor more often than it was       *)
(* opened, even when an exception leaves the handler.                      *)
THEOREM ClosedAtMostOnce == Spec => []NeverClosedTwice
<1>1. Init => CountInv
  BY CountInit
<1>2. IInv /\ CountInv /\ [Next]_vars => CountInv'
  <2>1. SUFFICES ASSUME IInv, CountInv, [Next]_vars
                 PROVE  CountInv'
    OBVIOUS
  <2>2. CASE UNCHANGED vars
    BY <2>1, <2>2 DEF vars, CountInv, LossIsLast
  <2>3. CASE Next
    BY <2>1, <2>3, BalanceStep, LossStep DEF CountInv
  <2>4. QED BY <2>1, <2>2, <2>3
<1>3. IInv /\ CountInv => NeverClosedTwice
  BY BalancedIsNeverClosedTwice DEF CountInv
<1>4. QED BY <1>1, <1>2, <1>3, Invariance, PTL DEF Spec

=============================================================================
