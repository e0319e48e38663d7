---------------------------- MODULE PlannerProofs ----------------------------
(***************************************************************************)
(* Planner for every module, root list and activation: type correctness,   *)
(* the bookkeeping of the traversal, that the call implements PlanContract *)
(* and answers what the recursion of PlanSearch answers, and that its      *)
(* steps run out.                                                          *)
(***************************************************************************)
EXTENDS PlanSearch, SequenceTheorems, FiniteSetTheorems, TLAPS

LEMMA LeastNumber ==
    ASSUME NEW S \in SUBSET Nat, S # {}
    PROVE  \E n \in S : \A m \in S : n <= m
<1>1. PICK x \in S : \A y \in S : ~ (<<y, x>> \in OpToRel(<, Nat))
  BY NatLessThanWellFounded, WFMin
<1>2. \A y \in S : ~ (y < x)
  BY <1>1 DEF OpToRel
<1>3. QED BY <1>2

-----------------------------------------------------------------------------
(* Facts about a request; nothing moves here.                              *)

(* A resolvable key's step lists keys, at positive positions up to a bound. *)
LEMMA DependenciesType ==
    ASSUME RequestOK, NEW k \in Keys, Resolvable(k)
    PROVE  /\ DOMAIN Dependencies(k) \subseteq Nat \ {0}
           /\ \A p \in DOMAIN Dependencies(k) : Dependencies(k)[p] \in Keys
           /\ \E b \in Nat : \A p \in DOMAIN Dependencies(k) : p <= b
<1>1. CASE ActiveBindings(k) # {}
  <2> DEFINE i == OnlyBinding(k)
  <2>1. i \in DOMAIN module.bindings
    BY <1>1 DEF OnlyBinding, ActiveBindings
  <2>2. module.bindings[i] \in Bindings
    BY <2>1 DEF RequestOK, ModuleType
  <2>3. module.bindings[i].deps \in Seq(Keys)
    BY <2>2 DEF Bindings
  <2>4. Dependencies(k) = module.bindings[i].deps
    BY <1>1 DEF Dependencies
  <2> HIDE DEF i
  <2>5. Len(module.bindings[i].deps) \in Nat
    BY <2>3
  <2>6. QED BY <2>3, <2>4, <2>5
<1>2. CASE ActiveBindings(k) = {}
  <2>1. k \in DOMAIN module.sets
    BY <1>2 DEF Resolvable, Missing
  <2>2. module.sets[k] \in Seq(Contributions)
    BY <2>1 DEF RequestOK, ModuleType
  <2>3. ASSUME NEW p \in DOMAIN module.sets[k]
        PROVE  p \in Nat \ {0} /\ module.sets[k][p].dep \in Keys
    <3> DEFINE contributions == module.sets[k]
    <3>1. contributions \in Seq(Contributions) /\ p \in DOMAIN contributions
      BY <2>2, <2>3
    <3> HIDE DEF contributions
    <3>2. p \in Nat \ {0} /\ contributions[p] \in Contributions
      BY <3>1
    <3>3. contributions[p].dep \in Keys
      BY <3>2 DEF Contributions
    <3>4. QED BY <3>2, <3>3 DEF contributions
  <2>4. Dependencies(k) =
            [p \in ActiveContributions(k) |-> module.sets[k][p].dep]
    BY <1>2 DEF Dependencies
  <2>5. DOMAIN Dependencies(k) \subseteq DOMAIN module.sets[k]
    BY <2>4 DEF ActiveContributions
  <2>6. Len(module.sets[k]) \in Nat /\ DOMAIN module.sets[k] = 1 .. Len(module.sets[k])
    BY <2>2
  <2>7. \A p \in DOMAIN Dependencies(k) : p <= Len(module.sets[k])
    BY <2>5, <2>6
  <2>8. QED BY <2>3, <2>4, <2>5, <2>6, <2>7
<1>3. QED BY <1>1, <1>2

LEMMA DependsOnType ==
    ASSUME RequestOK, NEW k \in Keys
    PROVE  DependsOn(k) \subseteq Keys
BY DependenciesType DEF DependsOn

LEMMA RootIsReachable ==
    ASSUME RequestOK, NEW i \in 1 .. Len(roots)
    PROVE  roots[i] \in Keys /\ roots[i] \in RootSet /\ roots[i] \in Reachable
<1>1. roots \in Seq(Keys) /\ i \in DOMAIN roots
  BY DEF RequestOK
<1>2. roots[i] \in Keys
  BY <1>1
<1>3. QED BY <1>1, <1>2 DEF RootSet, Reachable

LEMMA DependencyIsReachable ==
    ASSUME RequestOK, NEW k \in Reachable, NEW d \in DependsOn(k)
    PROVE  d \in Reachable
<1>1. k \in Keys /\ d \in Keys
  BY DependsOnType DEF Reachable
<1>2. ASSUME NEW S \in SUBSET Keys, RootSet \subseteq S, Closed(S)
      PROVE  d \in S
  <2>1. k \in S
    BY <1>2 DEF Reachable
  <2>2. QED BY <2>1, <1>2 DEF Closed
<1>3. QED BY <1>1, <1>2 DEF Reachable

(* A closed set of reachable keys that holds the roots is Reachable.       *)
LEMMA ClosedIsReachable ==
    ASSUME NEW S \in SUBSET Reachable, RootSet \subseteq S, Closed(S)
    PROVE  S = Reachable
BY DEF Reachable

LEMMA RequestInitOK == RequestInit => RequestOK
BY RequestAssumption DEF RequestInit, RequestOK

LEMMA RequestStable ==
    ASSUME RequestOK, UNCHANGED request
    PROVE  RequestOK'
BY DEF RequestOK, ModuleType, Bindings, Contributions, Points, request

-----------------------------------------------------------------------------
(* Type correctness.                                                       *)

(* Replacing the last element of a sequence changes nothing else.          *)
LEMMA LastReplaced ==
    ASSUME NEW S, NEW s \in Seq(S), s # <<>>, NEW e \in S
    PROVE  /\ Len(s) \in Nat \ {0}
           /\ s[Len(s)] \in S
           /\ [s EXCEPT ![Len(s)] = e] \in Seq(S)
           /\ Len([s EXCEPT ![Len(s)] = e]) = Len(s)
           /\ \A i \in 1 .. Len(s) - 1 : [s EXCEPT ![Len(s)] = e][i] = s[i]
           /\ [s EXCEPT ![Len(s)] = e][Len(s)] = e
<1>1. Len(s) \in Nat \ {0} /\ Len(s) \in 1 .. Len(s)
  BY EmptySeq
<1>2. QED BY <1>1, ExceptSeq

(* What a request resolves to does not move with the traversal.            *)
LEMMA ResolutionStable ==
    ASSUME UNCHANGED request
    PROVE  /\ RequestOK => RequestOK'
           /\ \A k : Resolvable(k)' <=> Resolvable(k)
           /\ \A k : Dependencies(k)' = Dependencies(k)
           /\ \A k : DependsOn(k)' = DependsOn(k)
           /\ Reachable' = Reachable
           /\ RootSet' = RootSet
<1>1. module' = module /\ roots' = roots /\ activation' = activation
  BY DEF request
<1>2. RequestOK => RequestOK'
  BY <1>1 DEF RequestOK, ModuleType, Bindings, Contributions, Points
<1>3. \A k : ActiveBindings(k)' = ActiveBindings(k)
  BY <1>1 DEF ActiveBindings, Active
<1>4. \A k : ActiveContributions(k)' = ActiveContributions(k)
  BY <1>1 DEF ActiveContributions, Active
<1>5. \A k : Resolvable(k)' <=> Resolvable(k)
  BY <1>1, <1>3 DEF Resolvable, Ambiguous, Missing
<1>6. ASSUME NEW k
      PROVE  Dependencies(k)' = Dependencies(k)
  <2>1. ActiveBindings(k)' = ActiveBindings(k)
    BY <1>3
  <2>2. ActiveContributions(k)' = ActiveContributions(k)
    BY <1>4
  <2>3. OnlyBinding(k)' = OnlyBinding(k)
    BY <2>1 DEF OnlyBinding
  <2>4. QED BY <1>1, <2>1, <2>2, <2>3 DEF Dependencies
<1>7. ASSUME NEW k
      PROVE  DependsOn(k)' = DependsOn(k)
  <2>1. Resolvable(k)' <=> Resolvable(k)
    BY <1>5
  <2>2. Dependencies(k)' = Dependencies(k)
    BY <1>6
  <2>3. QED BY <2>1, <2>2, Zenon DEF DependsOn
<1>8. RootSet' = RootSet
  BY <1>1 DEF RootSet
<1>9. \A S : Closed(S)' <=> Closed(S)
  BY <1>7 DEF Closed
<1>10. Reachable' = Reachable
  BY <1>8, <1>9 DEF Reachable
<1>11. QED BY <1>2, <1>5, <1>6, <1>7, <1>8, <1>10

-----------------------------------------------------------------------------
(* The inductive invariant.                                                *)

(* What each phase has established, and that only a return answers.        *)
PhaseOK ==
    /\ pc \in {"bindings", "contributions", "traverse"} => Consistent(activation)
    /\ pc \in {"contributions", "traverse"} => MalformedBindings = {}
    /\ pc = "traverse" => MalformedSets = {}
    /\ pc # "returned" <=> result = Pending

Traversed ==
    /\ StatesMatchStackAndOrder
    /\ StackIsDependencyPath
    /\ PassedIsComplete
    /\ OrderIsTopological
    /\ SeenIsNeeded

IInv == TypeOK /\ PhaseOK /\ Traversed

LEMMA InitIInv == Init => IInv
<1> SUFFICES ASSUME Init PROVE IInv
  OBVIOUS
<1>1. RequestOK
  BY RequestInitOK DEF Init
<1>2. TypeOK
  BY <1>1 DEF Init, TypeOK, Phases, Pending, Results, RequestOK
<1>3. PhaseOK
  BY DEF Init, PhaseOK
<1>4. Traversed
  BY DEF Init, Traversed, StatesMatchStackAndOrder, StackIsDependencyPath,
         PassedIsComplete, OrderIsTopological, SeenIsNeeded, NoDuplicates,
         DependenciesPrecede
<1>5. QED BY <1>2, <1>3, <1>4 DEF IInv

LEMMA OrderStable ==
    ASSUME OrderIsTopological, UNCHANGED <<request, ordered>>
    PROVE  OrderIsTopological'
<1>1. \A k : DependsOn(k)' = DependsOn(k)
  BY ResolutionStable
<1>2. ordered' = ordered
  OBVIOUS
<1>3. QED BY <1>1, <1>2 DEF OrderIsTopological, DependenciesPrecede

(* A step that leaves the request and the traversal alone.                 *)
LEMMA TraversalUnchanged ==
    ASSUME Traversed, UNCHANGED <<request, traversal>>
    PROVE  Traversed'
<1>1. UNCHANGED request /\ UNCHANGED <<nextRoot, states, stack, ordered>> /\ roots' = roots
  BY DEF traversal, request
<1>2. StatesMatchStackAndOrder'
  BY <1>1 DEF Traversed, StatesMatchStackAndOrder, NoDuplicates
<1>3. StackIsDependencyPath'
  BY <1>1, ResolutionStable, Zenon DEF Traversed, StackIsDependencyPath
<1>4. PassedIsComplete'
  BY <1>1, ResolutionStable, Zenon DEF Traversed, PassedIsComplete
<1>5. OrderIsTopological'
  BY <1>1, OrderStable DEF Traversed
<1>6. SeenIsNeeded'
  BY <1>1, ResolutionStable, Zenon DEF Traversed, SeenIsNeeded
<1>7. QED BY <1>2, <1>3, <1>4, <1>5, <1>6 DEF Traversed

(* A call that returns leaves everything but pc and result alone.          *)
LEMMA ReturnPreserves ==
    ASSUME IInv, NEW code \in ErrorCodes \cup {"plan"}, NEW path \in Seq(Keys),
           Return(code, path)
    PROVE  IInv'
<1>1. TypeOK'
  BY ResolutionStable DEF IInv, TypeOK, Return, Results, traversal, request, Phases
<1>2. PhaseOK'
  BY DEF Return, PhaseOK, Pending, ErrorCodes
<1>3. Traversed'
  BY TraversalUnchanged DEF IInv, Return
<1>4. QED BY <1>1, <1>2, <1>3 DEF IInv

LEMMA PhaseStable ==
    ASSUME PhaseOK, UNCHANGED <<request, pc, result>>
    PROVE  PhaseOK'
BY DEF PhaseOK, Consistent, MalformedBindings, MalformedSets, request

LEMMA StackKeysType ==
    ASSUME TypeOK
    PROVE  /\ StackKeys \in Seq(Keys)
           /\ Len(StackKeys) = Len(stack) /\ Len(stack) \in Nat
           /\ \A i \in 1 .. Len(stack) : StackKeys[i] = stack[i].key /\ stack[i].key \in Keys
<1>1. Len(stack) \in Nat
  BY DEF TypeOK
<1>2. \A i \in 1 .. Len(stack) : stack[i].key \in Keys
  <2>1. \A i \in 1 .. Len(stack) : stack[i] \in Frames
    BY DEF TypeOK
  <2>2. QED BY <2>1 DEF Frames
<1>3. QED BY <1>1, <1>2 DEF StackKeys

(* A key that fails to resolve is reported with a path of keys.            *)
LEMMA FailPushPreserves ==
    ASSUME IInv, NEW k \in Keys, FailPush(k)
    PROVE  IInv'
<1>1. Append(StackKeys, k) \in Seq(Keys)
  BY StackKeysType DEF IInv
<1>2. QED BY <1>1, ReturnPreserves DEF FailPush, ErrorCodes

(* What a step inside the inner loop knows of the top frame.               *)
LEMMA TopFacts ==
    ASSUME IInv, InLoop
    PROVE  /\ Len(stack) \in Nat \ {0}
           /\ Top \in Frames /\ Top.key \in Keys /\ Top.next \in Nat \ {0}
           /\ states[Top.key] = "visiting"
           /\ Resolvable(Top.key) /\ Top.key \in Reachable
<1>1. stack \in Seq(Frames) /\ stack # <<>>
  BY DEF IInv, TypeOK, InLoop
<1>2. Len(stack) \in Nat \ {0} /\ Top \in Frames
  BY <1>1, EmptySeq DEF Top
<1>3. Top.key \in Keys /\ Top.next \in Nat \ {0}
  BY <1>2 DEF Frames
<1>4. states[Top.key] = "visiting"
  BY <1>2, <1>3 DEF IInv, Traversed, StatesMatchStackAndOrder, Top
<1>5. QED BY <1>2, <1>3, <1>4 DEF IInv, Traversed, SeenIsNeeded

(* The dependency under the cursor is a key that the request reaches.      *)
LEMMA CursorFacts ==
    ASSUME IInv, InLoop, NEW p \in Remaining
    PROVE  /\ p \in DOMAIN Dependencies(Top.key) /\ p \in Nat \ {0} /\ p >= Top.next
           /\ Dependencies(Top.key)[p] \in Keys
           /\ Dependencies(Top.key)[p] \in DependsOn(Top.key)
           /\ Dependencies(Top.key)[p] \in Reachable
<1>1. RequestOK
  BY DEF IInv, TypeOK
<1>2. p \in DOMAIN Dependencies(Top.key) /\ p >= Top.next
  BY DEF Remaining
<1>3. p \in Nat \ {0} /\ Dependencies(Top.key)[p] \in Keys
  BY <1>1, <1>2, TopFacts, DependenciesType
<1>4. Dependencies(Top.key)[p] \in DependsOn(Top.key)
  BY <1>2, TopFacts DEF DependsOn
<1>5. Dependencies(Top.key)[p] \in Reachable
  BY <1>1, <1>4, TopFacts, DependencyIsReachable
<1>6. QED BY <1>2, <1>3, <1>4, <1>5

(* Moving the cursor of the top frame past p changes only that cursor.     *)
LEMMA AdvancedFacts ==
    ASSUME IInv, InLoop, NEW p \in Remaining
    PROVE  /\ Advanced(p) \in Seq(Frames)
           /\ Len(Advanced(p)) = Len(stack)
           /\ \A i \in 1 .. Len(stack) - 1 : Advanced(p)[i] = stack[i]
           /\ Advanced(p)[Len(stack)].key = Top.key
           /\ Advanced(p)[Len(stack)].next = p + 1
           /\ \A i \in 1 .. Len(stack) : Advanced(p)[i].key = stack[i].key
<1> DEFINE e == [key |-> Top.key, next |-> p + 1]
<1>1. e \in Frames
  BY TopFacts, CursorFacts DEF Frames
<1>2. stack \in Seq(Frames) /\ stack # <<>>
  BY DEF IInv, TypeOK, InLoop
<1>3. e.key = Top.key /\ e.next = p + 1
  OBVIOUS
<1>4. Advanced(p) = [stack EXCEPT ![Len(stack)] = e]
  BY DEF Advanced
<1> HIDE DEF e
<1>5. /\ Advanced(p) \in Seq(Frames)
      /\ Len(Advanced(p)) = Len(stack)
      /\ \A i \in 1 .. Len(stack) - 1 : Advanced(p)[i] = stack[i]
      /\ Advanced(p)[Len(stack)] = e
      /\ Len(stack) \in Nat \ {0}
  BY <1>1, <1>2, <1>4, LastReplaced
<1>6. \A i \in 1 .. Len(stack) : Advanced(p)[i].key = stack[i].key
  <2> SUFFICES ASSUME NEW i \in 1 .. Len(stack)
               PROVE  Advanced(p)[i].key = stack[i].key
    OBVIOUS
  <2>1. CASE i = Len(stack)
    BY <2>1, <1>3, <1>5 DEF Top
  <2>2. CASE i \in 1 .. Len(stack) - 1
    BY <2>2, <1>5
  <2>3. QED BY <2>1, <2>2, <1>5
<1>7. QED BY <1>3, <1>5, <1>6

LEMMA NextRootPreserves ==
    ASSUME IInv, NextRoot
    PROVE  IInv'
<1>1. /\ UNCHANGED request /\ roots' = roots
      /\ UNCHANGED <<pc, states, stack, ordered, result>>
      /\ nextRoot' = nextRoot + 1 /\ stack = <<>> /\ nextRoot <= Len(roots)
      /\ states[roots[nextRoot]] # "unseen"
  BY DEF NextRoot, AtRoot, Traversing, request
<1>2. nextRoot \in 1 .. Len(roots) /\ Len(roots) \in Nat /\ roots[nextRoot] \in Keys
  BY <1>1 DEF IInv, TypeOK, RequestOK
<1>3. states[roots[nextRoot]] = "complete"
  <2>1. states[roots[nextRoot]] # "visiting"
    BY <1>1, <1>2 DEF IInv, Traversed, StatesMatchStackAndOrder
  <2>2. states[roots[nextRoot]] \in {"unseen", "visiting", "complete"}
    BY <1>2 DEF IInv, TypeOK
  <2>3. QED BY <1>1, <2>1, <2>2
<1>4. TypeOK'
  BY <1>1, <1>2, ResolutionStable DEF IInv, TypeOK
<1>5. PhaseOK'
  BY <1>1, PhaseStable DEF IInv
<1>6. StatesMatchStackAndOrder'
  BY <1>1 DEF IInv, Traversed, StatesMatchStackAndOrder, NoDuplicates
<1>7. StackIsDependencyPath'
  BY <1>1 DEF StackIsDependencyPath
<1>8. PassedIsComplete'
  <2>1. \A i \in 1 .. nextRoot' - 1 : states'[roots'[i]] = "complete"
    BY <1>1, <1>2, <1>3 DEF IInv, Traversed, PassedIsComplete
  <2>2. 1 .. Len(stack') = {}
    BY <1>1
  <2>3. QED BY <2>1, <2>2 DEF PassedIsComplete
<1>9. OrderIsTopological'
  BY <1>1, OrderStable DEF IInv, Traversed
<1>10. SeenIsNeeded'
  BY <1>1, ResolutionStable, Zenon DEF IInv, Traversed, SeenIsNeeded
<1>11. QED BY <1>4, <1>5, <1>6, <1>7, <1>8, <1>9, <1>10 DEF IInv, Traversed

(* A dependency that is complete is passed over.                           *)
LEMMA SkipCompletePreserves ==
    ASSUME IInv, SkipComplete
    PROVE  IInv'
<1>1. PICK p \in Remaining :
          /\ IsCursor(p)
          /\ states[Dependencies(Top.key)[p]] = "complete"
          /\ stack' = Advanced(p)
  BY DEF SkipComplete
<1>2. /\ InLoop /\ UNCHANGED request /\ roots' = roots
      /\ UNCHANGED <<pc, nextRoot, states, ordered, result>>
  BY DEF SkipComplete, request
<1>3. /\ stack' \in Seq(Frames) /\ Len(stack') = Len(stack)
      /\ \A i \in 1 .. Len(stack) - 1 : stack'[i] = stack[i]
      /\ stack'[Len(stack)].key = Top.key /\ stack'[Len(stack)].next = p + 1
      /\ \A i \in 1 .. Len(stack) : stack'[i].key = stack[i].key
      /\ Len(stack) \in Nat \ {0}
  BY <1>1, <1>2, AdvancedFacts, TopFacts
<1>4. TypeOK'
  BY <1>2, <1>3, ResolutionStable DEF IInv, TypeOK
<1>5. PhaseOK'
  BY <1>2, PhaseStable DEF IInv
<1>6. StatesMatchStackAndOrder'
  BY <1>2, <1>3 DEF IInv, Traversed, StatesMatchStackAndOrder, NoDuplicates
<1>7. StackIsDependencyPath'
  <2>1. nextRoot' <= Len(roots') /\ stack'[1].key = roots'[nextRoot']
    BY <1>2, <1>3 DEF IInv, Traversed, StackIsDependencyPath, InLoop
  <2>2. ASSUME NEW i \in 1 .. Len(stack) - 1
        PROVE  LET d == Dependencies(stack'[i].key)
               IN  /\ stack'[i].next - 1 \in DOMAIN d
                   /\ stack'[i + 1].key = d[stack'[i].next - 1]
    <3>1. stack'[i] = stack[i] /\ i + 1 \in 1 .. Len(stack)
      BY <1>3
    <3>2. stack'[i + 1].key = stack[i + 1].key
      BY <1>3, <3>1
    <3>3. QED BY <1>2, <3>1, <3>2 DEF IInv, Traversed, StackIsDependencyPath, InLoop
  <2>3. \A k : Dependencies(k)' = Dependencies(k)
    BY <1>2, ResolutionStable
  <2>4. QED BY <1>3, <2>1, <2>2, <2>3 DEF StackIsDependencyPath
<1>8. PassedIsComplete'
  <2>1. ASSUME NEW i \in 1 .. Len(stack), NEW q \in DOMAIN Dependencies(stack'[i].key),
               q < stack'[i].next
        PROVE  \/ states[Dependencies(stack'[i].key)[q]] = "complete"
               \/ i < Len(stack) /\ q = stack'[i].next - 1
    <3>1. CASE i \in 1 .. Len(stack) - 1
      <4>1. stack'[i] = stack[i]
        BY <1>3, <3>1
      <4>2. QED BY <2>1, <4>1 DEF IInv, Traversed, PassedIsComplete
    <3>2. CASE i = Len(stack)
      <4>1. q \in DOMAIN Dependencies(Top.key) /\ q < p + 1 /\ p \in Nat /\ q \in Nat
            /\ Top.next \in Nat
        BY <1>1, <1>2, <1>3, <2>1, <3>2, CursorFacts, TopFacts, DependenciesType DEF IInv, TypeOK
      <4>2. CASE q < Top.next
        BY <1>3, <3>2, <4>1, <4>2 DEF IInv, Traversed, PassedIsComplete, Top
      <4>3. CASE q >= Top.next
        <5>1. q \in Remaining
          BY <4>1, <4>3 DEF Remaining
        <5>2. q = p
          BY <1>1, <4>1, <5>1 DEF IsCursor
        <5>3. QED BY <1>1, <1>3, <3>2, <5>2
      <4>4. QED BY <4>1, <4>2, <4>3
    <3>3. QED BY <1>3, <3>1, <3>2
  <2>2. \A i \in 1 .. nextRoot - 1 : states[roots[i]] = "complete"
    BY DEF IInv, Traversed, PassedIsComplete
  <2>3. \A k : Dependencies(k)' = Dependencies(k)
    BY <1>2, ResolutionStable
  <2>4. QED BY <1>2, <1>3, <2>1, <2>2, <2>3 DEF PassedIsComplete
<1>9. OrderIsTopological'
  BY <1>2, OrderStable DEF IInv, Traversed
<1>10. SeenIsNeeded'
  BY <1>2, ResolutionStable, Zenon DEF IInv, Traversed, SeenIsNeeded
<1>11. QED BY <1>4, <1>5, <1>6, <1>7, <1>8, <1>9, <1>10 DEF IInv, Traversed

(* The frames below a new frame for k: the cursor of the last of them has  *)
(* just passed k, or there are none and k is the root.                     *)
OpenedFor(k, frames) ==
    /\ frames \in Seq(Frames)
    /\ Len(frames) = Len(stack)
    /\ \A i \in 1 .. Len(stack) - 1 : frames[i] = stack[i]
    /\ \A i \in 1 .. Len(stack) : frames[i].key = stack[i].key
    /\ stack = <<>> => nextRoot <= Len(roots) /\ k = roots[nextRoot]
    /\ stack # <<>> =>
          LET d == Dependencies(Top.key)
              p == frames[Len(stack)].next - 1
          IN  /\ p \in DOMAIN d
              /\ k = d[p]
              /\ \A q \in DOMAIN d : q < p => states[d[q]] = "complete"

LEMMA PushPreserves ==
    ASSUME IInv, NEW k \in Reachable, states[k] = "unseen",
           NEW frames, OpenedFor(k, frames), Push(k, frames)
    PROVE  IInv'
<1> DEFINE n == Len(stack)
<1>1. /\ UNCHANGED request /\ roots' = roots
      /\ UNCHANGED <<pc, nextRoot, ordered, result>>
      /\ Resolvable(k)
      /\ states' = [states EXCEPT ![k] = "visiting"]
      /\ stack' = Append(frames, [key |-> k, next |-> 1])
  BY DEF Push, request
<1>2. k \in Keys /\ n \in Nat
  BY DEF Reachable, IInv, TypeOK
<1>3. [key |-> k, next |-> 1] \in Frames
  BY <1>2 DEF Frames
<1>4. /\ stack' \in Seq(Frames) /\ Len(stack') = n + 1
      /\ \A i \in 1 .. n : stack'[i] = frames[i]
      /\ stack'[n + 1] = [key |-> k, next |-> 1]
  BY <1>1, <1>2, <1>3 DEF OpenedFor
<1>5. /\ \A i \in 1 .. n : stack'[i].key = stack[i].key
      /\ stack'[n + 1].key = k /\ stack'[n + 1].next = 1
  BY <1>4 DEF OpenedFor
<1>6. /\ states' \in [Keys -> {"unseen", "visiting", "complete"}]
      /\ states'[k] = "visiting"
      /\ \A j \in Keys : j # k => states'[j] = states[j]
      /\ \A j \in Keys : states[j] = "complete" <=> states'[j] = "complete"
  BY <1>1, <1>2 DEF IInv, TypeOK
<1>7. \A i \in 1 .. n : stack[i].key # k /\ stack[i].key \in Keys
  BY <1>2, StackKeysType DEF IInv, Traversed, StatesMatchStackAndOrder
<1>8. TypeOK'
  BY <1>1, <1>4, <1>6, ResolutionStable DEF IInv, TypeOK
<1>9. PhaseOK'
  BY <1>1, PhaseStable DEF IInv
<1> HIDE DEF n
<1>10. StatesMatchStackAndOrder'
  <2>1. ASSUME NEW j \in Keys
        PROVE  states'[j] = "visiting" <=> \E i \in 1 .. n + 1 : stack'[i].key = j
    <3>1. CASE j = k
      BY <1>2, <1>5, <1>6, <3>1
    <3>2. CASE j # k
      <4>1. states[j] = "visiting" <=> \E i \in 1 .. n : stack[i].key = j
        BY DEF IInv, Traversed, StatesMatchStackAndOrder, n
      <4>2. QED BY <1>2, <1>5, <1>6, <3>2, <4>1
    <3>3. QED BY <3>1, <3>2
  <2>2. ASSUME NEW i \in 1 .. n + 1, NEW j \in 1 .. n + 1, stack'[i].key = stack'[j].key
        PROVE  i = j
    <3>1. CASE i \in 1 .. n /\ j \in 1 .. n
      BY <1>5, <2>2, <3>1 DEF IInv, Traversed, StatesMatchStackAndOrder, n
    <3>2. CASE i = n + 1 \/ j = n + 1
      BY <1>2, <1>5, <1>7, <2>2, <3>2
    <3>3. QED BY <1>2, <3>1, <3>2
  <2>3. \A j \in Keys : states'[j] = "complete" <=> \E i \in 1 .. Len(ordered') : ordered'[i] = j
    BY <1>1, <1>6 DEF IInv, Traversed, StatesMatchStackAndOrder
  <2>4. NoDuplicates(ordered')
    BY <1>1 DEF IInv, Traversed, StatesMatchStackAndOrder
  <2>5. QED BY <1>4, <2>1, <2>2, <2>3, <2>4 DEF StatesMatchStackAndOrder, NoDuplicates
<1>11. \A j : Dependencies(j)' = Dependencies(j)
  BY <1>1, ResolutionStable
<1>12. StackIsDependencyPath'
  <2>1. nextRoot <= Len(roots) /\ stack'[1].key = roots[nextRoot]
    <3>1. CASE stack = <<>>
      BY <1>5, <3>1 DEF OpenedFor, n
    <3>2. CASE stack # <<>>
      <4>1. 1 \in 1 .. n
        BY <3>2, <1>2, EmptySeq DEF IInv, TypeOK, n
      <4>2. QED BY <1>5, <3>2, <4>1 DEF IInv, Traversed, StackIsDependencyPath
    <3>3. QED BY <3>1, <3>2
  <2>2. ASSUME NEW i \in 1 .. n
        PROVE  LET d == Dependencies(stack'[i].key)
               IN  /\ stack'[i].next - 1 \in DOMAIN d
                   /\ stack'[i + 1].key = d[stack'[i].next - 1]
    <3>1. stack # <<>> /\ stack'[i] = frames[i]
      BY <1>2, <1>4 DEF n
    <3>2. CASE i \in 1 .. n - 1
      <4>1. stack'[i] = stack[i] /\ stack'[i + 1].key = stack[i + 1].key
        BY <1>2, <1>5, <3>1, <3>2 DEF OpenedFor, n
      <4>2. QED BY <3>1, <3>2, <4>1 DEF IInv, Traversed, StackIsDependencyPath, n
    <3>3. CASE i = n
      BY <1>5, <3>1, <3>3 DEF OpenedFor, Top, n
    <3>4. QED BY <1>2, <3>2, <3>3
  <2>3. QED BY <1>1, <1>2, <1>4, <1>11, <2>1, <2>2 DEF StackIsDependencyPath
<1>13. PassedIsComplete'
  <2>1. ASSUME NEW i \in 1 .. n + 1, NEW q \in DOMAIN Dependencies(stack'[i].key),
               q < stack'[i].next
        PROVE  \/ states'[Dependencies(stack'[i].key)[q]] = "complete"
               \/ i < n + 1 /\ q = stack'[i].next - 1
    <3> DEFINE d == Dependencies(stack'[i].key)
    <3>1. stack'[i].key \in Keys /\ Resolvable(stack'[i].key)
      <4>1. CASE i = n + 1
        BY <1>1, <1>2, <1>5, <4>1
      <4>2. CASE i \in 1 .. n
        BY <1>5, <1>7, <4>2 DEF IInv, Traversed, SeenIsNeeded, StatesMatchStackAndOrder, n
      <4>3. QED BY <1>2, <4>1, <4>2
    <3>2. q \in Nat \ {0} /\ d[q] \in Keys
      BY <3>1, DependenciesType DEF IInv, TypeOK
    <3>3. states[d[q]] = "complete" => states'[d[q]] = "complete"
      BY <1>6, <3>2
    <3>4. CASE i = n + 1
      BY <1>5, <2>1, <3>2, <3>4
    <3>5. CASE i \in 1 .. n - 1
      <4>1. stack'[i] = stack[i] /\ i < n
        BY <1>2, <1>4, <3>5 DEF OpenedFor, n
      <4>2. states[d[q]] = "complete" \/ q = stack[i].next - 1
        BY <2>1, <3>5, <4>1 DEF IInv, Traversed, PassedIsComplete, n
      <4>3. QED BY <1>2, <3>3, <3>5, <4>1, <4>2
    <3>6. CASE i = n /\ n # 0
      <4>1. stack # <<>> /\ stack'[i] = frames[n] /\ stack'[i].key = Top.key
        BY <1>2, <1>4, <1>5, <3>6 DEF Top, n
      <4>2. frames[n].next \in Nat
        <5>1. frames[n] \in Frames
          BY <1>2, <3>6 DEF OpenedFor, n
        <5>2. QED BY <5>1 DEF Frames
      <4>3. CASE q < frames[n].next - 1
        BY <3>3, <4>1, <4>3 DEF OpenedFor, n
      <4>4. CASE q = frames[n].next - 1
        BY <1>2, <3>6, <4>1, <4>4
      <4>5. QED BY <2>1, <3>2, <4>1, <4>2, <4>3, <4>4
    <3>7. QED BY <1>2, <3>4, <3>5, <3>6
  <2>2. \A i \in 1 .. nextRoot - 1 : states'[roots[i]] = "complete"
    <3>1. \A i \in 1 .. nextRoot - 1 : roots[i] \in Keys
      BY DEF IInv, TypeOK, RequestOK
    <3>2. QED BY <1>6, <3>1 DEF IInv, Traversed, PassedIsComplete
  <2>3. QED BY <1>1, <1>4, <1>11, <2>1, <2>2 DEF PassedIsComplete
<1>14. OrderIsTopological'
  BY <1>1, OrderStable DEF IInv, Traversed
<1>15. SeenIsNeeded'
  <2>1. ASSUME NEW j \in Keys, states'[j] # "unseen"
        PROVE  Resolvable(j) /\ j \in Reachable
    BY <1>1, <1>6, <2>1 DEF IInv, Traversed, SeenIsNeeded
  <2>2. QED BY <1>1, <2>1, ResolutionStable DEF SeenIsNeeded
<1>16. QED BY <1>8, <1>9, <1>10, <1>12, <1>13, <1>14, <1>15 DEF IInv, Traversed

(* A stack without its last frame.                                         *)
LEMMA FrontFrames ==
    ASSUME NEW frames \in Seq(Frames), frames # <<>>
    PROVE  /\ SubSeq(frames, 1, Len(frames) - 1) \in Seq(Frames)
           /\ Len(SubSeq(frames, 1, Len(frames) - 1)) = Len(frames) - 1
           /\ \A i \in 1 .. Len(frames) - 1 : SubSeq(frames, 1, Len(frames) - 1)[i] = frames[i]
<1>1. PICK m \in Nat : m = Len(frames) - 1
  BY EmptySeq
<1>2. \A i \in 1 .. m : frames[i] \in Frames
  BY <1>1
<1>3. /\ SubSeq(frames, 1, m) \in Seq(Frames)
      /\ Len(SubSeq(frames, 1, m)) = IF 1 <= m THEN m - 1 + 1 ELSE 0
      /\ \A i \in 1 .. m - 1 + 1 : SubSeq(frames, 1, m)[i] = frames[1 + i - 1]
  BY <1>2, SubSeqProperties
<1>4. m - 1 + 1 = m /\ \A i \in 1 .. m : 1 + i - 1 = i
  OBVIOUS
<1>5. QED BY <1>1, <1>3, <1>4

(* The step of a finished frame goes to the end of the order.              *)
LEMMA CompletePreserves ==
    ASSUME IInv, Complete
    PROVE  IInv'
<1> DEFINE n == Len(stack)
           m == Len(ordered)
           k == Top.key
<1>1. /\ InLoop /\ Remaining = {} /\ UNCHANGED request /\ roots' = roots
      /\ UNCHANGED <<pc, nextRoot, result>>
      /\ states' = [states EXCEPT ![k] = "complete"]
      /\ ordered' = Append(ordered, k)
      /\ stack' = SubSeq(stack, 1, n - 1)
  BY DEF Complete, request
<1>2. /\ n \in Nat \ {0} /\ m \in Nat /\ k \in Keys /\ Top.next \in Nat
      /\ states[k] = "visiting" /\ Resolvable(k) /\ k \in Reachable
  BY <1>1, TopFacts DEF IInv, TypeOK
<1>3. /\ stack' \in Seq(Frames) /\ Len(stack') = n - 1
      /\ \A i \in 1 .. n - 1 : stack'[i] = stack[i]
  <2>1. stack \in Seq(Frames) /\ stack # <<>>
    BY <1>1 DEF InLoop, IInv, TypeOK
  <2>2. QED BY <1>1, <2>1, FrontFrames
<1>4. /\ ordered' \in Seq(Keys) /\ Len(ordered') = m + 1
      /\ \A i \in 1 .. m : ordered'[i] = ordered[i]
      /\ ordered'[m + 1] = k
  BY <1>1, <1>2, AppendProperties DEF IInv, TypeOK
<1>5. /\ states' \in [Keys -> {"unseen", "visiting", "complete"}]
      /\ states'[k] = "complete"
      /\ \A j \in Keys : j # k => states'[j] = states[j]
      /\ \A j \in Keys : states[j] = "complete" => states'[j] = "complete"
  BY <1>1, <1>2 DEF IInv, TypeOK
<1>6. /\ stack[n].key = k
      /\ \A i \in 1 .. n : stack[i].key \in Keys
      /\ \A i \in 1 .. n - 1 : stack[i].key # k
  <2>1. \A i \in 1 .. n : stack[i].key \in Keys
    BY StackKeysType DEF IInv
  <2>2. \A i, j \in 1 .. n : stack[i].key = stack[j].key => i = j
    BY DEF IInv, Traversed, StatesMatchStackAndOrder
  <2>3. QED BY <1>2, <2>1, <2>2 DEF Top
<1>7. \A i \in 1 .. m : ordered[i] \in Keys /\ ordered[i] # k
  <2>1. \A i \in 1 .. m : ordered[i] \in Keys
    BY DEF IInv, TypeOK
  <2>2. QED BY <1>2, <2>1 DEF IInv, Traversed, StatesMatchStackAndOrder
<1>8. TypeOK'
  BY <1>1, <1>3, <1>4, <1>5, ResolutionStable DEF IInv, TypeOK
<1>9. PhaseOK'
  BY <1>1, PhaseStable DEF IInv
<1>10. StatesMatchStackAndOrder'
  <2> HIDE DEF n, m, k
  <2>1. ASSUME NEW j \in Keys
        PROVE  states'[j] = "visiting" <=> \E i \in 1 .. n - 1 : stack'[i].key = j
    <3>1. CASE j = k
      BY <1>3, <1>5, <1>6, <3>1
    <3>2. CASE j # k
      <4>1. states[j] = "visiting" <=> \E i \in 1 .. n : stack[i].key = j
        BY DEF IInv, Traversed, StatesMatchStackAndOrder, n
      <4>2. QED BY <1>2, <1>3, <1>5, <1>6, <3>2, <4>1
    <3>3. QED BY <3>1, <3>2
  <2>2. ASSUME NEW i \in 1 .. n - 1, NEW j \in 1 .. n - 1, stack'[i].key = stack'[j].key
        PROVE  i = j
    <3>1. stack[i].key = stack[j].key /\ i \in 1 .. n /\ j \in 1 .. n
      BY <1>2, <1>3, <2>2
    <3>2. QED BY <3>1 DEF IInv, Traversed, StatesMatchStackAndOrder, n
  <2>3. ASSUME NEW j \in Keys
        PROVE  states'[j] = "complete" <=> \E i \in 1 .. m + 1 : ordered'[i] = j
    <3>1. CASE j = k
      BY <1>2, <1>4, <1>5, <3>1
    <3>2. CASE j # k
      <4>1. states[j] = "complete" <=> \E i \in 1 .. m : ordered[i] = j
        BY DEF IInv, Traversed, StatesMatchStackAndOrder, m
      <4>2. QED BY <1>2, <1>4, <1>5, <3>2, <4>1
    <3>3. QED BY <3>1, <3>2
  <2>4. ASSUME NEW i \in 1 .. m + 1, NEW j \in 1 .. m + 1, ordered'[i] = ordered'[j]
        PROVE  i = j
    <3>1. CASE i \in 1 .. m /\ j \in 1 .. m
      BY <1>4, <2>4, <3>1 DEF IInv, Traversed, StatesMatchStackAndOrder, NoDuplicates, m
    <3>2. CASE i = m + 1 \/ j = m + 1
      BY <1>2, <1>4, <1>7, <2>4, <3>2
    <3>3. QED BY <1>2, <3>1, <3>2
  <2>5. QED BY <1>3, <1>4, <2>1, <2>2, <2>3, <2>4 DEF StatesMatchStackAndOrder, NoDuplicates
<1>11. \A j : Dependencies(j)' = Dependencies(j)
  BY <1>1, ResolutionStable
<1>12. StackIsDependencyPath'
  <2> HIDE DEF n, m, k
  <2> SUFFICES ASSUME stack' # <<>> PROVE StackIsDependencyPath'
    BY DEF StackIsDependencyPath
  <2>1. n - 1 \in Nat \ {0}
    BY <1>2, <1>3, EmptySeq
  <2>2. nextRoot <= Len(roots) /\ stack'[1].key = roots[nextRoot]
    <3>1. stack'[1] = stack[1]
      BY <1>3, <2>1
    <3>2. QED BY <1>1, <3>1 DEF InLoop, IInv, Traversed, StackIsDependencyPath
  <2>3. ASSUME NEW i \in 1 .. n - 2
        PROVE  LET d == Dependencies(stack'[i].key)
               IN  /\ stack'[i].next - 1 \in DOMAIN d
                   /\ stack'[i + 1].key = d[stack'[i].next - 1]
    <3>1. stack'[i] = stack[i] /\ stack'[i + 1] = stack[i + 1] /\ i \in 1 .. n - 1
      BY <1>2, <1>3
    <3>2. QED BY <1>1, <3>1 DEF InLoop, IInv, Traversed, StackIsDependencyPath, n
  <2>4. QED BY <1>1, <1>2, <1>3, <1>11, <2>2, <2>3 DEF StackIsDependencyPath
<1>13. PassedIsComplete'
  <2> HIDE DEF n, m, k
  <2>1. ASSUME NEW i \in 1 .. n - 1, NEW q \in DOMAIN Dependencies(stack'[i].key),
               q < stack'[i].next
        PROVE  \/ states'[Dependencies(stack'[i].key)[q]] = "complete"
               \/ i < n - 1 /\ q = stack'[i].next - 1
    <3> DEFINE d == Dependencies(stack[i].key)
    <3>1. stack'[i] = stack[i] /\ i \in 1 .. n /\ i < n /\ stack # <<>>
      BY <1>1, <1>2, <1>3 DEF InLoop
    <3>2. states[d[q]] = "complete" \/ q = stack[i].next - 1
      BY <2>1, <3>1 DEF IInv, Traversed, PassedIsComplete, n
    <3>3. d[q] \in Keys
      <4>1. stack[i].key \in Keys /\ Resolvable(stack[i].key)
        BY <1>6, <3>1 DEF IInv, Traversed, StatesMatchStackAndOrder, SeenIsNeeded, n
      <4>2. QED BY <2>1, <3>1, <4>1, DependenciesType DEF IInv, TypeOK
    <3>4. CASE i = n - 1 /\ q = stack[i].next - 1
      <4>1. stack[i + 1].key = d[q]
        BY <1>2, <3>1, <3>4 DEF IInv, Traversed, StackIsDependencyPath, n
      <4>2. d[q] = k
        BY <1>2, <1>6, <3>4, <4>1
      <4>3. QED BY <1>5, <3>1, <4>2
    <3>5. QED BY <1>2, <1>5, <3>1, <3>2, <3>3, <3>4
  <2>2. \A i \in 1 .. nextRoot - 1 : states'[roots[i]] = "complete"
    <3>1. \A i \in 1 .. nextRoot - 1 : roots[i] \in Keys
      BY DEF IInv, TypeOK, RequestOK
    <3>2. QED BY <1>5, <3>1 DEF IInv, Traversed, PassedIsComplete
  <2>3. \A i \in 1 .. Len(stack') : \A q \in DOMAIN Dependencies(stack'[i].key) :
            q < stack'[i].next =>
                \/ states'[Dependencies(stack'[i].key)[q]] = "complete"
                \/ i < Len(stack') /\ q = stack'[i].next - 1
    BY <1>3, <2>1
  <2>4. QED BY <1>1, <1>11, <2>2, <2>3 DEF PassedIsComplete
<1>14. OrderIsTopological'
  <2> HIDE DEF n, m, k
  <2>1. ASSUME NEW i \in 1 .. m + 1, NEW d \in DependsOn(ordered'[i])
        PROVE  \E j \in 1 .. i - 1 : ordered'[j] = d
    <3>1. CASE i \in 1 .. m
      <4>1. PICK j \in 1 .. i - 1 : ordered[j] = d
        BY <1>4, <2>1, <3>1 DEF IInv, Traversed, OrderIsTopological, DependenciesPrecede, m
      <4>2. QED BY <1>2, <1>4, <3>1, <4>1
    <3>2. CASE i = m + 1
      <4>1. PICK p \in DOMAIN Dependencies(k) : d = Dependencies(k)[p]
        BY <1>2, <1>4, <2>1, <3>2 DEF DependsOn
      <4>2. p \in Nat /\ d \in Keys
        BY <1>2, <4>1, DependenciesType DEF IInv, TypeOK
      <4>3. p < Top.next
        BY <1>1, <1>2, <4>1, <4>2 DEF Remaining, k
      <4>4. states[d] = "complete"
        BY <1>2, <1>6, <4>1, <4>3 DEF IInv, Traversed, PassedIsComplete, Top, n
      <4>5. PICK j \in 1 .. m : ordered[j] = d
        BY <4>2, <4>4 DEF IInv, Traversed, StatesMatchStackAndOrder, m
      <4>6. QED BY <1>2, <1>4, <3>2, <4>5
    <3>3. QED BY <1>2, <3>1, <3>2
  <2>2. \A j : DependsOn(j)' = DependsOn(j)
    BY <1>1, ResolutionStable
  <2>3. QED BY <1>4, <2>1, <2>2 DEF OrderIsTopological, DependenciesPrecede
<1>15. SeenIsNeeded'
  <2>1. ASSUME NEW j \in Keys, states'[j] # "unseen"
        PROVE  Resolvable(j) /\ j \in Reachable
    BY <1>2, <1>5, <2>1 DEF IInv, Traversed, SeenIsNeeded
  <2>2. QED BY <1>1, <2>1, ResolutionStable DEF SeenIsNeeded
<1>16. QED BY <1>8, <1>9, <1>10, <1>12, <1>13, <1>14, <1>15 DEF IInv, Traversed

LEMMA StartRootPreserves ==
    ASSUME IInv, StartRoot
    PROVE  IInv'
<1> DEFINE k == roots[nextRoot]
<1>1. nextRoot \in 1 .. Len(roots) /\ stack = <<>> /\ states[k] = "unseen"
  BY DEF StartRoot, AtRoot, IInv, TypeOK
<1>2. k \in Keys /\ k \in Reachable
  BY <1>1, RootIsReachable DEF IInv, TypeOK
<1>3. CASE Push(k, stack)
  <2>1. OpenedFor(k, stack)
    BY <1>1 DEF OpenedFor, IInv, TypeOK
  <2>2. QED BY <1>1, <1>2, <1>3, <2>1, PushPreserves
<1>4. CASE FailPush(k)
  BY <1>2, <1>4, FailPushPreserves
<1>5. QED BY <1>3, <1>4 DEF StartRoot

(* Moving the cursor past p leaves the stack ready for the key at p.       *)
LEMMA CursorOpens ==
    ASSUME IInv, InLoop, NEW p \in Remaining, IsCursor(p)
    PROVE  OpenedFor(Dependencies(Top.key)[p], Advanced(p))
<1> DEFINE d == Dependencies(Top.key)
<1>1. p \in DOMAIN d /\ p \in Nat
  BY CursorFacts
<1>2. /\ Advanced(p) \in Seq(Frames)
      /\ Len(Advanced(p)) = Len(stack)
      /\ \A i \in 1 .. Len(stack) - 1 : Advanced(p)[i] = stack[i]
      /\ Advanced(p)[Len(stack)].next = p + 1
      /\ \A i \in 1 .. Len(stack) : Advanced(p)[i].key = stack[i].key
  BY AdvancedFacts
<1>3. Len(stack) \in Nat \ {0} /\ Top.next \in Nat /\ Top.key \in Keys /\ Resolvable(Top.key)
  BY TopFacts
<1>4. ASSUME NEW q \in DOMAIN d, q < p
      PROVE  states[d[q]] = "complete"
  <2>1. q \in Nat
    BY <1>3, DependenciesType DEF IInv, TypeOK
  <2>2. q < Top.next
    BY <1>1, <1>3, <1>4, <2>1 DEF IsCursor, Remaining
  <2>3. QED BY <1>3, <2>2 DEF IInv, Traversed, PassedIsComplete, Top
<1>5. p + 1 - 1 = p
  BY <1>1
<1>6. stack # <<>>
  BY DEF InLoop
<1>7. QED BY <1>1, <1>2, <1>4, <1>5, <1>6 DEF OpenedFor

LEMMA DescendPreserves ==
    ASSUME IInv, Descend
    PROVE  IInv'
<1>1. InLoop
  BY DEF Descend
<1>2. PICK p \in Remaining :
          /\ IsCursor(p)
          /\ states[Dependencies(Top.key)[p]] = "unseen"
          /\ \/ Push(Dependencies(Top.key)[p], Advanced(p))
             \/ FailPush(Dependencies(Top.key)[p])
  BY DEF Descend
<1>3. PICK k : k = Dependencies(Top.key)[p]
  OBVIOUS
<1>4. k \in Keys /\ k \in Reachable
  BY <1>1, <1>3, CursorFacts
<1>5. CASE Push(k, Advanced(p))
  <2>1. OpenedFor(k, Advanced(p))
    BY <1>1, <1>2, <1>3, CursorOpens
  <2>2. QED BY <1>2, <1>3, <1>4, <1>5, <2>1, PushPreserves
<1>6. CASE FailPush(k)
  BY <1>4, <1>6, FailPushPreserves
<1>7. QED BY <1>2, <1>3, <1>5, <1>6

-----------------------------------------------------------------------------
(* Error paths.                                                            *)

(* Along the stack, each key needs the next.                               *)
LEMMA StackIsChain ==
    ASSUME IInv, NEW i \in 1 .. Len(stack) - 1
    PROVE  stack[i + 1].key \in DependsOn(stack[i].key)
<1>1. stack # <<>> /\ i \in 1 .. Len(stack)
  BY DEF IInv, TypeOK
<1>2. stack[i].key \in Keys /\ Resolvable(stack[i].key)
  BY <1>1, StackKeysType DEF IInv, Traversed, StatesMatchStackAndOrder, SeenIsNeeded
<1>3. QED BY <1>1, <1>2 DEF IInv, Traversed, StackIsDependencyPath, DependsOn

(* A key the top frame needs that is visiting closes a cycle.              *)
LEMMA CyclePathFacts ==
    ASSUME IInv, InLoop, NEW k \in DependsOn(Top.key), k \in Keys,
           states[k] = "visiting"
    PROVE  CyclePath(k) \in Seq(Keys) /\ ClosesCycle(CyclePath(k))
<1> DEFINE n == Len(stack)
           s == CHOOSE i \in 1 .. n : stack[i].key = k
           part == SubSeq(StackKeys, s, n)
           m == n - s + 1
           path == CyclePath(k)
<1>1. s \in 1 .. n /\ stack[s].key = k
  BY DEF IInv, Traversed, StatesMatchStackAndOrder
<1>2. n \in Nat \ {0} /\ m \in 1 .. n
  BY <1>1, TopFacts
<1>3. path = Append(part, k)
  BY DEF CyclePath
<1> HIDE DEF s, path
<1>4. \A i \in s .. n : StackKeys[i] = stack[i].key /\ StackKeys[i] \in Keys
  BY <1>1, StackKeysType DEF IInv
<1>5. part \in Seq(Keys) /\ Len(part) = m /\ \A i \in 1 .. m : part[i] = StackKeys[s + i - 1]
  <2> HIDE DEF n
  <2>1. s \in Int /\ n \in Int /\ s <= n
    BY <1>1, <1>2
  <2>2. QED BY <1>4, <2>1, SubSeqProperties
<1> HIDE DEF part, n, m
<1>6. \A i \in 1 .. m : part[i] = stack[s + i - 1].key
  <2>1. \A i \in 1 .. m : s + i - 1 \in s .. n
    BY <1>1, <1>2 DEF m
  <2>2. QED BY <1>4, <1>5, <2>1
<1>7. /\ path \in Seq(Keys) /\ Len(path) = m + 1
      /\ \A i \in 1 .. m : path[i] = stack[s + i - 1].key
      /\ path[m + 1] = k
  BY <1>2, <1>3, <1>5, <1>6, AppendProperties
<1>8. path[1] = path[Len(path)] /\ Len(path) > 1
  <2>1. path[1] = stack[s].key
    BY <1>1, <1>2, <1>7
  <2>2. QED BY <1>1, <1>2, <1>7, <2>1
<1>9. ASSUME NEW i \in 1 .. m, NEW j \in 1 .. m, path[i] = path[j]
      PROVE  i = j
  <2>1. s + i - 1 \in 1 .. n /\ s + j - 1 \in 1 .. n
    BY <1>1, <1>2 DEF m
  <2>2. s + i - 1 = s + j - 1
    BY <1>7, <1>9, <2>1 DEF IInv, Traversed, StatesMatchStackAndOrder, n
  <2>3. QED BY <1>1, <1>2, <2>2
<1>10. ASSUME NEW i \in 1 .. m + 1
       PROVE  path[i] \in Reachable
  <2>1. \A j \in 1 .. n : stack[j].key \in Reachable
    BY StackKeysType DEF IInv, Traversed, StatesMatchStackAndOrder, SeenIsNeeded, n
  <2>2. CASE i \in 1 .. m
    <3>1. s + i - 1 \in 1 .. n
      BY <1>1, <1>2, <2>2 DEF m
    <3>2. QED BY <1>7, <2>1, <2>2, <3>1
  <2>3. CASE i = m + 1
    BY <1>1, <1>7, <2>1, <2>3
  <2>4. QED BY <1>2, <2>2, <2>3
<1>11. ASSUME NEW i \in 1 .. m
       PROVE  path[i + 1] \in DependsOn(path[i])
  <2>1. CASE i # m
    <3>1. s + i - 1 \in 1 .. n - 1 /\ i + 1 \in 1 .. m /\ s + (i + 1) - 1 = (s + i - 1) + 1
      BY <1>1, <1>2, <2>1 DEF m
    <3>2. stack[(s + i - 1) + 1].key \in DependsOn(stack[s + i - 1].key)
      BY <3>1, StackIsChain DEF n
    <3>3. path[i + 1] = stack[(s + i - 1) + 1].key
      BY <1>7, <3>1
    <3>4. QED BY <1>7, <3>2, <3>3
  <2>2. CASE i = m
    <3>1. s + m - 1 = n
      BY <1>1, <1>2 DEF m
    <3>2. path[m] = Top.key
      BY <1>2, <1>7, <3>1 DEF Top, n
    <3>3. QED BY <1>7, <2>2, <3>2
  <2>3. QED BY <2>1, <2>2
<1>12. Len(path) - 1 = m
  BY <1>2, <1>7
<1>13. ClosesCycle(path)
  BY <1>7, <1>8, <1>9, <1>10, <1>11, <1>12 DEF ClosesCycle, IsDependencyChain
<1>14. QED BY <1>7, <1>13 DEF path

(* The stack's keys and a key that was to be opened above them lead from   *)
(* the root to that key.                                                   *)
LEMMA FailPathFacts ==
    ASSUME IInv, NEW k \in Keys,
           IF stack = <<>> THEN k \in RootSet ELSE k \in DependsOn(Top.key)
    PROVE  LET path == Append(StackKeys, k)
           IN  /\ path \in Seq(Keys)
               /\ LeadsFromRoot(path)
               /\ path[Len(path)] = k
<1> DEFINE n == Len(stack)
           path == Append(StackKeys, k)
<1>1. /\ n \in Nat /\ path \in Seq(Keys) /\ Len(path) = n + 1
      /\ \A i \in 1 .. n : path[i] = stack[i].key
      /\ path[n + 1] = k
  BY StackKeysType, AppendProperties DEF IInv
<1> HIDE DEF path, n
<1>2. path # <<>>
  BY <1>1, EmptySeq
<1>3. path[1] \in RootSet
  <2>1. CASE stack = <<>>
    <3>1. n = 0
      BY <2>1 DEF n
    <3>2. QED BY <1>1, <2>1, <3>1
  <2>2. CASE stack # <<>>
    <3>1. n # 0
      BY <2>2, EmptySeq DEF IInv, TypeOK, n
    <3>2. path[1] = roots[nextRoot] /\ nextRoot \in 1 .. Len(roots)
      BY <1>1, <2>2, <3>1 DEF IInv, TypeOK, Traversed, StackIsDependencyPath
    <3>3. QED BY <3>2, RootIsReachable DEF IInv, TypeOK
  <2>3. QED BY <2>1, <2>2
<1>4. ASSUME NEW i \in 1 .. n
      PROVE  path[i + 1] \in DependsOn(path[i])
  <2>1. CASE i \in 1 .. n - 1
    <3>1. path[i] = stack[i].key /\ path[i + 1] = stack[i + 1].key
      BY <1>1, <2>1
    <3>2. QED BY <2>1, <3>1, StackIsChain DEF n
  <2>2. CASE i = n
    <3>1. stack # <<>>
      BY <1>1 DEF n
    <3>2. QED BY <1>1, <2>2, <3>1 DEF Top, n
  <2>3. QED BY <1>1, <2>1, <2>2
<1>5. Len(path) - 1 = n
  BY <1>1
<1>6. LeadsFromRoot(path)
  BY <1>2, <1>3, <1>4, <1>5 DEF LeadsFromRoot, IsDependencyChain
<1>7. QED BY <1>1, <1>6 DEF path

LEMMA ReportCyclePreserves ==
    ASSUME IInv, ReportCycle
    PROVE  IInv'
<1>1. InLoop
  BY DEF ReportCycle
<1>2. PICK p \in Remaining :
          /\ states[Dependencies(Top.key)[p]] = "visiting"
          /\ Return("cycle", CyclePath(Dependencies(Top.key)[p]))
  BY DEF ReportCycle
<1>3. QED BY <1>1, <1>2, CursorFacts, CyclePathFacts, ReturnPreserves DEF ErrorCodes

LEMMA ValidationPreserves ==
    ASSUME IInv, CheckActivation \/ CheckBindings \/ CheckContributions
    PROVE  IInv'
<1>1. ASSUME NEW phase \in Phases \ {"returned"}, Goto(phase), pc # "returned",
             phase \in {"bindings", "contributions", "traverse"} => Consistent(activation),
             phase \in {"contributions", "traverse"} => MalformedBindings = {},
             phase = "traverse" => MalformedSets = {}
      PROVE  IInv'
  <2>1. TypeOK'
    BY <1>1, ResolutionStable DEF IInv, TypeOK, Goto, traversal, request
  <2>2. PhaseOK'
    BY <1>1 DEF IInv, PhaseOK, Goto, Consistent, MalformedBindings, MalformedSets, request
  <2>3. Traversed'
    BY <1>1, TraversalUnchanged DEF IInv, Goto
  <2>4. QED BY <2>1, <2>2, <2>3 DEF IInv
<1>2. <<>> \in Seq(Keys)
  OBVIOUS
<1>3. \A i \in MalformedBindings : <<module.bindings[i].key>> \in Seq(Keys)
  <2>1. \A i \in MalformedBindings : module.bindings[i] \in Bindings
    BY DEF MalformedBindings, IInv, TypeOK, RequestOK, ModuleType
  <2>2. QED BY <2>1 DEF Bindings
<1>4. \A k \in MalformedSets : <<k>> \in Seq(Keys)
  BY DEF MalformedSets, IInv, TypeOK, RequestOK, ModuleType
<1>5. CASE CheckActivation
  BY <1>1, <1>2, <1>5, ReturnPreserves DEF CheckActivation, Phases, ErrorCodes
<1>6. CASE CheckBindings
  BY <1>1, <1>3, <1>6, ReturnPreserves DEF CheckBindings, Phases, ErrorCodes, IInv, PhaseOK
<1>7. CASE CheckContributions
  BY <1>1, <1>4, <1>7, ReturnPreserves
     DEF CheckContributions, Phases, ErrorCodes, IInv, PhaseOK
<1>8. QED BY <1>5, <1>6, <1>7

LEMMA FinishPreserves ==
    ASSUME IInv, Finish
    PROVE  IInv'
BY ReturnPreserves DEF Finish, IInv, TypeOK

-----------------------------------------------------------------------------
(* The invariant holds.                                                    *)

LEMMA NextIInv == IInv /\ [Next]_vars => IInv'
<1> SUFFICES ASSUME IInv, [Next]_vars PROVE IInv'
  OBVIOUS
<1>1. CASE CheckActivation \/ CheckBindings \/ CheckContributions
  BY <1>1, ValidationPreserves
<1>2. CASE NextRoot
  BY <1>2, NextRootPreserves
<1>3. CASE StartRoot
  BY <1>3, StartRootPreserves
<1>4. CASE Complete
  BY <1>4, CompletePreserves
<1>5. CASE SkipComplete
  BY <1>5, SkipCompletePreserves
<1>6. CASE Descend
  BY <1>6, DescendPreserves
<1>7. CASE ReportCycle
  BY <1>7, ReportCyclePreserves
<1>8. CASE Finish
  BY <1>8, FinishPreserves
<1>9. CASE UNCHANGED vars
  <2>1. UNCHANGED request /\ UNCHANGED <<request, traversal>> /\ UNCHANGED <<request, pc, result>>
    BY <1>9 DEF vars
  <2>2. TypeOK'
    BY <2>1, ResolutionStable DEF IInv, TypeOK, traversal, request
  <2>3. QED BY <2>1, <2>2, PhaseStable, TraversalUnchanged DEF IInv
<1>10. QED BY <1>1, <1>2, <1>3, <1>4, <1>5, <1>6, <1>7, <1>8, <1>9 DEF Next

(* Every reachable state of every call satisfies the invariant.            *)
THEOREM Invariance == Spec => []IInv
BY InitIInv, NextIInv, PTL DEF Spec

(* Planner::plan keeps its variables in range.                             *)
THEOREM TypeCorrect == Spec => []TypeOK
<1>1. IInv => TypeOK
  BY DEF IInv
<1>2. QED BY Invariance, <1>1, PTL

(* The state map, the stack and the order agree throughout the traversal.  *)
THEOREM Bookkeeping == Spec => []StatesMatchStackAndOrder
<1>1. IInv => StatesMatchStackAndOrder
  BY DEF IInv, Traversed
<1>2. QED BY Invariance, <1>1, PTL

(* The stack is a dependency path from the root being visited.             *)
THEOREM StackIsPath == Spec => []StackIsDependencyPath
<1>1. IInv => StackIsDependencyPath
  BY DEF IInv, Traversed
<1>2. QED BY Invariance, <1>1, PTL

(* No dependency behind a cursor and no root left behind is unfinished.    *)
THEOREM NothingSkipped == Spec => []PassedIsComplete
<1>1. IInv => PassedIsComplete
  BY DEF IInv, Traversed
<1>2. QED BY Invariance, <1>1, PTL

(* The order is topological at every moment.                               *)
THEOREM Topological == Spec => []OrderIsTopological
<1>1. IInv => OrderIsTopological
  BY DEF IInv, Traversed
<1>2. QED BY Invariance, <1>1, PTL

(* The traversal sees only resolvable keys that the roots reach.           *)
THEOREM OnlyNeeded == Spec => []SeenIsNeeded
<1>1. IInv => SeenIsNeeded
  BY DEF IInv, Traversed
<1>2. QED BY Invariance, <1>1, PTL

-----------------------------------------------------------------------------
(* The call implements its contract.                                       *)

LEMMA ReturnAnswers ==
    ASSUME IInv, NEW code \in ErrorCodes \cup {"plan"}, NEW path \in Seq(Keys),
           pc # "returned", Return(code, path),
           Allowed([code |-> code, path |-> path])
    PROVE  Answer
<1>1. result = Pending
  BY DEF IInv, PhaseOK
<1>2. result' = [code |-> code, path |-> path] /\ UNCHANGED request
  BY DEF Return
<1>3. [code |-> code, path |-> path] \in Results
  BY DEF Results
<1>4. QED BY <1>1, <1>2, <1>3 DEF Answer

LEMMA FailPushAnswers ==
    ASSUME IInv, Traversing, NEW k \in Keys, FailPush(k),
           IF stack = <<>> THEN k \in RootSet ELSE k \in DependsOn(Top.key)
    PROVE  Answer
<1> DEFINE path == Append(StackKeys, k)
<1>1. path \in Seq(Keys) /\ LeadsFromRoot(path) /\ path[Len(path)] = k
  BY FailPathFacts
<1>2. WellFormed /\ pc # "returned"
  BY DEF IInv, PhaseOK, Traversing, WellFormed
<1> HIDE DEF path
<1>3. CASE Ambiguous(k) /\ Return("ambiguous_binding", path)
  <2>1. Allowed([code |-> "ambiguous_binding", path |-> path])
    BY <1>1, <1>2, <1>3 DEF Allowed
  <2>2. QED BY <1>1, <1>2, <1>3, <2>1, ReturnAnswers DEF ErrorCodes
<1>4. CASE Missing(k) /\ Return("missing_binding", path)
  <2>1. Allowed([code |-> "missing_binding", path |-> path])
    BY <1>1, <1>2, <1>4 DEF Allowed
  <2>2. QED BY <1>1, <1>2, <1>4, <2>1, ReturnAnswers DEF ErrorCodes
<1>5. QED BY <1>3, <1>4 DEF FailPush, path

(* When the roots are exhausted the order is exactly what they reach.      *)
LEMMA FinishedPlan ==
    ASSUME IInv, stack = <<>>, nextRoot > Len(roots)
    PROVE  ExecutablePlan(ordered)
<1> DEFINE S == {ordered[i] : i \in 1 .. Len(ordered)}
<1>1. RequestOK /\ ordered \in Seq(Keys) /\ nextRoot = Len(roots) + 1 /\ Len(roots) \in Nat
  BY DEF IInv, TypeOK, RequestOK
<1>2. \A k \in Keys : states[k] = "complete" <=> k \in S
  <2>1. \A k \in Keys : states[k] = "complete" <=> \E i \in 1 .. Len(ordered) : ordered[i] = k
    BY DEF IInv, Traversed, StatesMatchStackAndOrder
  <2>2. \A k : k \in S <=> \E i \in 1 .. Len(ordered) : ordered[i] = k
    OBVIOUS
  <2>3. QED BY <2>1, <2>2
<1>3. \A i \in 1 .. Len(ordered) : ordered[i] \in Keys /\ states[ordered[i]] = "complete"
  BY <1>1, <1>2
<1>4. \A i \in 1 .. Len(ordered) : Resolvable(ordered[i]) /\ ordered[i] \in Reachable
  BY <1>3 DEF IInv, Traversed, SeenIsNeeded
<1>5. S \in SUBSET Reachable
  BY <1>4
<1>6. RootSet \subseteq S
  <2>1. ASSUME NEW i \in 1 .. Len(roots)
        PROVE  roots[i] \in S
    <3>1. roots[i] \in Keys
      BY <1>1, RootIsReachable
    <3>2. states[roots[i]] = "complete"
      BY <1>1 DEF IInv, Traversed, PassedIsComplete
    <3>3. QED BY <1>2, <3>1, <3>2
  <2>2. DOMAIN roots = 1 .. Len(roots)
    BY <1>1 DEF RequestOK
  <2>3. QED BY <2>1, <2>2 DEF RootSet
<1>7. Closed(S)
  <2>1. ASSUME NEW i \in 1 .. Len(ordered), NEW d \in DependsOn(ordered[i])
        PROVE  d \in S
    <3>1. PICK j \in 1 .. i - 1 : ordered[j] = d
      BY <2>1 DEF IInv, Traversed, OrderIsTopological, DependenciesPrecede
    <3>2. j \in 1 .. Len(ordered)
      BY <1>1
    <3>3. QED BY <3>1, <3>2
  <2>2. QED BY <2>1 DEF Closed
<1>8. S = Reachable
  BY <1>5, <1>6, <1>7, ClosedIsReachable
<1>9. QED BY <1>4, <1>8
          DEF ExecutablePlan, Exactly, IInv, Traversed, StatesMatchStackAndOrder,
              OrderIsTopological

LEMMA NextAnswers == IInv /\ [Next]_vars => [Answer]_<<request, result>>
<1> SUFFICES ASSUME IInv, [Next]_vars PROVE [Answer]_<<request, result>>
  OBVIOUS
<1>1. CASE CheckActivation
  <2>1. CASE Consistent(activation)
    BY <1>1, <2>1 DEF CheckActivation, Goto
  <2>2. CASE ~Consistent(activation)
    <3>1. Allowed([code |-> "conflicting_axis", path |-> <<>>])
      BY <2>2 DEF Allowed, ConflictIsFirst
    <3>2. <<>> \in Seq(Keys)
      OBVIOUS
    <3>3. Return("conflicting_axis", <<>>) /\ pc # "returned"
      BY <1>1, <2>2 DEF CheckActivation
    <3>4. QED BY <3>1, <3>2, <3>3, ReturnAnswers DEF ErrorCodes
  <2>3. QED BY <2>1, <2>2
<1>2. CASE CheckBindings
  <2>1. CASE Goto("contributions")
    BY <2>1 DEF Goto
  <2>2. ASSUME NEW i \in MalformedBindings, \A j \in MalformedBindings : i <= j,
               Return("conflicting_axis", <<module.bindings[i].key>>)
        PROVE  Answer
    <3>1. module.bindings[i] \in Bindings
      BY DEF MalformedBindings, IInv, TypeOK, RequestOK, ModuleType
    <3>2. <<module.bindings[i].key>> \in Seq(Keys)
      BY <3>1 DEF Bindings
    <3>3. Consistent(activation) /\ pc # "returned"
      BY <1>2 DEF CheckBindings, IInv, PhaseOK
    <3>4. Allowed([code |-> "conflicting_axis", path |-> <<module.bindings[i].key>>])
      BY <2>2, <3>3 DEF Allowed, ConflictIsFirst
    <3>5. QED BY <2>2, <3>2, <3>3, <3>4, ReturnAnswers DEF ErrorCodes
  <2>3. QED BY <1>2, <2>1, <2>2 DEF CheckBindings
<1>3. CASE CheckContributions
  <2>1. CASE Goto("traverse")
    BY <2>1 DEF Goto
  <2>2. ASSUME NEW k \in MalformedSets, Return("conflicting_axis", <<k>>)
        PROVE  Answer
    <3>1. <<k>> \in Seq(Keys)
      BY DEF MalformedSets, IInv, TypeOK, RequestOK, ModuleType
    <3>2. Consistent(activation) /\ MalformedBindings = {} /\ pc # "returned"
      BY <1>3 DEF CheckContributions, IInv, PhaseOK
    <3>3. Allowed([code |-> "conflicting_axis", path |-> <<k>>])
      BY <3>2 DEF Allowed, ConflictIsFirst
    <3>4. QED BY <2>2, <3>1, <3>2, <3>3, ReturnAnswers DEF ErrorCodes
  <2>3. QED BY <1>3, <2>1, <2>2 DEF CheckContributions
<1>4. CASE NextRoot
  BY <1>4 DEF NextRoot
<1>5. CASE StartRoot
  <2>1. CASE Push(roots[nextRoot], stack)
    BY <2>1 DEF Push
  <2>2. CASE FailPush(roots[nextRoot])
    <3>1. Traversing /\ stack = <<>> /\ nextRoot \in 1 .. Len(roots)
      BY <1>5 DEF StartRoot, AtRoot, IInv, TypeOK
    <3>2. roots[nextRoot] \in Keys /\ roots[nextRoot] \in RootSet
      BY <3>1, RootIsReachable DEF IInv, TypeOK
    <3>3. QED BY <2>2, <3>1, <3>2, FailPushAnswers
  <2>3. QED BY <1>5, <2>1, <2>2 DEF StartRoot
<1>6. CASE Complete
  BY <1>6 DEF Complete
<1>7. CASE SkipComplete
  BY <1>7 DEF SkipComplete
<1>8. CASE Descend
  <2>1. InLoop /\ Traversing /\ stack # <<>>
    BY <1>8 DEF Descend, InLoop
  <2>2. PICK p \in Remaining :
            \/ Push(Dependencies(Top.key)[p], Advanced(p))
            \/ FailPush(Dependencies(Top.key)[p])
    BY <1>8 DEF Descend
  <2>3. CASE Push(Dependencies(Top.key)[p], Advanced(p))
    BY <2>3 DEF Push
  <2>4. CASE FailPush(Dependencies(Top.key)[p])
    BY <2>1, <2>2, <2>4, CursorFacts, FailPushAnswers
  <2>5. QED BY <2>2, <2>3, <2>4
<1>9. CASE ReportCycle
  <2>1. InLoop /\ WellFormed /\ pc # "returned"
    BY <1>9 DEF ReportCycle, InLoop, Traversing, IInv, PhaseOK, WellFormed
  <2>2. PICK p \in Remaining :
            /\ states[Dependencies(Top.key)[p]] = "visiting"
            /\ Return("cycle", CyclePath(Dependencies(Top.key)[p]))
    BY <1>9 DEF ReportCycle
  <2> DEFINE path == CyclePath(Dependencies(Top.key)[p])
  <2>3. path \in Seq(Keys) /\ ClosesCycle(path)
    BY <2>1, <2>2, CursorFacts, CyclePathFacts
  <2> HIDE DEF path
  <2>4. Allowed([code |-> "cycle", path |-> path])
    BY <2>1, <2>3 DEF Allowed
  <2>5. Return("cycle", path)
    BY <2>2 DEF path
  <2>6. QED BY <2>1, <2>3, <2>4, <2>5, ReturnAnswers DEF ErrorCodes
<1>10. CASE Finish
  <2>1. ExecutablePlan(ordered)
    BY <1>10, FinishedPlan DEF Finish
  <2>2. WellFormed /\ pc # "returned" /\ ordered \in Seq(Keys)
    BY <1>10 DEF Finish, Traversing, IInv, TypeOK, PhaseOK, WellFormed
  <2>3. Allowed([code |-> "plan", path |-> ordered])
    BY <2>1, <2>2 DEF Allowed
  <2>4. Return("plan", ordered)
    BY <1>10 DEF Finish
  <2>5. QED BY <2>2, <2>3, <2>4, ReturnAnswers
<1>11. CASE UNCHANGED vars
  BY <1>11 DEF vars
<1>12. QED BY <1>1, <1>2, <1>3, <1>4, <1>5, <1>6, <1>7, <1>8, <1>9, <1>10, <1>11
       DEF Next

(* Planner::plan answers at most once, and only what PlanContract allows:  *)
(* a plan that holds exactly what the roots reach, once each, dependencies *)
(* first, or an error whose path is evidence for it.                       *)
THEOREM Refinement == Spec => RefinesContract
<1>1. Init => ContractInit
  BY RequestInitOK DEF Init, ContractInit
<1>2. QED BY <1>1, Invariance, NextAnswers, PTL DEF Spec, RefinesContract, ContractSpec

-----------------------------------------------------------------------------
(* The recursion is well-founded: it names a function on all places.       *)

LEMMA CommonBound ==
    ASSUME NEW S, IsFiniteSet(S), NEW g \in [S -> Nat]
    PROVE  \E b \in Nat : \A x \in S : g[x] <= b
<1> DEFINE Bounded(T) == \E b \in Nat : \A x \in T : g[x] <= b
           Bad == {n \in Nat : \E T \in SUBSET S : Cardinality(T) = n /\ ~Bounded(T)}
<1>1. SUFFICES ASSUME Bad # {} PROVE FALSE
  <2>1. Cardinality(S) \in Nat
    BY FS_CardinalityType
  <2>2. Cardinality(S) \notin Bad => Bounded(S)
    BY <2>1
  <2>3. QED BY <2>2
<1>2. PICK n \in Bad : \A m \in Bad : n <= m
  BY <1>1, LeastNumber
<1>3. PICK T \in SUBSET S : Cardinality(T) = n /\ ~Bounded(T)
  OBVIOUS
<1>4. IsFiniteSet(T)
  BY FS_Subset
<1>5. PICK x : x \in T
  BY <1>3
<1>6. /\ IsFiniteSet(T \ {x})
      /\ Cardinality(T \ {x}) = n - 1
  BY <1>3, <1>4, <1>5, FS_RemoveElement
<1>7. n - 1 \in Nat /\ n - 1 \notin Bad
  <2>1. n \in Nat /\ Cardinality(T \ {x}) \in Nat
    BY <1>6, FS_CardinalityType
  <2>2. QED BY <1>2, <1>6, <2>1
<1>8. Bounded(T \ {x})
  BY <1>6, <1>7
<1>9. PICK b \in Nat : \A y \in T \ {x} : g[y] <= b
  BY <1>8
<1>10. g[x] \in Nat /\ \A y \in T : g[y] \in Nat
  BY <1>5
<1>11. \A y \in T : g[y] <= b + g[x]
  BY <1>9, <1>10
<1>12. b + g[x] \in Nat
  BY <1>10
<1>13. QED BY <1>3, <1>11, <1>12

(* What finiteness of the request gives; neither part moves in a call.     *)
Searchable == RequestOK /\ IsFiniteSet(DOMAIN module.sets)

LEMMA SolvableFinite ==
    ASSUME Searchable
    PROVE  IsFiniteSet(Solvable)
<1> DEFINE D == DOMAIN module.bindings
           B == {module.bindings[i].key : i \in D}
           g == [i \in D |-> module.bindings[i].key]
<1>1. IsFiniteSet(D)
  <2>1. PICK n \in Nat : D = 1 .. n
    <3>1. module.bindings \in Seq(Bindings)
      BY DEF Searchable, RequestOK, ModuleType
    <3>2. QED BY <3>1
  <2> HIDE DEF D
  <2>2. IsFiniteSet(1 .. n)
    BY FS_Interval
  <2>3. QED BY <2>1, <2>2
<1>2. IsFiniteSet(B)
  <2>1. g \in Surjection(D, B)
    BY DEF Surjection
  <2> HIDE DEF D, B, g
  <2>2. QED BY <1>1, <2>1, FS_Surjection
<1>3. Solvable \subseteq B \cup DOMAIN module.sets
  BY DEF Solvable, Resolvable, Missing, ActiveBindings
<1>4. IsFiniteSet(B \cup DOMAIN module.sets)
  <2> HIDE DEF B
  <2>1. QED BY <1>2, FS_Union DEF Searchable
<1> HIDE DEF B
<1>5. QED BY <1>3, <1>4, FS_Subset

(* No position of what some path needs is past it.                         *)
Bounds(b) ==
    /\ Len(roots) <= b
    /\ \A k \in Solvable : \A p \in DOMAIN Dependencies(k) : p <= b

Widest == CHOOSE b \in Nat : Bounds(b)

LEMMA WidestBounds ==
    ASSUME Searchable
    PROVE  Widest \in Nat /\ Bounds(Widest)
<1> DEFINE g == [k \in Solvable |->
                    CHOOSE b \in Nat : \A p \in DOMAIN Dependencies(k) : p <= b]
<1>1. ASSUME NEW k \in Solvable
      PROVE  g[k] \in Nat /\ \A p \in DOMAIN Dependencies(k) : p <= g[k]
  <2>1. \E b \in Nat : \A p \in DOMAIN Dependencies(k) : p <= b
    BY DependenciesType DEF Searchable, Solvable
  <2>2. QED BY <2>1
<1>2. g \in [Solvable -> Nat]
  BY <1>1
<1> HIDE DEF g
<1>3. PICK b \in Nat : \A k \in Solvable : g[k] <= b
  BY <1>2, SolvableFinite, CommonBound
<1>4. Len(roots) \in Nat
  BY DEF Searchable, RequestOK
<1>5. ASSUME NEW k \in Solvable, NEW p \in DOMAIN Dependencies(k)
      PROVE  p <= b + Len(roots)
  <2>1. g[k] \in Nat /\ p <= g[k] /\ g[k] <= b
    BY <1>1, <1>3
  <2>2. p \in Nat
    BY DependenciesType DEF Solvable, Searchable
  <2>3. QED BY <1>4, <2>1, <2>2
<1>6. Bounds(b + Len(roots)) /\ b + Len(roots) \in Nat
  BY <1>4, <1>5 DEF Bounds
<1>7. QED BY <1>6 DEF Widest

LEMMA PlaceFacts ==
    ASSUME NEW s \in Places
    PROVE  /\ s = Place(s.path, s.next, s.order)
           /\ s.path \in Seq(Solvable) /\ s.path \in Seq(Keys)
           /\ s.next \in Nat \ {0}
           /\ s.order \in Seq(Keys)
<1>1. s = [path |-> s.path, next |-> s.next, order |-> s.order] /\ s.path \in Seq(Solvable)
  BY DEF Places
<1>2. \A k \in Solvable : k \in Keys
  BY DEF Solvable
<1>3. s.path \in Seq(Keys)
  BY <1>1, <1>2
<1>4. QED BY <1>1, <1>3 DEF Places, Place

LEMMA PlaceType ==
    ASSUME NEW path \in Seq(Solvable), NEW next \in Nat \ {0}, NEW order \in Seq(Keys)
    PROVE  /\ Place(path, next, order) \in Places
           /\ Place(path, next, order).path = path
           /\ Place(path, next, order).next = next
           /\ Place(path, next, order).order = order
BY DEF Place, Places

LEMMA NeedsFacts ==
    ASSUME Searchable, NEW path \in Seq(Solvable)
    PROVE  \A p \in DOMAIN Needs(path) :
               p \in Nat \ {0} /\ p <= Widest /\ Needs(path)[p] \in Keys
<1>1. CASE path = <<>>
  <2>1. Needs(path) = roots
    BY <1>1 DEF Needs
  <2>2. roots \in Seq(Keys) /\ Len(roots) <= Widest
    BY WidestBounds DEF Searchable, RequestOK, Bounds
  <2>3. Len(roots) \in Nat /\ DOMAIN roots = 1 .. Len(roots) /\ Widest \in Nat
    BY <2>2, WidestBounds
  <2>4. \A p \in DOMAIN roots : p \in Nat \ {0} /\ p <= Widest /\ roots[p] \in Keys
    BY <2>2, <2>3
  <2>5. QED BY <2>1, <2>4
<1>2. CASE path # <<>>
  <2>1. path[Len(path)] \in Solvable
    BY <1>2, EmptySeq
  <2>2. PICK k \in Solvable : k = path[Len(path)]
    BY <2>1
  <2>3. Needs(path) = Dependencies(k)
    BY <1>2, <2>2 DEF Needs
  <2>4. k \in Keys /\ Resolvable(k)
    BY DEF Solvable
  <2>5. \A p \in DOMAIN Dependencies(k) : p <= Widest
    BY WidestBounds DEF Bounds
  <2>6. \A p \in DOMAIN Dependencies(k) : p \in Nat \ {0} /\ Dependencies(k)[p] \in Keys
    BY <2>4, DependenciesType DEF Searchable
  <2>7. QED BY <2>3, <2>5, <2>6
<1>3. QED BY <1>1, <1>2

LEMMA FirstLeft ==
    ASSUME NEW S \in SUBSET Nat, S # {}
    PROVE  First(S) \in S /\ \A q \in S : First(S) <= q
BY LeastNumber DEF First

(* How many turns a search from a place may still take, roughly: a key is  *)
(* never opened twice on a path, and no path's end needs more than Widest. *)
Unopened(path) == Solvable \ {path[i] : i \in DOMAIN path}

Rank(s) ==
    Cardinality(Unopened(s.path)) * (Widest + 1)
        + (IF s.next <= Widest THEN Widest + 1 - s.next ELSE 0)

LEMMA RankType ==
    ASSUME Searchable, NEW s \in Places
    PROVE  Rank(s) \in Nat
<1>1. Cardinality(Unopened(s.path)) \in Nat
  <2>1. IsFiniteSet(Unopened(s.path))
    BY SolvableFinite, FS_Subset DEF Unopened
  <2>2. QED BY <2>1, FS_CardinalityType
<1>2. Widest \in Nat /\ s.next \in Nat \ {0}
  BY WidestBounds, PlaceFacts
<1>3. \A c, w \in Nat : c * (w + 1) \in Nat
  OBVIOUS
<1>4. Cardinality(Unopened(s.path)) * (Widest + 1) \in Nat
  BY <1>1, <1>2, <1>3
<1>5. QED BY <1>2, <1>4 DEF Rank

LEMMA RankOfNext ==
    ASSUME Searchable, NEW s \in Places, NEW p \in Left(s), NEW order \in Seq(Keys)
    PROVE  /\ Place(s.path, p + 1, order) \in Places
           /\ Rank(Place(s.path, p + 1, order)) < Rank(s)
<1>1. p \in Nat \ {0} /\ p <= Widest /\ p >= s.next /\ s.next \in Nat \ {0} /\ Widest \in Nat
  BY NeedsFacts, PlaceFacts, WidestBounds DEF Left
<1>2. s.path \in Seq(Solvable) /\ p + 1 \in Nat \ {0}
  BY <1>1, PlaceFacts
<1> DEFINE t == Place(s.path, p + 1, order)
<1>3. t \in Places /\ t.path = s.path /\ t.next = p + 1
  BY <1>2, PlaceType
<1> HIDE DEF t
<1>4. PICK m : m = Cardinality(Unopened(s.path)) * (Widest + 1)
  OBVIOUS
<1>5. m \in Nat
  <2>1. IsFiniteSet(Unopened(s.path))
    BY SolvableFinite, FS_Subset DEF Unopened
  <2>2. Cardinality(Unopened(s.path)) \in Nat
    BY <2>1, FS_CardinalityType
  <2>3. \A c, w \in Nat : c * (w + 1) \in Nat
    OBVIOUS
  <2>4. QED BY <1>1, <1>4, <2>2, <2>3
<1>6. Rank(s) = m + (Widest + 1 - s.next)
  BY <1>1, <1>4 DEF Rank
<1>7. Rank(t) = m + (IF p + 1 <= Widest THEN Widest + 1 - (p + 1) ELSE 0)
  BY <1>3, <1>4 DEF Rank
<1>8. Rank(t) < Rank(s)
  BY <1>1, <1>5, <1>6, <1>7
<1>9. QED BY <1>3, <1>8 DEF t

LEMMA RankOfOpened ==
    ASSUME Searchable, NEW s \in Places, NEW k \in Solvable, ~Occurs(k, s.path),
           NEW order \in Seq(Keys)
    PROVE  /\ Place(Append(s.path, k), 1, order) \in Places
           /\ Rank(Place(Append(s.path, k), 1, order)) < Rank(s)
<1> DEFINE path == Append(s.path, k)
           t == Place(path, 1, order)
<1>1. s.path \in Seq(Solvable)
  BY PlaceFacts
<1>2. path \in Seq(Solvable)
  BY <1>1
<1>3. t \in Places /\ t.path = path /\ t.next = 1
  <2> HIDE DEF path
  <2>1. QED BY <1>2, PlaceType
<1>4. {path[i] : i \in DOMAIN path} = {s.path[i] : i \in DOMAIN s.path} \cup {k}
  <2>1. \A q \in Seq(Solvable) :
            /\ DOMAIN Append(q, k) = DOMAIN q \cup {Len(q) + 1}
            /\ \A i \in DOMAIN q : Append(q, k)[i] = q[i]
            /\ Append(q, k)[Len(q) + 1] = k
    OBVIOUS
  <2>2. /\ DOMAIN path = DOMAIN s.path \cup {Len(s.path) + 1}
        /\ \A i \in DOMAIN s.path : path[i] = s.path[i]
        /\ path[Len(s.path) + 1] = k
    BY <1>1, <2>1
  <2> HIDE DEF path
  <2>3. QED BY <2>2
<1> HIDE DEF path, t
<1> DEFINE U == Unopened(s.path)
<1>5. Unopened(path) = U \ {k} /\ k \in U
  BY <1>4 DEF Unopened, Occurs
<1>6. IsFiniteSet(U)
  BY SolvableFinite, FS_Subset DEF Unopened
<1> HIDE DEF U
<1>7. Cardinality(U \ {k}) = Cardinality(U) - 1
  BY <1>5, <1>6, FS_RemoveElement
<1>8. Cardinality(U) \in Nat /\ Cardinality(U \ {k}) \in Nat
  <2>1. IsFiniteSet(U \ {k})
    BY <1>6, FS_RemoveElement
  <2>2. QED BY <1>6, <2>1, FS_CardinalityType
<1>9. PICK c \in Nat, w \in Nat : c = Cardinality(U \ {k}) /\ w = Widest
  BY <1>8, WidestBounds
<1>10. \A x, y \in Nat : (x + 1) * (y + 1) = x * (y + 1) + (y + 1) /\ x * (y + 1) \in Nat
  OBVIOUS
<1>11. Cardinality(U) = c + 1
  BY <1>7, <1>8, <1>9
<1>12. PICK m \in Nat : m = c * (w + 1) /\ (c + 1) * (w + 1) = m + (w + 1)
  BY <1>10
<1>13. Rank(t) = m + (IF 1 <= w THEN w + 1 - 1 ELSE 0)
  BY <1>3, <1>5, <1>9, <1>12 DEF Rank
<1>14. Rank(s) = m + (w + 1) + (IF s.next <= w THEN w + 1 - s.next ELSE 0)
  BY <1>9, <1>11, <1>12 DEF Rank, U
<1>15. Rank(t) < Rank(s)
  <2>1. s.next \in Nat
    BY PlaceFacts
  <2>2. QED BY <1>13, <1>14, <2>1
<1>16. QED BY <1>3, <1>15 DEF t, path

Verdicts == [code : {"plan"} \cup ErrorCodes, path : Seq(Keys)]

(* f answers, as g does, wherever a search goes on from s.                 *)
AgreeBelow(f, g, s) ==
    \A t \in Places : Rank(t) < Rank(s) => f[t] \in Verdicts /\ f[t] = g[t]

LEMMA VerdictType ==
    ASSUME NEW code \in {"plan"} \cup ErrorCodes, NEW path \in Seq(Keys)
    PROVE  /\ Verdict(code, path) \in Verdicts
           /\ Verdict(code, path).code = code
           /\ Verdict(code, path).path = path
BY DEF Verdict, Verdicts

LEMMA EmittedType ==
    ASSUME NEW path \in Seq(Keys), NEW order \in Seq(Keys)
    PROVE  Emitted(path, order) \in Verdicts
<1>1. CASE path = <<>>
  BY <1>1, VerdictType DEF Emitted
<1>2. CASE path # <<>>
  <2>1. path[Len(path)] \in Keys
    BY <1>2, EmptySeq
  <2>2. Append(order, path[Len(path)]) \in Seq(Keys)
    BY <2>1
  <2>3. QED BY <1>2, <2>2, VerdictType DEF Emitted
<1>3. QED BY <1>1, <1>2

LEMMA VisitLocal ==
    ASSUME Searchable, NEW s \in Places, NEW f, NEW g, AgreeBelow(f, g, s), NEW k \in Keys
    PROVE  /\ Visit(f, k, s.path, s.order) \in Verdicts
           /\ Visit(f, k, s.path, s.order) = Visit(g, k, s.path, s.order)
<1>1. /\ s.path \in Seq(Keys) /\ s.path \in Seq(Solvable) /\ s.order \in Seq(Keys)
      /\ Append(s.path, k) \in Seq(Keys)
  <2>1. s.path \in Seq(Keys) /\ s.path \in Seq(Solvable) /\ s.order \in Seq(Keys)
    BY PlaceFacts
  <2>2. QED BY <2>1
<1>2. CASE Occurs(k, s.path)
  <2> DEFINE start == CHOOSE i \in DOMAIN s.path : s.path[i] = k
             part == SubSeq(s.path, start, Len(s.path))
  <2>1. start \in DOMAIN s.path
    BY <1>2 DEF Occurs
  <2>2. start \in 1 .. Len(s.path) /\ Len(s.path) \in Nat
    BY <1>1, <2>1
  <2> HIDE DEF start
  <2>3. part \in Seq(Keys)
    <3>1. \A i \in start .. Len(s.path) : s.path[i] \in Keys
      BY <1>1, <2>2
    <3>2. start \in Int /\ Len(s.path) \in Int
      BY <2>2
    <3>3. QED BY <3>1, <3>2, SubSeqProperties
  <2> HIDE DEF part
  <2>4. Append(part, k) \in Seq(Keys)
    BY <2>3
  <2>5. Verdict("cycle", Append(part, k)) \in Verdicts
    BY <2>4, VerdictType DEF ErrorCodes
  <2>6. Visit(f, k, s.path, s.order) = Verdict("cycle", Append(part, k))
    BY <1>2 DEF Visit, part, start
  <2>7. Visit(g, k, s.path, s.order) = Verdict("cycle", Append(part, k))
    BY <1>2 DEF Visit, part, start
  <2>8. QED BY <2>5, <2>6, <2>7
<1>3. CASE ~Occurs(k, s.path) /\ Occurs(k, s.order)
  BY <1>1, <1>3, VerdictType DEF Visit
<1>4. CASE ~Occurs(k, s.path) /\ ~Occurs(k, s.order) /\ ~Resolvable(k)
  <2>1. /\ Verdict("ambiguous_binding", Append(s.path, k)) \in Verdicts
        /\ Verdict("missing_binding", Append(s.path, k)) \in Verdicts
    BY <1>1, VerdictType DEF ErrorCodes
  <2>2. QED BY <1>4, <2>1 DEF Visit, Resolvable
<1>5. CASE ~Occurs(k, s.path) /\ ~Occurs(k, s.order) /\ Resolvable(k)
  <2>1. k \in Solvable
    BY <1>5 DEF Solvable
  <2> DEFINE t == Place(Append(s.path, k), 1, s.order)
  <2>2. t \in Places /\ Rank(t) < Rank(s)
    BY <1>1, <1>5, <2>1, RankOfOpened
  <2>3. f[t] \in Verdicts /\ f[t] = g[t]
    BY <2>2 DEF AgreeBelow
  <2>4. Visit(f, k, s.path, s.order) = f[t] /\ Visit(g, k, s.path, s.order) = g[t]
    BY <1>5 DEF Visit, Resolvable
  <2>5. QED BY <2>3, <2>4
<1>6. QED BY <1>2, <1>3, <1>4, <1>5

LEMMA TurnLocal ==
    ASSUME Searchable, NEW s \in Places, NEW f, NEW g, AgreeBelow(f, g, s)
    PROVE  Turn(f, s) \in Verdicts /\ Turn(f, s) = Turn(g, s)
<1>1. s.path \in Seq(Keys) /\ s.path \in Seq(Solvable) /\ s.order \in Seq(Keys)
  BY PlaceFacts
<1>2. CASE Left(s) = {}
  BY <1>1, <1>2, EmittedType DEF Turn
<1>3. CASE Left(s) # {}
  <2>1. Left(s) \subseteq Nat
    BY <1>1, NeedsFacts DEF Left
  <2>2. PICK p : p = First(Left(s))
    OBVIOUS
  <2>3. p \in Left(s)
    BY <1>3, <2>1, <2>2, FirstLeft
  <2>4. Needs(s.path)[p] \in Keys
    BY <1>1, <2>3, NeedsFacts DEF Left
  <2>5. PICK v : v = Visit(f, Needs(s.path)[p], s.path, s.order)
    OBVIOUS
  <2>6. v \in Verdicts /\ v = Visit(g, Needs(s.path)[p], s.path, s.order)
    BY <2>4, <2>5, VisitLocal
  <2>7. Turn(f, s) = Resume(f, s.path, p + 1, v) /\ Turn(g, s) = Resume(g, s.path, p + 1, v)
    BY <1>3, <2>2, <2>5, <2>6 DEF Turn
  <2>8. CASE v.code = "plan"
    <3> DEFINE t == Place(s.path, p + 1, v.path)
    <3>1. v.path \in Seq(Keys)
      BY <2>6 DEF Verdicts
    <3>2. t \in Places /\ Rank(t) < Rank(s)
      BY <2>3, <3>1, RankOfNext
    <3>3. f[t] \in Verdicts /\ f[t] = g[t]
      BY <3>2 DEF AgreeBelow
    <3>4. QED BY <2>7, <2>8, <3>3 DEF Resume
  <2>9. CASE v.code # "plan"
    BY <2>6, <2>7, <2>9 DEF Resume
  <2>10. QED BY <2>8, <2>9
<1>4. QED BY <1>2, <1>3

-----------------------------------------------------------------------------

Below(n) == {s \in Places : Rank(s) < n}

(* f is the recursion, on the places of rank less than n.                  *)
IsSearchBelow(f, n) ==
    f = [s \in Below(n) |-> f[s]] /\ \A s \in Below(n) : f[s] \in Verdicts /\ f[s] = Turn(f, s)

LEMMA SearchExistsBelow ==
    ASSUME Searchable, NEW n \in Nat
    PROVE  \E f : IsSearchBelow(f, n)
<1> DEFINE Bad == {k \in Nat : ~ \E f : IsSearchBelow(f, k)}
<1>1. SUFFICES ASSUME Bad # {}
               PROVE  FALSE
  OBVIOUS
<1>2. PICK k \in Bad : \A m \in Bad : k <= m
  BY <1>1, LeastNumber
<1>3. CASE k = 0
  <2>1. Below(0) = {}
    BY RankType DEF Below
  <2>2. IsSearchBelow([s \in Below(0) |-> 0], 0)
    BY <2>1 DEF IsSearchBelow
  <2>3. QED BY <1>2, <1>3, <2>2
<1>4. CASE k # 0
  <2>1. k \in Nat /\ k - 1 \in Nat /\ k - 1 \notin Bad
    BY <1>2, <1>4
  <2>2. PICK g : IsSearchBelow(g, k - 1)
    BY <2>1
  <2> DEFINE h == [s \in Below(k) |-> Turn(g, s)]
  <2>3. \A s \in Below(k) : h[s] = Turn(g, s)
    OBVIOUS
  <2>4. h = [s \in Below(k) |-> h[s]]
    OBVIOUS
  <2> HIDE DEF h
  <2>5. ASSUME NEW s \in Below(k)
        PROVE  h[s] \in Verdicts /\ h[s] = Turn(h, s)
    <3>1. s \in Places /\ Rank(s) \in Nat /\ Rank(s) < k
      BY RankType DEF Below
    <3>2. AgreeBelow(g, h, s)
      <4>1. ASSUME NEW t \in Places, Rank(t) < Rank(s)
            PROVE  g[t] \in Verdicts /\ g[t] = h[t]
        <5>1. Rank(t) \in Nat
          BY RankType
        <5>2. t \in Below(k - 1) /\ t \in Below(k)
          BY <2>1, <3>1, <4>1, <5>1 DEF Below
        <5>3. g[t] \in Verdicts /\ g[t] = Turn(g, t)
          BY <2>2, <5>2 DEF IsSearchBelow
        <5>4. QED BY <2>3, <5>2, <5>3
      <4>2. QED BY <4>1 DEF AgreeBelow
    <3>3. Turn(g, s) \in Verdicts /\ Turn(g, s) = Turn(h, s)
      BY <3>1, <3>2, TurnLocal
    <3>4. QED BY <2>3, <3>3
  <2>6. IsSearchBelow(h, k)
    BY <2>4, <2>5 DEF IsSearchBelow
  <2>7. QED BY <1>2, <2>6
<1>5. QED BY <1>3, <1>4

LEMMA SearchesAgree ==
    ASSUME Searchable,
           NEW m \in Nat, NEW f, IsSearchBelow(f, m),
           NEW n \in Nat, NEW g, IsSearchBelow(g, n)
    PROVE  \A s \in Places : s \in Below(m) /\ s \in Below(n) => f[s] = g[s]
<1> DEFINE Bad == {s \in Places : s \in Below(m) /\ s \in Below(n) /\ f[s] # g[s]}
           Ranks == {Rank(s) : s \in Bad}
<1>1. SUFFICES ASSUME Bad # {}
               PROVE  FALSE
  OBVIOUS
<1>2. PICK s \in Bad : \A t \in Bad : Rank(s) <= Rank(t)
  <2>1. Ranks \in SUBSET Nat /\ Ranks # {}
    BY <1>1, RankType
  <2>2. PICK k \in Ranks : \A j \in Ranks : k <= j
    BY <2>1, LeastNumber
  <2>3. QED BY <2>2
<1>3. f[s] = Turn(f, s) /\ g[s] = Turn(g, s)
  BY DEF IsSearchBelow
<1>4. ASSUME NEW t \in Places, Rank(t) < Rank(s)
      PROVE  f[t] \in Verdicts /\ f[t] = g[t]
  <2>1. Rank(t) \in Nat /\ Rank(s) \in Nat
    BY RankType
  <2>2. t \in Below(m) /\ t \in Below(n)
    BY <1>4, <2>1 DEF Below
  <2>3. t \notin Bad
    BY <1>2, <1>4, <2>1
  <2>4. f[t] \in Verdicts
    BY <2>2 DEF IsSearchBelow
  <2>5. QED BY <2>2, <2>3, <2>4
<1>5. AgreeBelow(f, g, s)
  BY <1>4 DEF AgreeBelow
<1>6. Turn(f, s) = Turn(g, s)
  BY <1>5, TurnLocal
<1>7. QED BY <1>3, <1>6

(* f is the recursion.                                                     *)
IsSearch(f) == \A s \in Places : f[s] = Turn(f, s)

(* The definition of Search is its equation.                               *)
LEMMA SearchEquation ==
    ASSUME Searchable
    PROVE  IsSearch(Search)
<1> DEFINE A(n) == CHOOSE f : IsSearchBelow(f, n)
           F == [s \in Places |-> A(Rank(s) + 1)[s]]
           D == CHOOSE d : d = [s \in Places |-> Turn(d, s)]
<1>1. \A n \in Nat : IsSearchBelow(A(n), n)
  BY SearchExistsBelow
<1>2. ASSUME NEW s \in Places
      PROVE  F[s] = Turn(F, s)
  <2>1. PICK k \in Nat : k = Rank(s) + 1
    BY RankType
  <2>2. s \in Below(k)
    BY <2>1, RankType DEF Below
  <2>3. IsSearchBelow(A(k), k)
    BY <1>1
  <2>4. F[s] = A(k)[s]
    BY <2>1
  <2> HIDE DEF A
  <2>5. ASSUME NEW t \in Places, Rank(t) < Rank(s)
        PROVE  A(k)[t] \in Verdicts /\ A(k)[t] = F[t]
    <3>1. t \in Below(k)
      BY <2>1, <2>5, RankType DEF Below
    <3>2. PICK j \in Nat : j = Rank(t) + 1
      BY RankType
    <3>3. t \in Below(j)
      BY <3>2, RankType DEF Below
    <3>4. IsSearchBelow(A(j), j)
      BY <1>1
    <3>5. F[t] = A(j)[t]
      BY <3>2
    <3> HIDE DEF F
    <3>6. A(k)[t] = A(j)[t]
      BY <2>3, <3>1, <3>3, <3>4, SearchesAgree
    <3>7. A(k)[t] \in Verdicts
      BY <2>3, <3>1 DEF IsSearchBelow
    <3>8. QED BY <3>5, <3>6, <3>7
  <2> HIDE DEF F
  <2>6. AgreeBelow(A(k), F, s)
    BY <2>5 DEF AgreeBelow
  <2>7. Turn(A(k), s) = Turn(F, s)
    BY <2>6, TurnLocal
  <2>8. A(k)[s] = Turn(A(k), s)
    BY <2>2, <2>3 DEF IsSearchBelow
  <2>9. QED BY <2>4, <2>7, <2>8
<1>3. \E d : d = [s \in Places |-> Turn(d, s)]
  <2>1. F = [s \in Places |-> F[s]]
    OBVIOUS
  <2> HIDE DEF F
  <2>2. F = [s \in Places |-> Turn(F, s)]
    BY <1>2, <2>1
  <2>3. QED BY <2>2
<1>4. Search = D
  BY Zenon DEF Search
<1>5. D = [s \in Places |-> Turn(D, s)]
  BY <1>3
<1>6. Search = [s \in Places |-> Turn(Search, s)]
  <2> HIDE DEF D
  <2>1. QED BY <1>4, <1>5
<1>7. QED BY <1>6 DEF IsSearch

-----------------------------------------------------------------------------
(* The stack is what the recursion has still to return to.                 *)

PathTo(frames, j) == [i \in 1 .. j |-> frames[i].key]

(* Where a search goes on once what it waits for is done; below the first  *)
(* frame it is that of the roots.                                          *)
CursorAt(frames, root, j) ==
    IF j # 0 THEN frames[j].next ELSE IF frames = <<>> THEN root ELSE root + 1

(* v lists what the searches come to that the frames stand for, the one of *)
(* the roots first: each is what comes of resuming it with the next one.   *)
Awaits(f, v, frames, root, order) ==
    /\ v[0] = f[Start]
    /\ \A j \in 0 .. Len(frames) - 1 :
          v[j] = Resume(f, PathTo(frames, j), CursorAt(frames, root, j), v[j + 1])
    /\ v[Len(frames)] =
          f[Place(PathTo(frames, Len(frames)), CursorAt(frames, root, Len(frames)), order)]

(* The recursion's answer is the one the traversal is heading for.         *)
RecursionKept ==
    \A f : IsSearch(f) =>
        /\ pc # "returned" => \E v : Awaits(f, v, stack, nextRoot, ordered)
        /\ pc = "returned" /\ result.code # "conflicting_axis" => result = f[Start]

LEMMA SearchStable ==
    ASSUME UNCHANGED request
    PROVE  \A f : IsSearch(f)' <=> IsSearch(f)
<1>1. roots' = roots /\ module' = module /\ activation' = activation
  BY DEF request
<1>2. /\ \A k : Resolvable(k)' <=> Resolvable(k)
      /\ \A k : Dependencies(k)' = Dependencies(k)
  BY ResolutionStable
<1>3. Places' = Places
  BY <1>2 DEF Places, Solvable
<1>4. \A k : (Ambiguous(k)' <=> Ambiguous(k)) /\ (Missing(k)' <=> Missing(k))
  BY <1>1 DEF Ambiguous, Missing, ActiveBindings, Active
<1>5. ASSUME NEW path
      PROVE  Needs(path)' = Needs(path)
  <2>1. Dependencies(path[Len(path)])' = Dependencies(path[Len(path)])
    BY <1>2
  <2>2. QED BY <1>1, <2>1 DEF Needs
<1>6. ASSUME NEW f, NEW k, NEW path, NEW order
      PROVE  Visit(f, k, path, order)' = Visit(f, k, path, order)
  BY <1>4 DEF Visit, Occurs, Verdict, Place
<1>7. ASSUME NEW f, NEW s
      PROVE  Turn(f, s)' = Turn(f, s)
  <2>1. Needs(s.path)' = Needs(s.path)
    BY <1>5
  <2>2. Left(s)' = Left(s)
    BY <2>1 DEF Left
  <2>3. \A p : Needs(s.path)[p]' = Needs(s.path)[p]
    BY <2>1
  <2> DEFINE p == First(Left(s))
  <2>4. p' = p
    BY <2>2 DEF First
  <2> HIDE DEF p
  <2>5. Visit(f, Needs(s.path)[p], s.path, s.order)' = Visit(f, Needs(s.path)[p], s.path, s.order)
    <3>1. PICK k : k = Needs(s.path)[p]
      OBVIOUS
    <3>2. Needs(s.path)'[p'] = k
      BY <2>1, <2>4, <3>1
    <3>3. Visit(f, k, s.path, s.order)' = Visit(f, k, s.path, s.order)
      BY <1>6
    <3>4. QED BY <3>1, <3>2, <3>3 DEF Visit, Occurs, Verdict, Place
  <2>6. QED BY <2>2, <2>4, <2>5 DEF Turn, p, Resume, Emitted, Verdict, Place
<1>8. QED BY <1>3, <1>7 DEF IsSearch

(* The turn that looks at p, when f is the recursion.                      *)
LEMMA TurnAt ==
    ASSUME NEW f, IsSearch(f), NEW s \in Places,
           Left(s) \subseteq Nat, NEW p \in Left(s), \A q \in Left(s) : p <= q
    PROVE  f[s] = Resume(f, s.path, p + 1, Visit(f, Needs(s.path)[p], s.path, s.order))
<1>1. f[s] = Turn(f, s)
  BY DEF IsSearch
<1>2. First(Left(s)) \in Left(s) /\ \A q \in Left(s) : First(Left(s)) <= q
  BY FirstLeft
<1>3. PICK m : m = First(Left(s))
  OBVIOUS
<1>4. m = p
  <2>1. m \in Nat /\ p \in Nat /\ m <= p /\ p <= m
    BY <1>2, <1>3
  <2>2. QED BY <2>1
<1>5. Left(s) # {}
  OBVIOUS
<1>6. QED BY <1>1, <1>3, <1>4, <1>5 DEF Turn

(* The roots from i on.                                                    *)
LEMMA RootPlace ==
    ASSUME RequestOK, NEW i \in Nat \ {0}, NEW order \in Seq(Keys)
    PROVE  LET s == Place(<<>>, i, order)
           IN  /\ s \in Places /\ s.path = <<>> /\ s.order = order
               /\ Needs(s.path) = roots
               /\ Left(s) = {p \in 1 .. Len(roots) : p >= i}
<1> DEFINE s == Place(<<>>, i, order)
<1>1. <<>> \in Seq(Solvable)
  OBVIOUS
<1>2. s \in Places /\ s.path = <<>> /\ s.next = i /\ s.order = order
  BY <1>1 DEF Place, Places
<1> HIDE DEF s
<1>3. DOMAIN roots = 1 .. Len(roots)
  BY DEF RequestOK
<1>4. QED BY <1>2, <1>3 DEF Needs, Left, s

LEMMA RootTurn ==
    ASSUME RequestOK, NEW f, IsSearch(f), NEW i \in 1 .. Len(roots), NEW order \in Seq(Keys)
    PROVE  f[Place(<<>>, i, order)] =
               Resume(f, <<>>, i + 1, Visit(f, roots[i], <<>>, order))
<1> DEFINE s == Place(<<>>, i, order)
<1>1. Len(roots) \in Nat /\ i \in Nat \ {0}
  BY DEF RequestOK
<1>2. /\ s \in Places /\ s.path = <<>> /\ s.order = order
      /\ Needs(s.path) = roots
      /\ Left(s) = {p \in 1 .. Len(roots) : p >= i}
  BY <1>1, RootPlace
<1> HIDE DEF s
<1>3. Left(s) \subseteq Nat /\ i \in Left(s) /\ \A q \in Left(s) : i <= q
  BY <1>1, <1>2
<1>4. f[s] = Resume(f, s.path, i + 1, Visit(f, Needs(s.path)[i], s.path, s.order))
  BY <1>2, <1>3, TurnAt
<1>5. QED BY <1>2, <1>4 DEF s

(* A root that is in the order is passed.                                  *)
LEMMA RootPassed ==
    ASSUME RequestOK, NEW f, IsSearch(f), NEW i \in 1 .. Len(roots),
           NEW order \in Seq(Keys), Occurs(roots[i], order)
    PROVE  f[Place(<<>>, i, order)] = f[Place(<<>>, i + 1, order)]
<1>1. ~Occurs(roots[i], <<>>)
  BY DEF Occurs
<1>2. Visit(f, roots[i], <<>>, order) = Verdict("plan", order)
  BY <1>1 DEF Visit
<1>3. f[Place(<<>>, i, order)] = Resume(f, <<>>, i + 1, Verdict("plan", order))
  BY <1>2, RootTurn
<1>4. QED BY <1>3 DEF Resume, Verdict

(* The stack's keys are a path of the recursion.                           *)
LEMMA StackPath ==
    ASSUME IInv
    PROVE  /\ PathTo(stack, Len(stack)) = StackKeys
           /\ StackKeys \in Seq(Solvable) /\ Len(StackKeys) = Len(stack)
           /\ \A k : Occurs(k, StackKeys) <=> \E i \in 1 .. Len(stack) : stack[i].key = k
<1>1. /\ StackKeys \in Seq(Keys) /\ Len(StackKeys) = Len(stack) /\ Len(stack) \in Nat
      /\ \A i \in 1 .. Len(stack) : StackKeys[i] = stack[i].key /\ stack[i].key \in Keys
  BY StackKeysType DEF IInv
<1>2. DOMAIN StackKeys = 1 .. Len(stack)
  BY DEF StackKeys
<1>3. \A i \in 1 .. Len(stack) : StackKeys[i] \in Solvable
  BY <1>1 DEF IInv, Traversed, StatesMatchStackAndOrder, SeenIsNeeded, Solvable
<1>4. StackKeys \in Seq(Solvable)
  <2>1. StackKeys = [i \in 1 .. Len(stack) |-> StackKeys[i]]
    BY DEF StackKeys
  <2>2. QED BY <1>1, <1>3, <2>1
<1>5. \A k : Occurs(k, StackKeys) <=> \E i \in 1 .. Len(stack) : stack[i].key = k
  BY <1>1, <1>2 DEF Occurs
<1>6. QED BY <1>1, <1>4, <1>5 DEF PathTo, StackKeys

(* Where the traversal stands, as a place of the recursion.                *)
Here == Place(StackKeys, CursorAt(stack, nextRoot, Len(stack)), ordered)

LEMMA HereAtRoot ==
    ASSUME IInv, stack = <<>>
    PROVE  Here = Place(<<>>, nextRoot, ordered) /\ StackKeys = <<>> /\ Len(stack) = 0
<1>1. Len(stack) = 0
  OBVIOUS
<1>2. StackKeys = <<>>
  <2>1. StackKeys \in Seq(Keys) /\ Len(StackKeys) = 0
    BY <1>1, StackKeysType DEF IInv
  <2>2. QED BY <2>1, EmptySeq
<1>3. QED BY <1>1, <1>2 DEF Here, CursorAt

LEMMA HereInLoop ==
    ASSUME IInv, InLoop
    PROVE  /\ Here \in Places
           /\ Here.path = StackKeys /\ Here.order = ordered
           /\ Needs(StackKeys) = Dependencies(Top.key)
           /\ StackKeys # <<>> /\ StackKeys[Len(StackKeys)] = Top.key
           /\ Left(Here) = Remaining
           /\ Remaining \subseteq Nat
<1>1. Len(stack) \in Nat \ {0} /\ Top.next \in Nat \ {0} /\ Top.key \in Keys
  BY TopFacts
<1>2. CursorAt(stack, nextRoot, Len(stack)) = Top.next
  BY <1>1 DEF CursorAt, Top
<1>3. StackKeys \in Seq(Solvable) /\ Len(StackKeys) = Len(stack)
  BY StackPath
<1>4. ordered \in Seq(Keys)
  BY DEF IInv, TypeOK
<1>5. /\ Here \in Places /\ Here.path = StackKeys /\ Here.next = Top.next
      /\ Here.order = ordered
  BY <1>1, <1>2, <1>3, <1>4, PlaceType DEF Here
<1>6. StackKeys # <<>>
  BY <1>1, <1>3
<1>7. StackKeys[Len(StackKeys)] = Top.key
  BY <1>1, <1>3, StackKeysType DEF IInv, Top
<1>8. Needs(StackKeys) = Dependencies(Top.key)
  BY <1>6, <1>7 DEF Needs
<1>9. Left(Here) = Remaining
  BY <1>5, <1>8 DEF Left, Remaining
<1>10. Remaining \subseteq Nat
  BY CursorFacts
<1>11. QED BY <1>5, <1>6, <1>7, <1>8, <1>9, <1>10

(* The key that the traversal looks at next, and its position.             *)
LooksAt(k, p) ==
    IF stack = <<>>
    THEN nextRoot <= Len(roots) /\ p = nextRoot /\ k = roots[nextRoot]
    ELSE p \in Remaining /\ IsCursor(p) /\ k = Dependencies(Top.key)[p]

LEMMA TurnHere ==
    ASSUME IInv, Traversing, NEW f, IsSearch(f), NEW k, NEW p, LooksAt(k, p)
    PROVE  /\ k \in Keys /\ p \in Nat \ {0}
           /\ f[Here] = Resume(f, StackKeys, p + 1, Visit(f, k, StackKeys, ordered))
<1>1. CASE stack = <<>>
  <2>1. p = nextRoot /\ k = roots[nextRoot] /\ nextRoot <= Len(roots)
    BY <1>1 DEF LooksAt
  <2>2. nextRoot \in 1 .. Len(roots) /\ RequestOK /\ ordered \in Seq(Keys) /\ Len(roots) \in Nat
    BY <2>1 DEF IInv, TypeOK, RequestOK
  <2>3. roots[nextRoot] \in Keys
    BY <2>2, RootIsReachable
  <2>4. f[Place(<<>>, nextRoot, ordered)] =
            Resume(f, <<>>, nextRoot + 1, Visit(f, roots[nextRoot], <<>>, ordered))
    BY <2>2, RootTurn
  <2>5. Here = Place(<<>>, nextRoot, ordered) /\ StackKeys = <<>>
    BY <1>1, HereAtRoot
  <2>6. QED BY <2>1, <2>2, <2>3, <2>4, <2>5
<1>2. CASE stack # <<>>
  <2>1. InLoop
    BY <1>2 DEF InLoop
  <2>2. p \in Remaining /\ IsCursor(p) /\ k = Dependencies(Top.key)[p]
    BY <1>2 DEF LooksAt
  <2>3. /\ Here \in Places /\ Here.path = StackKeys /\ Here.order = ordered
        /\ Needs(StackKeys) = Dependencies(Top.key)
        /\ Left(Here) = Remaining /\ Remaining \subseteq Nat
    BY <2>1, HereInLoop
  <2>4. p \in Left(Here) /\ \A q \in Left(Here) : p <= q
    BY <2>2, <2>3 DEF IsCursor
  <2>5. f[Here] = Resume(f, Here.path, p + 1, Visit(f, Needs(Here.path)[p], Here.path, Here.order))
    BY <2>3, <2>4, TurnAt
  <2>6. k \in Keys /\ p \in Nat \ {0}
    BY <2>1, <2>2, CursorFacts
  <2>7. QED BY <2>2, <2>3, <2>5, <2>6
<1>3. QED BY <1>1, <1>2

(* What the traversal does with a key is what its state says.              *)
LEMMA VisitByState ==
    ASSUME IInv, NEW f, NEW k \in Keys
    PROVE  /\ states[k] = "complete" => Visit(f, k, StackKeys, ordered) = Verdict("plan", ordered)
           /\ states[k] = "visiting" =>
                 Visit(f, k, StackKeys, ordered) = Verdict("cycle", CyclePath(k))
           /\ states[k] = "unseen" =>
                 Visit(f, k, StackKeys, ordered) =
                     IF Ambiguous(k) THEN Verdict("ambiguous_binding", Append(StackKeys, k))
                     ELSE IF Missing(k) THEN Verdict("missing_binding", Append(StackKeys, k))
                     ELSE f[Place(Append(StackKeys, k), 1, ordered)]
<1>1. Occurs(k, StackKeys) <=> states[k] = "visiting"
  BY StackPath DEF IInv, Traversed, StatesMatchStackAndOrder
<1>2. Occurs(k, ordered) <=> states[k] = "complete"
  <2>1. DOMAIN ordered = 1 .. Len(ordered)
    BY DEF IInv, TypeOK
  <2>2. QED BY <2>1 DEF IInv, Traversed, StatesMatchStackAndOrder, Occurs
<1>3. states[k] = "complete" => Visit(f, k, StackKeys, ordered) = Verdict("plan", ordered)
  BY <1>1, <1>2 DEF Visit
<1>4. ASSUME states[k] = "visiting"
      PROVE  Visit(f, k, StackKeys, ordered) = Verdict("cycle", CyclePath(k))
  <2> DEFINE first == CHOOSE i \in DOMAIN StackKeys : StackKeys[i] = k
             frame == CHOOSE i \in 1 .. Len(stack) : stack[i].key = k
  <2>1. first \in DOMAIN StackKeys /\ StackKeys[first] = k
    BY <1>1, <1>4 DEF Occurs
  <2>2. frame \in 1 .. Len(stack) /\ stack[frame].key = k
    BY <1>4 DEF IInv, Traversed, StatesMatchStackAndOrder
  <2>3. DOMAIN StackKeys = 1 .. Len(stack) /\ \A i \in 1 .. Len(stack) : StackKeys[i] = stack[i].key
    BY DEF StackKeys
  <2> HIDE DEF first, frame
  <2>4. first = frame
    BY <2>1, <2>2, <2>3 DEF IInv, Traversed, StatesMatchStackAndOrder
  <2>5. Visit(f, k, StackKeys, ordered) =
            Verdict("cycle", Append(SubSeq(StackKeys, first, Len(StackKeys)), k))
    BY <1>1, <1>4 DEF Visit, first
  <2>6. CyclePath(k) = Append(SubSeq(StackKeys, frame, Len(stack)), k)
    BY DEF CyclePath, frame
  <2>7. QED BY <2>4, <2>5, <2>6, StackPath
<1>5. states[k] = "unseen" =>
          Visit(f, k, StackKeys, ordered) =
              IF Ambiguous(k) THEN Verdict("ambiguous_binding", Append(StackKeys, k))
              ELSE IF Missing(k) THEN Verdict("missing_binding", Append(StackKeys, k))
              ELSE f[Place(Append(StackKeys, k), 1, ordered)]
  BY <1>1, <1>2 DEF Visit
<1>6. QED BY <1>3, <1>4, <1>5

(* An error of the innermost search is the answer.                         *)
LEMMA ErrorEnds ==
    ASSUME NEW f, NEW v, NEW frames, NEW root, NEW order, Len(frames) \in Nat,
           Awaits(f, v, frames, root, order), v[Len(frames)].code # "plan"
    PROVE  f[Start] = v[Len(frames)]
<1> DEFINE n == Len(frames)
           e == v[n]
           Same == {j \in 0 .. n : v[j] = e}
<1>1. n \in Same /\ Same \in SUBSET Nat
  OBVIOUS
<1>2. PICK j \in Same : \A i \in Same : j <= i
  BY <1>1, LeastNumber
<1>3. CASE j = 0
  BY <1>3 DEF Awaits
<1>4. CASE j # 0
  <2>1. j - 1 \in 0 .. n - 1 /\ (j - 1) + 1 = j /\ v[j] = e
    BY <1>4
  <2>2. v[j - 1] = Resume(f, PathTo(frames, j - 1), CursorAt(frames, root, j - 1), v[j])
    BY <2>1 DEF Awaits
  <2>3. v[j - 1] = e
    BY <2>1, <2>2 DEF Resume
  <2>4. QED BY <1>2, <2>1, <2>3
<1>5. QED BY <1>3, <1>4

LEMMA AwaitsHere ==
    ASSUME IInv, NEW f, NEW v
    PROVE  Awaits(f, v, stack, nextRoot, ordered) => v[Len(stack)] = f[Here]
BY StackPath DEF Awaits, Here

(* A call that returns the error that comes of the key it looks at.        *)
LEMMA ErrorAnswersAsRecursion ==
    ASSUME IInv, Traversing, NEW f, IsSearch(f),
           NEW v, Awaits(f, v, stack, nextRoot, ordered),
           NEW k, NEW p, LooksAt(k, p), NEW code \in ErrorCodes, NEW path,
           Visit(f, k, StackKeys, ordered) = Verdict(code, path), Return(code, path)
    PROVE  result' = f[Start]
<1>1. code # "plan" /\ Verdict(code, path).code = code
  BY DEF ErrorCodes, Verdict
<1>2. f[Here] = Verdict(code, path)
  <2>1. f[Here] = Resume(f, StackKeys, p + 1, Verdict(code, path))
    BY TurnHere
  <2>2. QED BY <1>1, <2>1 DEF Resume
<1>3. Len(stack) \in Nat
  BY DEF IInv, TypeOK
<1>4. f[Start] = f[Here]
  BY <1>1, <1>2, <1>3, AwaitsHere, ErrorEnds
<1>5. QED BY <1>2, <1>4 DEF Return, Verdict

LEMMA FailPushAnswersAsRecursion ==
    ASSUME IInv, Traversing, NEW f, IsSearch(f),
           NEW v, Awaits(f, v, stack, nextRoot, ordered),
           NEW k, NEW p, LooksAt(k, p), states[k] = "unseen", FailPush(k)
    PROVE  result' = f[Start]
<1>1. k \in Keys
  BY TurnHere
<1>2. CASE Ambiguous(k) /\ Return("ambiguous_binding", Append(StackKeys, k))
  <2>1. Visit(f, k, StackKeys, ordered) = Verdict("ambiguous_binding", Append(StackKeys, k))
    BY <1>1, <1>2, VisitByState
  <2>2. QED BY <1>2, <2>1, ErrorAnswersAsRecursion DEF ErrorCodes
<1>3. CASE Missing(k) /\ Return("missing_binding", Append(StackKeys, k))
  <2>1. ~Ambiguous(k)
    BY <1>3 DEF Missing, Ambiguous
  <2>2. Visit(f, k, StackKeys, ordered) = Verdict("missing_binding", Append(StackKeys, k))
    BY <1>1, <1>3, <2>1, VisitByState
  <2>3. QED BY <1>3, <2>2, ErrorAnswersAsRecursion DEF ErrorCodes
<1>4. QED BY <1>2, <1>3 DEF FailPush

(* A key passed over because it is complete.                               *)
LEMMA CompletePassed ==
    ASSUME IInv, Traversing, NEW f, IsSearch(f),
           NEW k, NEW p, LooksAt(k, p), states[k] = "complete"
    PROVE  f[Here] = f[Place(StackKeys, p + 1, ordered)]
<1>1. Visit(f, k, StackKeys, ordered) = Verdict("plan", ordered)
  BY TurnHere, VisitByState
<1>2. f[Here] = Resume(f, StackKeys, p + 1, Verdict("plan", ordered))
  BY <1>1, TurnHere
<1>3. QED BY <1>2 DEF Resume, Verdict

LEMMA NextRootAwaits ==
    ASSUME IInv, NextRoot, NEW f, IsSearch(f),
           NEW v, Awaits(f, v, stack, nextRoot, ordered)
    PROVE  Awaits(f, v, stack', nextRoot', ordered')
<1>1. /\ Traversing /\ stack = <<>> /\ nextRoot <= Len(roots)
      /\ nextRoot' = nextRoot + 1 /\ stack' = stack /\ ordered' = ordered
      /\ states[roots[nextRoot]] # "unseen"
  BY DEF NextRoot, AtRoot
<1>2. nextRoot \in 1 .. Len(roots) /\ Len(roots) \in Nat
  BY <1>1 DEF IInv, TypeOK, RequestOK
<1>3. states[roots[nextRoot]] = "complete"
  <2>1. roots[nextRoot] \in Keys
    BY <1>2, RootIsReachable DEF IInv, TypeOK
  <2>2. states[roots[nextRoot]] # "visiting"
    BY <1>1, <2>1 DEF IInv, Traversed, StatesMatchStackAndOrder
  <2>3. QED BY <1>1, <2>1, <2>2 DEF IInv, TypeOK
<1>4. LooksAt(roots[nextRoot], nextRoot)
  BY <1>1 DEF LooksAt
<1>5. f[Here] = f[Place(StackKeys, nextRoot + 1, ordered)]
  BY <1>1, <1>3, <1>4, CompletePassed
<1>6. Len(stack) = 0 /\ PathTo(stack, 0) = StackKeys
  BY <1>1, HereAtRoot, StackPath
<1>7. v[0] = f[Place(PathTo(stack, 0), nextRoot + 1, ordered)]
  BY <1>5, <1>6, AwaitsHere
<1>8. QED BY <1>1, <1>6, <1>7 DEF Awaits, CursorAt

LEMMA SkipCompleteAwaits ==
    ASSUME IInv, SkipComplete, NEW f, IsSearch(f),
           NEW v, Awaits(f, v, stack, nextRoot, ordered)
    PROVE  Awaits(f, v, stack', nextRoot', ordered')
<1>1. PICK p \in Remaining :
          /\ IsCursor(p)
          /\ states[Dependencies(Top.key)[p]] = "complete"
          /\ stack' = Advanced(p)
  BY DEF SkipComplete
<1>2. InLoop /\ Traversing /\ stack # <<>> /\ UNCHANGED <<nextRoot, ordered>>
  BY DEF SkipComplete, InLoop
<1> DEFINE n == Len(stack)
<1>3. /\ Len(stack') = n /\ n \in Nat \ {0}
      /\ \A i \in 1 .. n - 1 : stack'[i] = stack[i]
      /\ stack'[n].next = p + 1
      /\ \A i \in 1 .. n : stack'[i].key = stack[i].key
  BY <1>1, <1>2, AdvancedFacts, TopFacts
<1>4. LooksAt(Dependencies(Top.key)[p], p)
  BY <1>1, <1>2 DEF LooksAt
<1>5. f[Here] = f[Place(StackKeys, p + 1, ordered)]
  BY <1>1, <1>2, <1>4, CompletePassed
<1>6. stack' # <<>>
  BY <1>3
<1>7. PathTo(stack, n) = StackKeys /\ v[n] = f[Here]
  BY StackPath, AwaitsHere
<1> HIDE DEF n
<1>8. ASSUME NEW j \in 0 .. n
      PROVE  PathTo(stack', j) = PathTo(stack, j)
  BY <1>3 DEF PathTo
<1>9. ASSUME NEW j \in 0 .. n - 1
      PROVE  v[j] = Resume(f, PathTo(stack', j), CursorAt(stack', nextRoot', j), v[j + 1])
  <2>1. CursorAt(stack', nextRoot', j) = CursorAt(stack, nextRoot, j)
    BY <1>2, <1>3, <1>6 DEF CursorAt
  <2>2. PathTo(stack', j) = PathTo(stack, j)
    BY <1>3, <1>8
  <2>3. v[j] = Resume(f, PathTo(stack, j), CursorAt(stack, nextRoot, j), v[j + 1])
    BY DEF Awaits, n
  <2>4. QED BY <2>1, <2>2, <2>3
<1>10. v[n] = f[Place(PathTo(stack', n), CursorAt(stack', nextRoot', n), ordered')]
  <2>1. CursorAt(stack', nextRoot', n) = p + 1
    BY <1>3 DEF CursorAt
  <2>2. PathTo(stack', n) = StackKeys
    BY <1>3, <1>7, <1>8
  <2>3. QED BY <1>2, <1>5, <1>7, <2>1, <2>2
<1>11. v[0] = f[Start]
  BY DEF Awaits
<1>12. QED BY <1>3, <1>9, <1>10, <1>11 DEF Awaits

(* A frame opened for a key: what its search comes to is one more verdict. *)
LEMMA PushAwaits ==
    ASSUME IInv, Traversing, NEW f, IsSearch(f),
           NEW v, Awaits(f, v, stack, nextRoot, ordered),
           NEW k, NEW p, LooksAt(k, p), states[k] = "unseen",
           NEW frames, OpenedFor(k, frames), stack # <<>> => frames[Len(stack)].next = p + 1,
           Push(k, frames)
    PROVE  \E w : Awaits(f, w, stack', nextRoot', ordered')
<1> DEFINE n == Len(stack)
           opened == f[Place(Append(StackKeys, k), 1, ordered)]
           w == [j \in 0 .. n + 1 |-> IF j = n + 1 THEN opened ELSE v[j]]
<1>1. /\ nextRoot' = nextRoot /\ ordered' = ordered /\ Resolvable(k)
      /\ stack' = Append(frames, [key |-> k, next |-> 1])
  BY DEF Push
<1>2. k \in Keys /\ n \in Nat /\ p \in Nat
  BY TurnHere DEF IInv, TypeOK
<1>3. /\ Len(stack') = n + 1
      /\ \A i \in 1 .. n : stack'[i] = frames[i] /\ stack'[i].key = stack[i].key
      /\ \A i \in 1 .. n - 1 : stack'[i] = stack[i]
      /\ stack'[n + 1].key = k /\ stack'[n + 1].next = 1
  <2>1. [key |-> k, next |-> 1] \in Frames
    BY <1>2 DEF Frames
  <2>2. /\ Len(stack') = n + 1
        /\ \A i \in 1 .. n : stack'[i] = frames[i]
        /\ stack'[n + 1] = [key |-> k, next |-> 1]
    BY <1>1, <1>2, <2>1 DEF OpenedFor
  <2>3. QED BY <1>2, <2>2 DEF OpenedFor
<1>4. stack' # <<>>
  BY <1>2, <1>3
<1>5. PathTo(stack, n) = StackKeys /\ v[n] = f[Here]
  BY StackPath, AwaitsHere
<1>6. f[Here] = Resume(f, StackKeys, p + 1, opened)
  <2>1. Visit(f, k, StackKeys, ordered) = opened
    BY <1>1, <1>2, VisitByState DEF Resolvable
  <2> HIDE DEF opened
  <2>2. QED BY <2>1, TurnHere
<1>7. w[n + 1] = opened /\ \A j \in 0 .. n : w[j] = v[j]
  BY <1>2
<1> HIDE DEF n, w, opened
<1>8. ASSUME NEW j \in 0 .. n
      PROVE  PathTo(stack', j) = PathTo(stack, j)
  BY <1>2, <1>3 DEF PathTo
<1>9. PathTo(stack', n + 1) = Append(StackKeys, k)
  <2>1. StackKeys \in Seq(Keys) /\ Len(StackKeys) = n
        /\ \A i \in 1 .. n : StackKeys[i] = stack[i].key
    BY StackKeysType DEF n, IInv
  <2> DEFINE a == Append(StackKeys, k)
  <2>2. /\ a \in Seq(Keys) /\ Len(a) = n + 1
        /\ \A i \in 1 .. n : a[i] = StackKeys[i]
        /\ a[n + 1] = k
    BY <1>2, <2>1, AppendProperties
  <2> HIDE DEF a
  <2>3. a = [i \in 1 .. n + 1 |-> a[i]]
    BY <2>2
  <2>4. \A i \in 1 .. n + 1 : a[i] = stack'[i].key
    BY <1>2, <1>3, <2>1, <2>2
  <2>5. a = PathTo(stack', n + 1)
    BY <2>3, <2>4 DEF PathTo
  <2>6. QED BY <2>5 DEF a
<1>10. ASSUME NEW j \in 0 .. n - 1
       PROVE  w[j] = Resume(f, PathTo(stack', j), CursorAt(stack', nextRoot', j), w[j + 1])
  <2>1. CursorAt(stack', nextRoot', j) = CursorAt(stack, nextRoot, j)
    <3>1. stack # <<>>
      BY <1>2 DEF n
    <3>2. QED BY <1>1, <1>2, <1>3, <1>4, <3>1 DEF CursorAt
  <2>2. PathTo(stack', j) = PathTo(stack, j)
    BY <1>2, <1>8
  <2>3. v[j] = Resume(f, PathTo(stack, j), CursorAt(stack, nextRoot, j), v[j + 1])
    BY DEF Awaits, n
  <2>4. w[j] = v[j] /\ w[j + 1] = v[j + 1]
    BY <1>2, <1>7
  <2>5. QED BY <2>1, <2>2, <2>3, <2>4
<1>11. w[n] = Resume(f, PathTo(stack', n), CursorAt(stack', nextRoot', n), w[n + 1])
  <2>1. CursorAt(stack', nextRoot', n) = p + 1
    <3>1. CASE stack = <<>>
      BY <1>1, <1>4, <3>1 DEF CursorAt, LooksAt, n
    <3>2. CASE stack # <<>>
      <4>1. n # 0
        BY <3>2, EmptySeq DEF n, IInv, TypeOK
      <4>2. stack'[n] = frames[n]
        BY <1>2, <1>3, <4>1
      <4>3. QED BY <3>2, <4>1, <4>2 DEF CursorAt, n
    <3>3. QED BY <3>1, <3>2
  <2>2. PathTo(stack', n) = StackKeys
    BY <1>2, <1>5, <1>8
  <2>3. w[n] = v[n]
    BY <1>2, <1>7
  <2>4. QED BY <1>5, <1>6, <1>7, <2>1, <2>2, <2>3
<1>12. w[n + 1] = f[Place(PathTo(stack', n + 1), CursorAt(stack', nextRoot', n + 1), ordered')]
  <2>1. CursorAt(stack', nextRoot', n + 1) = 1
    BY <1>2, <1>3 DEF CursorAt
  <2>2. QED BY <1>1, <1>7, <1>9, <2>1 DEF opened
<1>13. w[0] = f[Start]
  <2>1. w[0] = v[0]
    BY <1>2, <1>7
  <2>2. QED BY <2>1 DEF Awaits
<1>14. \A j \in 0 .. Len(stack') - 1 :
          w[j] = Resume(f, PathTo(stack', j), CursorAt(stack', nextRoot', j), w[j + 1])
  BY <1>2, <1>3, <1>10, <1>11
<1>15. Awaits(f, w, stack', nextRoot', ordered')
  BY <1>3, <1>12, <1>13, <1>14 DEF Awaits
<1>16. QED BY <1>15

(* What the top frame's search comes to goes to the one below it.          *)
LEMMA CompleteAwaits ==
    ASSUME IInv, Complete, NEW f, IsSearch(f),
           NEW v, Awaits(f, v, stack, nextRoot, ordered)
    PROVE  Awaits(f, v, stack', nextRoot', ordered')
<1> DEFINE n == Len(stack)
<1>1. /\ InLoop /\ stack # <<>> /\ Remaining = {} /\ nextRoot' = nextRoot
      /\ ordered' = Append(ordered, Top.key)
      /\ stack' = SubSeq(stack, 1, n - 1)
  BY DEF Complete, InLoop
<1>2. n \in Nat \ {0} /\ Top.key \in Keys /\ ordered \in Seq(Keys) /\ RequestOK
      /\ stack \in Seq(Frames)
  BY <1>1, TopFacts DEF IInv, TypeOK
<1>3. /\ Len(stack') = n - 1
      /\ \A i \in 1 .. n - 1 : stack'[i] = stack[i]
  BY <1>1, <1>2, FrontFrames
<1>4. PathTo(stack, n) = StackKeys /\ v[n] = f[Here]
  BY StackPath, AwaitsHere
<1>5. f[Here] = Verdict("plan", ordered')
  <2>1. /\ Here \in Places /\ Here.path = StackKeys /\ Here.order = ordered
        /\ StackKeys # <<>> /\ StackKeys[Len(StackKeys)] = Top.key
        /\ Left(Here) = Remaining
    BY <1>1, HereInLoop
  <2>2. f[Here] = Emitted(StackKeys, ordered)
    BY <1>1, <2>1 DEF IsSearch, Turn
  <2>3. QED BY <1>1, <2>1, <2>2 DEF Emitted
<1>6. v[n - 1] = f[Place(PathTo(stack, n - 1), CursorAt(stack, nextRoot, n - 1), ordered')]
  <2>1. n - 1 \in 0 .. n - 1 /\ (n - 1) + 1 = n
    BY <1>2
  <2>2. v[n - 1] = Resume(f, PathTo(stack, n - 1), CursorAt(stack, nextRoot, n - 1), v[n])
    BY <2>1 DEF Awaits
  <2>3. QED BY <1>4, <1>5, <2>2 DEF Resume, Verdict
<1> HIDE DEF n
<1>7. ASSUME NEW j \in 0 .. n - 1
      PROVE  PathTo(stack', j) = PathTo(stack, j)
  BY <1>2, <1>3 DEF PathTo
<1>8. ASSUME NEW j \in 0 .. n - 2
      PROVE  v[j] = Resume(f, PathTo(stack', j), CursorAt(stack', nextRoot', j), v[j + 1])
  <2>1. stack' # <<>>
    BY <1>2, <1>3
  <2>2. CursorAt(stack', nextRoot', j) = CursorAt(stack, nextRoot, j)
    BY <1>1, <1>2, <1>3, <2>1 DEF CursorAt
  <2>3. PathTo(stack', j) = PathTo(stack, j)
    BY <1>2, <1>7
  <2>4. v[j] = Resume(f, PathTo(stack, j), CursorAt(stack, nextRoot, j), v[j + 1])
    BY <1>2 DEF Awaits, n
  <2>5. QED BY <2>2, <2>3, <2>4
<1>9. v[n - 1] = f[Place(PathTo(stack', n - 1), CursorAt(stack', nextRoot', n - 1), ordered')]
  <2>1. PathTo(stack', n - 1) = PathTo(stack, n - 1)
    BY <1>2, <1>7
  <2>2. CASE n # 1
    <3>1. CursorAt(stack', nextRoot', n - 1) = CursorAt(stack, nextRoot, n - 1)
      BY <1>2, <1>3, <2>2 DEF CursorAt
    <3>2. QED BY <1>6, <2>1, <3>1
  <2>3. CASE n = 1
    <3>1. stack' = <<>>
      <4>1. stack' \in Seq(Frames) /\ Len(stack') = 0
        BY <1>1, <1>2, <1>3, <2>3, FrontFrames DEF n
      <4>2. QED BY <4>1, EmptySeq
    <3>2. CursorAt(stack', nextRoot', n - 1) = nextRoot
      BY <1>1, <2>3, <3>1 DEF CursorAt
    <3>3. CursorAt(stack, nextRoot, n - 1) = nextRoot + 1
      BY <1>1, <2>3 DEF CursorAt
    <3>4. PathTo(stack, n - 1) = <<>>
      BY <2>3 DEF PathTo
    <3>5. nextRoot \in 1 .. Len(roots) /\ roots[nextRoot] = Top.key
      <4>1. nextRoot <= Len(roots) /\ stack[1].key = roots[nextRoot]
        BY <1>1 DEF IInv, Traversed, StackIsDependencyPath
      <4>2. nextRoot \in Nat \ {0} /\ Len(roots) \in Nat
        BY DEF IInv, TypeOK, RequestOK
      <4>3. QED BY <2>3, <4>1, <4>2 DEF Top, n
    <3>6. ordered' \in Seq(Keys) /\ Occurs(roots[nextRoot], ordered')
      <4>1. /\ ordered' \in Seq(Keys) /\ Len(ordered') = Len(ordered) + 1
            /\ ordered'[Len(ordered) + 1] = Top.key
        BY <1>1, <1>2, AppendProperties
      <4>2. Len(ordered) + 1 \in DOMAIN ordered'
        BY <1>2, <4>1
      <4>3. QED BY <3>5, <4>1, <4>2 DEF Occurs
    <3>7. PICK o : o = ordered'
      OBVIOUS
    <3>8. f[Place(<<>>, nextRoot, o)] = f[Place(<<>>, nextRoot + 1, o)]
      BY <1>2, <3>5, <3>6, <3>7, RootPassed
    <3>9. QED BY <1>6, <2>1, <3>2, <3>3, <3>4, <3>7, <3>8
  <2>4. QED BY <2>2, <2>3
<1>10. v[0] = f[Start]
  BY DEF Awaits
<1>11. n - 1 - 1 = n - 2
  BY <1>2
<1>12. QED BY <1>3, <1>8, <1>9, <1>10, <1>11 DEF Awaits

LEMMA StepAwaits ==
    ASSUME IInv, NEW f, IsSearch(f), pc # "returned",
           NEW v, Awaits(f, v, stack, nextRoot, ordered),
           Next
    PROVE  /\ pc' # "returned" => \E w : Awaits(f, w, stack', nextRoot', ordered')
           /\ pc' = "returned" /\ result'.code # "conflicting_axis" => result' = f[Start]
<1>1. CASE CheckActivation \/ CheckBindings \/ CheckContributions
  <2>1. UNCHANGED traversal
    BY <1>1 DEF CheckActivation, CheckBindings, CheckContributions, Goto, Return
  <2>2. stack' = stack /\ nextRoot' = nextRoot /\ ordered' = ordered
    BY <2>1 DEF traversal
  <2>3. pc' = "returned" => result'.code = "conflicting_axis"
    BY <1>1 DEF CheckActivation, CheckBindings, CheckContributions, Goto, Return
  <2>4. QED BY <2>2, <2>3
<1>2. CASE NextRoot
  <2>1. Awaits(f, v, stack', nextRoot', ordered')
    BY <1>2, NextRootAwaits
  <2>2. pc' # "returned"
    BY <1>2 DEF NextRoot
  <2>3. QED BY <2>1, <2>2
<1>3. CASE StartRoot
  <2>1. /\ Traversing /\ stack = <<>> /\ nextRoot <= Len(roots)
        /\ states[roots[nextRoot]] = "unseen"
    BY <1>3 DEF StartRoot, AtRoot
  <2>2. LooksAt(roots[nextRoot], nextRoot)
    BY <2>1 DEF LooksAt
  <2>3. CASE Push(roots[nextRoot], stack)
    <3>1. OpenedFor(roots[nextRoot], stack)
      BY <2>1 DEF OpenedFor, IInv, TypeOK
    <3>2. \E w : Awaits(f, w, stack', nextRoot', ordered')
      BY <2>1, <2>2, <2>3, <3>1, PushAwaits
    <3>3. pc' # "returned"
      BY <2>3 DEF Push
    <3>4. QED BY <3>2, <3>3
  <2>4. CASE FailPush(roots[nextRoot])
    <3>1. result' = f[Start]
      BY <2>1, <2>2, <2>4, FailPushAnswersAsRecursion
    <3>2. pc' = "returned"
      BY <2>4 DEF FailPush, Return
    <3>3. QED BY <3>1, <3>2
  <2>5. QED BY <1>3, <2>3, <2>4 DEF StartRoot
<1>4. CASE Complete
  <2>1. Awaits(f, v, stack', nextRoot', ordered')
    BY <1>4, CompleteAwaits
  <2>2. pc' # "returned"
    BY <1>4 DEF Complete
  <2>3. QED BY <2>1, <2>2
<1>5. CASE SkipComplete
  <2>1. Awaits(f, v, stack', nextRoot', ordered')
    BY <1>5, SkipCompleteAwaits
  <2>2. pc' # "returned"
    BY <1>5 DEF SkipComplete
  <2>3. QED BY <2>1, <2>2
<1>6. CASE Descend
  <2>1. InLoop /\ Traversing /\ stack # <<>>
    BY <1>6 DEF Descend, InLoop
  <2>2. PICK p \in Remaining :
            /\ IsCursor(p)
            /\ states[Dependencies(Top.key)[p]] = "unseen"
            /\ \/ Push(Dependencies(Top.key)[p], Advanced(p))
               \/ FailPush(Dependencies(Top.key)[p])
    BY <1>6 DEF Descend
  <2> DEFINE k == Dependencies(Top.key)[p]
  <2>3. LooksAt(k, p) /\ states[k] = "unseen"
    BY <2>1, <2>2 DEF LooksAt
  <2>4. CASE Push(k, Advanced(p))
    <3>1. OpenedFor(k, Advanced(p))
      BY <2>1, <2>2, CursorOpens
    <3>2. Advanced(p)[Len(stack)].next = p + 1
      BY <2>1, AdvancedFacts
    <3> HIDE DEF k
    <3>3. \E w : Awaits(f, w, stack', nextRoot', ordered')
      BY <2>1, <2>3, <2>4, <3>1, <3>2, PushAwaits
    <3>4. pc' # "returned"
      BY <2>4 DEF Push
    <3>5. QED BY <3>3, <3>4
  <2>5. CASE FailPush(k)
    <3> HIDE DEF k
    <3>1. result' = f[Start]
      BY <2>1, <2>3, <2>5, FailPushAnswersAsRecursion
    <3>2. pc' = "returned"
      BY <2>5 DEF FailPush, Return
    <3>3. QED BY <3>1, <3>2
  <2>6. QED BY <2>2, <2>4, <2>5
<1>7. CASE ReportCycle
  <2>1. InLoop /\ Traversing /\ stack # <<>>
    BY <1>7 DEF ReportCycle, InLoop
  <2>2. PICK p \in Remaining :
            /\ IsCursor(p)
            /\ states[Dependencies(Top.key)[p]] = "visiting"
            /\ Return("cycle", CyclePath(Dependencies(Top.key)[p]))
    BY <1>7 DEF ReportCycle
  <2>3. PICK k : k = Dependencies(Top.key)[p]
    OBVIOUS
  <2>4. LooksAt(k, p) /\ k \in Keys
    BY <2>1, <2>2, <2>3, CursorFacts DEF LooksAt
  <2>5. Visit(f, k, StackKeys, ordered) = Verdict("cycle", CyclePath(k))
    BY <2>2, <2>3, <2>4, VisitByState
  <2>6. Return("cycle", CyclePath(k))
    BY <2>2, <2>3
  <2>7. result' = f[Start]
    BY <2>1, <2>4, <2>5, <2>6, ErrorAnswersAsRecursion DEF ErrorCodes
  <2>8. pc' = "returned"
    BY <2>6 DEF Return
  <2>9. QED BY <2>7, <2>8
<1>8. CASE Finish
  <2>1. stack = <<>> /\ nextRoot > Len(roots) /\ Return("plan", ordered)
    BY <1>8 DEF Finish
  <2>2. RequestOK /\ nextRoot \in Nat \ {0} /\ ordered \in Seq(Keys) /\ Len(roots) \in Nat
    BY DEF IInv, TypeOK, RequestOK
  <2>3. Here = Place(<<>>, nextRoot, ordered) /\ Len(stack) = 0
    BY <2>1, HereAtRoot
  <2>4. /\ Here \in Places /\ Here.path = <<>> /\ Here.order = ordered
        /\ Left(Here) = {p \in 1 .. Len(roots) : p >= nextRoot}
    BY <2>2, <2>3, RootPlace
  <2>5. Left(Here) = {}
    BY <2>1, <2>2, <2>4
  <2>6. f[Here] = Emitted(<<>>, ordered)
    BY <2>4, <2>5 DEF IsSearch, Turn
  <2>7. f[Here] = Verdict("plan", ordered)
    BY <2>6 DEF Emitted
  <2>8. f[Here] = f[Start]
    BY <2>3, AwaitsHere DEF Awaits
  <2>9. QED BY <2>1, <2>7, <2>8 DEF Return, Verdict
<1>9. QED BY <1>1, <1>2, <1>3, <1>4, <1>5, <1>6, <1>7, <1>8 DEF Next

LEMMA RequestKept == [Next]_vars => UNCHANGED request
BY DEF Next, vars, CheckActivation, CheckBindings, CheckContributions, NextRoot,
       StartRoot, Complete, SkipComplete, Descend, ReportCycle, Finish, Push, FailPush,
       Return, Goto

LEMMA NextRecursionKept ==
    IInv /\ RecursionKept /\ [Next]_vars => RecursionKept'
<1> SUFFICES ASSUME IInv, RecursionKept, [Next]_vars
             PROVE  RecursionKept'
  OBVIOUS
<1>1. UNCHANGED request
  BY RequestKept
<1>2. ASSUME NEW f, IsSearch(f)
      PROVE  /\ pc' # "returned" => \E w : Awaits(f, w, stack', nextRoot', ordered')
             /\ pc' = "returned" /\ result'.code # "conflicting_axis" => result' = f[Start]
  <2>1. /\ pc # "returned" => \E v : Awaits(f, v, stack, nextRoot, ordered)
        /\ pc = "returned" /\ result.code # "conflicting_axis" => result = f[Start]
    BY <1>2 DEF RecursionKept
  <2>2. CASE pc # "returned" /\ Next
    <3>1. PICK v : Awaits(f, v, stack, nextRoot, ordered)
      BY <2>1, <2>2
    <3>2. QED BY <1>2, <2>2, <3>1, StepAwaits
  <2>3. CASE pc = "returned" /\ Next
    BY <2>3 DEF Next, CheckActivation, CheckBindings, CheckContributions, NextRoot, AtRoot,
                StartRoot, Complete, SkipComplete, Descend, ReportCycle, Finish, InLoop,
                Traversing
  <2>4. CASE UNCHANGED vars
    <3>1. UNCHANGED <<pc, nextRoot, stack, ordered, result>>
      BY <2>4 DEF vars, traversal
    <3>2. QED BY <2>1, <3>1
  <2>5. QED BY <2>2, <2>3, <2>4
<1>3. \A f : IsSearch(f)' <=> IsSearch(f)
  BY <1>1, SearchStable
<1>4. QED BY <1>2, <1>3 DEF RecursionKept, Awaits, Start, Place, Resume, CursorAt, PathTo

LEMMA InitRecursionKept == Init => RecursionKept /\ Searchable
<1> SUFFICES ASSUME Init PROVE RecursionKept /\ Searchable
  OBVIOUS
<1>1. pc = "activation" /\ stack = <<>> /\ nextRoot = 1 /\ ordered = <<>>
  BY DEF Init
<1>2. ASSUME NEW f
      PROVE  \E v : Awaits(f, v, <<>>, 1, <<>>)
  <2> DEFINE v == [j \in {0} |-> f[Start]]
  <2>1. v[0] = f[Start]
    OBVIOUS
  <2> HIDE DEF v
  <2>2. PathTo(<<>>, 0) = <<>>
    BY DEF PathTo
  <2>3. CursorAt(<<>>, 1, 0) = 1 /\ Len(<<>>) = 0 /\ 0 .. 0 - 1 = {}
    BY DEF CursorAt
  <2>4. Awaits(f, v, <<>>, 1, <<>>)
    BY <2>1, <2>2, <2>3 DEF Awaits, Start
  <2>5. QED BY <2>4
<1>3. RecursionKept
  <2>1. \A f : \E v : Awaits(f, v, stack, nextRoot, ordered)
    BY <1>1, <1>2
  <2>2. pc # "returned"
    BY <1>1
  <2>3. QED BY <2>1, <2>2 DEF RecursionKept
<1>4. Searchable
  BY RequestInitOK, SetsAssumption DEF Init, RequestInit, Searchable
<1>5. QED BY <1>3, <1>4

LEMMA SearchableStable ==
    ASSUME Searchable, UNCHANGED request
    PROVE  Searchable'
<1>1. module' = module
  BY DEF request
<1>2. RequestOK'
  BY ResolutionStable DEF Searchable
<1>3. QED BY <1>1, <1>2 DEF Searchable

LEMMA RecursionAnswers ==
    IInv /\ RecursionKept /\ Searchable => AnswersAsRecursion
<1> SUFFICES ASSUME IInv, RecursionKept, Searchable,
                    result.code \notin {"pending", "conflicting_axis"}
             PROVE  result = Search[Start]
  BY DEF AnswersAsRecursion
<1>1. pc = "returned"
  BY DEF IInv, PhaseOK, Pending
<1>2. IsSearch(Search)
  BY SearchEquation
<1>3. QED BY <1>1, <1>2 DEF RecursionKept

(* Planner::plan with its explicit stack answers every well-formed request *)
(* exactly as a recursive depth-first search would: the same order of      *)
(* steps, or the same first error with the same path.                      *)
THEOREM AnswersRecursively == Spec => []AnswersAsRecursion
<1>1. IInv /\ RecursionKept /\ Searchable /\ [Next]_vars => RecursionKept' /\ Searchable'
  BY NextRecursionKept, RequestKept, SearchableStable
<1>2. QED BY <1>1, Invariance, InitRecursionKept, RecursionAnswers, PTL DEF Spec

-----------------------------------------------------------------------------
(* The traversal runs out of steps.                                        *)

(* Keys a frame may still be opened for, and keys yet to be emitted.       *)
ToOpen == {k \in Solvable : states[k] = "unseen"}

ToEmit == {k \in Solvable : states[k] # "complete"}

(* What the innermost cursor has not passed, the roots' when there is no   *)
(* frame.                                                                  *)
Unpassed ==
    LET cursor == CursorAt(stack, nextRoot, Len(stack))
    IN  IF cursor <= Widest THEN Widest + 1 - cursor ELSE 0

PhasesLeft ==
    CASE pc = "activation" -> 3 [] pc = "bindings" -> 2 [] pc = "contributions" -> 1
      [] OTHER -> 0

(* A bound on the steps the call may still take.                           *)
StepsLeft ==
    IF pc = "returned" THEN 0
    ELSE (Cardinality(ToOpen) + Cardinality(ToEmit)) * (Widest + 1)
             + Unpassed + PhasesLeft + 1

LEMMA WidestStable ==
    ASSUME UNCHANGED request
    PROVE  Widest' = Widest /\ Solvable' = Solvable
<1>1. roots' = roots
  BY DEF request
<1>2. /\ \A k : Resolvable(k)' <=> Resolvable(k)
      /\ \A k : Dependencies(k)' = Dependencies(k)
  BY ResolutionStable
<1>3. Solvable' = Solvable
  BY <1>2 DEF Solvable
<1>4. \A b : Bounds(b)' <=> Bounds(b)
  BY <1>1, <1>2, <1>3 DEF Bounds
<1>5. Widest' = Widest
  BY <1>4, Zenon DEF Widest
<1>6. QED BY <1>3, <1>5

LEMMA CountsType ==
    ASSUME Searchable
    PROVE  /\ IsFiniteSet(ToOpen) /\ IsFiniteSet(ToEmit)
           /\ Cardinality(ToOpen) \in Nat /\ Cardinality(ToEmit) \in Nat
<1>1. ToOpen \subseteq Solvable /\ ToEmit \subseteq Solvable
  BY DEF ToOpen, ToEmit
<1>2. IsFiniteSet(ToOpen) /\ IsFiniteSet(ToEmit)
  BY <1>1, SolvableFinite, FS_Subset
<1>3. QED BY <1>2, FS_CardinalityType

LEMMA CursorType ==
    ASSUME NEW frames \in Seq(Frames), NEW root \in Nat \ {0}
    PROVE  CursorAt(frames, root, Len(frames)) \in Nat \ {0}
<1>1. CASE frames = <<>>
  BY <1>1 DEF CursorAt
<1>2. CASE frames # <<>>
  <2>1. Len(frames) \in Nat \ {0} /\ frames[Len(frames)] \in Frames
    BY <1>2, EmptySeq
  <2>2. QED BY <2>1 DEF CursorAt, Frames
<1>3. QED BY <1>1, <1>2

LEMMA StepsLeftType ==
    ASSUME IInv, Searchable
    PROVE  /\ StepsLeft \in Nat
           /\ Widest \in Nat /\ Unpassed \in 0 .. Widest /\ PhasesLeft \in Nat
           /\ (Cardinality(ToOpen) + Cardinality(ToEmit)) * (Widest + 1) \in Nat
<1>1. Widest \in Nat
  BY WidestBounds
<1>2. Unpassed \in 0 .. Widest
  <2>1. PICK c \in Nat \ {0} : c = CursorAt(stack, nextRoot, Len(stack))
    BY CursorType DEF IInv, TypeOK
  <2>2. Unpassed = IF c <= Widest THEN Widest + 1 - c ELSE 0
    BY <2>1 DEF Unpassed
  <2>3. QED BY <1>1, <2>2
<1>3. PhasesLeft \in Nat
  BY DEF PhasesLeft
<1>4. \A x, y, w \in Nat : (x + y) * (w + 1) \in Nat
  OBVIOUS
<1>5. (Cardinality(ToOpen) + Cardinality(ToEmit)) * (Widest + 1) \in Nat
  BY <1>1, <1>4, CountsType
<1>6. QED BY <1>1, <1>2, <1>3, <1>5 DEF StepsLeft

(* One key fewer outweighs any cursor.                                     *)
LEMMA OneFewer ==
    ASSUME NEW x \in Nat, NEW y \in Nat, NEW w \in Nat, NEW z \in Nat, NEW c \in Nat,
           y + 1 = x, z <= w
    PROVE  y * (w + 1) + z < x * (w + 1) + c
<1>1. \A a \in Nat : (a + 1) * (w + 1) = a * (w + 1) + (w + 1) /\ a * (w + 1) \in Nat
  OBVIOUS
<1>2. PICK m \in Nat : m = y * (w + 1) /\ x * (w + 1) = m + (w + 1)
  BY <1>1
<1>3. QED BY <1>2

LEMMA OneRemoved ==
    ASSUME NEW S, IsFiniteSet(S), NEW k \in S
    PROVE  Cardinality(S \ {k}) + 1 = Cardinality(S)
<1>1. Cardinality(S) \in Nat
  BY FS_CardinalityType
<1>2. Cardinality(S \ {k}) = Cardinality(S) - 1
  BY FS_RemoveElement
<1>3. QED BY <1>1, <1>2

(* A step of the traversal that either uses up a key or moves the cursor.  *)
LEMMA FewerSteps ==
    ASSUME IInv, Searchable, pc = "traverse",
           (IInv)', (Searchable)', UNCHANGED request, pc' = pc,
           \/ /\ ToOpen' = ToOpen /\ ToEmit' = ToEmit
              /\ Unpassed' < Unpassed
           \/ \E k \in ToOpen : ToOpen' = ToOpen \ {k} /\ ToEmit' = ToEmit
           \/ \E k \in ToEmit : ToEmit' = ToEmit \ {k} /\ ToOpen' = ToOpen
    PROVE  StepsLeft' < StepsLeft
<1>1. PICK w \in Nat : w = Widest
  BY WidestBounds
<1>2. Widest' = w
  BY <1>1, WidestStable
<1>3. PICK x \in Nat, y \in Nat : x = Cardinality(ToOpen) /\ y = Cardinality(ToEmit)
  BY CountsType
<1>4. PICK x1, y1 : x1 = Cardinality(ToOpen') /\ y1 = Cardinality(ToEmit')
  OBVIOUS
<1>5. PICK u \in 0 .. w : u = Unpassed
  BY <1>1, StepsLeftType
<1>6. PICK u1 : u1 = Unpassed'
  OBVIOUS
<1>7. u1 \in 0 .. w
  <2>1. PICK c \in Nat \ {0} : c = CursorAt(stack', nextRoot', Len(stack'))
    <3>1. stack' \in Seq(Frames) /\ nextRoot' \in Nat \ {0}
      BY DEF IInv, TypeOK
    <3>2. QED BY <3>1, CursorType
  <2>2. u1 = IF c <= w THEN w + 1 - c ELSE 0
    BY <1>2, <1>6, <2>1 DEF Unpassed
  <2>3. QED BY <2>2
<1>8. StepsLeft = (x + y) * (w + 1) + u + 0 + 1
  BY <1>1, <1>3, <1>5 DEF StepsLeft, PhasesLeft
<1>9. StepsLeft' = (x1 + y1) * (w + 1) + u1 + 0 + 1
  BY <1>2, <1>4, <1>6 DEF StepsLeft, PhasesLeft
<1>10. CASE x1 = x /\ y1 = y /\ u1 < u
  <2>1. PICK m \in Nat : m = (x + y) * (w + 1)
    <3>1. \A a, b \in Nat : (a + b) * (w + 1) \in Nat
      OBVIOUS
    <3>2. QED BY <3>1
  <2>2. QED BY <1>5, <1>7, <1>8, <1>9, <1>10, <2>1
<1>11. CASE x1 \in Nat /\ y1 \in Nat /\ (x1 + y1) + 1 = x + y
  <2>1. PICK a \in Nat, b \in Nat : a = x + y /\ b = x1 + y1
    BY <1>11
  <2>2. b * (w + 1) + u1 < a * (w + 1) + u
    BY <1>5, <1>7, <1>11, <2>1, OneFewer
  <2>3. PICK m \in Nat, l \in Nat : m = a * (w + 1) /\ l = b * (w + 1)
    <3>1. \A d \in Nat : d * (w + 1) \in Nat
      OBVIOUS
    <3>2. QED BY <3>1
  <2>4. QED BY <1>5, <1>7, <1>8, <1>9, <2>1, <2>2, <2>3
<1>12. CASE \E k \in ToOpen : ToOpen' = ToOpen \ {k} /\ ToEmit' = ToEmit
  <2>1. x1 + 1 = x /\ y1 = y
    BY <1>3, <1>4, <1>12, OneRemoved, CountsType
  <2>2. x1 \in Nat
    <3>1. PICK k \in ToOpen : ToOpen' = ToOpen \ {k}
      BY <1>12
    <3>2. IsFiniteSet(ToOpen \ {k})
      BY CountsType, FS_RemoveElement
    <3>3. QED BY <1>4, <3>1, <3>2, FS_CardinalityType
  <2>3. QED BY <1>11, <2>1, <2>2
<1>13. CASE \E k \in ToEmit : ToEmit' = ToEmit \ {k} /\ ToOpen' = ToOpen
  <2>1. y1 + 1 = y /\ x1 = x
    BY <1>3, <1>4, <1>13, OneRemoved, CountsType
  <2>2. y1 \in Nat
    <3>1. PICK k \in ToEmit : ToEmit' = ToEmit \ {k}
      BY <1>13
    <3>2. IsFiniteSet(ToEmit \ {k})
      BY CountsType, FS_RemoveElement
    <3>3. QED BY <1>4, <3>1, <3>2, FS_CardinalityType
  <2>3. QED BY <1>11, <2>1, <2>2
<1>14. QED BY <1>3, <1>4, <1>5, <1>6, <1>10, <1>12, <1>13
LEMMA PushTakesOne ==
    ASSUME IInv, NEW k \in Keys, states[k] = "unseen", NEW frames, Push(k, frames)
    PROVE  \E j \in ToOpen : ToOpen' = ToOpen \ {j} /\ ToEmit' = ToEmit
<1>1. Resolvable(k) /\ states' = [states EXCEPT ![k] = "visiting"] /\ UNCHANGED request
  BY DEF Push
<1>2. Solvable' = Solvable
  BY <1>1, WidestStable
<1>3. k \in ToOpen
  BY <1>1 DEF ToOpen, Solvable
<1>4. \A j \in Keys : states'[j] = IF j = k THEN "visiting" ELSE states[j]
  BY <1>1 DEF IInv, TypeOK
<1>5. \A j \in Solvable : j \in Keys
  BY DEF Solvable
<1>6. ToOpen' = ToOpen \ {k}
  BY <1>2, <1>4, <1>5 DEF ToOpen
<1>7. ToEmit' = ToEmit
  BY <1>2, <1>4, <1>5 DEF ToEmit
<1>8. QED BY <1>3, <1>6, <1>7

LEMMA StepTaken ==
    ASSUME IInv, Searchable, (IInv)', (Searchable)', Next
    PROVE  StepsLeft' < StepsLeft
<1>1. pc # "returned"
  BY DEF Next, CheckActivation, CheckBindings, CheckContributions, NextRoot, AtRoot,
         StartRoot, Complete, SkipComplete, Descend, ReportCycle, Finish, InLoop, Traversing
<1>2. UNCHANGED request
  BY RequestKept
<1>3. CASE pc' = "returned"
  <2>1. StepsLeft' = 0
    BY <1>3 DEF StepsLeft
  <2>2. StepsLeft > 0
    <3>1. PICK m \in Nat : m = (Cardinality(ToOpen) + Cardinality(ToEmit)) * (Widest + 1)
      BY StepsLeftType
    <3>2. Unpassed \in Nat /\ PhasesLeft \in Nat
      BY StepsLeftType
    <3>3. QED BY <1>1, <3>1, <3>2 DEF StepsLeft
  <2>3. QED BY <2>1, <2>2
<1>4. CASE \/ CheckActivation /\ Goto("bindings")
           \/ CheckBindings /\ Goto("contributions")
           \/ CheckContributions /\ Goto("traverse")
  <2>1. UNCHANGED <<nextRoot, states, stack>> /\ pc' # "returned"
    BY <1>4 DEF Goto, traversal
  <2>2. PhasesLeft' + 1 = PhasesLeft
    BY <1>4 DEF Goto, PhasesLeft, CheckActivation, CheckBindings, CheckContributions
  <2>3. Widest' = Widest /\ Solvable' = Solvable
    BY <1>2, WidestStable
  <2>4. ToOpen' = ToOpen /\ ToEmit' = ToEmit
    BY <2>1, <2>3 DEF ToOpen, ToEmit
  <2>5. Unpassed' = Unpassed
    BY <2>1, <2>3 DEF Unpassed, CursorAt
  <2>6. PICK m \in Nat : m = (Cardinality(ToOpen) + Cardinality(ToEmit)) * (Widest + 1)
    BY StepsLeftType
  <2>7. StepsLeft = m + Unpassed + PhasesLeft + 1
    BY <1>1, <2>6 DEF StepsLeft
  <2>8. StepsLeft' = m + Unpassed + PhasesLeft' + 1
    BY <2>1, <2>3, <2>4, <2>5, <2>6 DEF StepsLeft
  <2>9. Unpassed \in Nat /\ PhasesLeft \in Nat /\ PhasesLeft' \in Nat
    <3>1. Unpassed \in 0 .. Widest /\ Widest \in Nat /\ PhasesLeft \in Nat
      BY StepsLeftType
    <3>2. PhasesLeft' \in Nat
      BY DEF PhasesLeft
    <3>3. QED BY <3>1, <3>2
  <2>10. PICK u \in Nat, a \in Nat, b \in Nat :
             u = Unpassed /\ a = PhasesLeft /\ b = PhasesLeft'
    BY <2>9
  <2>11. b + 1 = a /\ StepsLeft = m + u + a + 1 /\ StepsLeft' = m + u + b + 1
    BY <2>2, <2>7, <2>8, <2>10
  <2>12. QED BY <2>11
<1>5. CASE NextRoot
  <2>1. /\ pc = "traverse" /\ pc' = pc /\ stack = <<>> /\ stack' = <<>>
        /\ nextRoot <= Len(roots) /\ nextRoot' = nextRoot + 1 /\ states' = states
    BY <1>5 DEF NextRoot, AtRoot, Traversing
  <2>2. Widest' = Widest /\ Solvable' = Solvable
    BY <1>2, WidestStable
  <2>3. ToOpen' = ToOpen /\ ToEmit' = ToEmit
    BY <2>1, <2>2 DEF ToOpen, ToEmit
  <2>4. Unpassed' < Unpassed
    <3>1. Widest \in Nat /\ Len(roots) <= Widest
      BY WidestBounds DEF Bounds
    <3>2. Len(roots) \in Nat /\ nextRoot \in Nat \ {0}
      BY DEF IInv, TypeOK, RequestOK
    <3>3. Len(stack) = 0 /\ Len(stack') = 0
      BY <2>1
    <3>4. Unpassed = Widest + 1 - nextRoot
      BY <2>1, <3>1, <3>2, <3>3 DEF Unpassed, CursorAt
    <3>5. Unpassed' = IF nextRoot + 1 <= Widest THEN Widest + 1 - (nextRoot + 1) ELSE 0
      BY <2>1, <2>2, <3>3 DEF Unpassed, CursorAt
    <3>6. QED BY <2>1, <3>1, <3>2, <3>4, <3>5
  <2>5. QED BY <1>2, <2>1, <2>3, <2>4, FewerSteps
<1>6. CASE SkipComplete
  <2>1. PICK p \in Remaining : stack' = Advanced(p)
    BY <1>6 DEF SkipComplete
  <2>2. InLoop /\ pc = "traverse" /\ pc' = pc /\ states' = states
    BY <1>6 DEF SkipComplete, InLoop, Traversing
  <2>3. /\ Len(stack') = Len(stack) /\ Len(stack) \in Nat \ {0}
        /\ stack'[Len(stack)].next = p + 1
        /\ Top.next \in Nat \ {0} /\ Top.key \in Solvable
    BY <2>1, <2>2, AdvancedFacts, TopFacts DEF Solvable
  <2>4. Widest' = Widest /\ Solvable' = Solvable
    BY <1>2, WidestStable
  <2>5. ToOpen' = ToOpen /\ ToEmit' = ToEmit
    BY <2>2, <2>4 DEF ToOpen, ToEmit
  <2>6. Unpassed' < Unpassed
    <3>1. p \in Nat \ {0} /\ p >= Top.next /\ p \in DOMAIN Dependencies(Top.key)
      BY <2>2, CursorFacts
    <3>2. p <= Widest /\ Widest \in Nat
      BY <2>3, <3>1, WidestBounds DEF Bounds
    <3>3. Unpassed = Widest + 1 - Top.next
      BY <2>3, <3>1, <3>2 DEF Unpassed, CursorAt, Top
    <3>4. Unpassed' = IF p + 1 <= Widest THEN Widest + 1 - (p + 1) ELSE 0
      BY <2>3, <2>4 DEF Unpassed, CursorAt
    <3>5. PICK w \in Nat, c \in Nat : w = Widest /\ c = Top.next
      BY <2>3, <3>2
    <3>6. Unpassed = w + 1 - c /\ p >= c /\ p <= w /\ p \in Nat
      BY <3>1, <3>2, <3>3, <3>5
    <3>7. Unpassed' = IF p + 1 <= w THEN w + 1 - (p + 1) ELSE 0
      BY <3>4, <3>5
    <3>8. QED BY <3>6, <3>7
  <2>7. QED BY <1>2, <2>2, <2>5, <2>6, FewerSteps
<1>7. CASE Complete
  <2>1. /\ InLoop /\ pc = "traverse" /\ pc' = pc
        /\ states' = [states EXCEPT ![Top.key] = "complete"]
    BY <1>7 DEF Complete, InLoop, Traversing
  <2>2. /\ Top.key \in Keys /\ states[Top.key] = "visiting" /\ Resolvable(Top.key)
    BY <2>1, TopFacts
  <2>3. Solvable' = Solvable
    BY <1>2, WidestStable
  <2>4. \A j \in Keys : states'[j] = IF j = Top.key THEN "complete" ELSE states[j]
    BY <2>1 DEF IInv, TypeOK
  <2>5. \A j \in Solvable : j \in Keys
    BY DEF Solvable
  <2>6. Top.key \in ToEmit
    BY <2>2 DEF ToEmit, Solvable
  <2>7. ToEmit' = ToEmit \ {Top.key}
    BY <2>3, <2>4, <2>5 DEF ToEmit
  <2>8. ToOpen' = ToOpen
    BY <2>2, <2>3, <2>4, <2>5 DEF ToOpen
  <2>9. QED BY <1>2, <2>1, <2>6, <2>7, <2>8, FewerSteps
<1>8. CASE StartRoot /\ pc' # "returned"
  <2>1. /\ Traversing /\ nextRoot <= Len(roots) /\ states[roots[nextRoot]] = "unseen"
        /\ Push(roots[nextRoot], stack)
    BY <1>8 DEF StartRoot, AtRoot, FailPush, Return
  <2>2. roots[nextRoot] \in Keys
    BY <2>1, RootIsReachable DEF IInv, TypeOK, RequestOK
  <2>3. pc = "traverse" /\ pc' = pc
    BY <2>1 DEF Traversing, Push
  <2>4. QED BY <1>2, <2>1, <2>2, <2>3, PushTakesOne, FewerSteps
<1>9. CASE Descend /\ pc' # "returned"
  <2>1. PICK p \in Remaining :
            /\ states[Dependencies(Top.key)[p]] = "unseen"
            /\ Push(Dependencies(Top.key)[p], Advanced(p))
    BY <1>9 DEF Descend, FailPush, Return
  <2>2. InLoop /\ pc = "traverse" /\ pc' = pc
    BY <1>9, <2>1 DEF Descend, InLoop, Traversing, Push
  <2>3. Dependencies(Top.key)[p] \in Keys
    BY <2>2, CursorFacts
  <2>4. QED BY <1>2, <2>1, <2>2, <2>3, PushTakesOne, FewerSteps
<1>10. CASE (ReportCycle \/ Finish) /\ pc' # "returned"
  BY <1>10 DEF ReportCycle, Finish, Return
<1>11. QED
  BY <1>3, <1>4, <1>5, <1>6, <1>7, <1>8, <1>9, <1>10
  DEF Next, CheckActivation, CheckBindings, CheckContributions, Return

(* Every step of a call lowers a natural number that the request bounds,   *)
(* so no request, cyclic or not, keeps Planner::plan busy forever.         *)
THEOREM StepsRunOut == Spec => [](StepsLeft \in Nat) /\ [][StepsLeft' < StepsLeft]_vars
<1>1. IInv /\ Searchable => StepsLeft \in Nat
  BY StepsLeftType
<1>2. Searchable /\ [Next]_vars => Searchable'
  BY RequestKept, SearchableStable
<1>3. IInv /\ Searchable /\ IInv' /\ Searchable' /\ [Next]_vars => [StepsLeft' < StepsLeft]_vars
  BY StepTaken
<1>4. Init => Searchable
  BY InitRecursionKept
<1>5. QED BY <1>1, <1>2, <1>3, <1>4, Invariance, PTL DEF Spec

===============================================================================
