--------------------------- MODULE ProvisionProofs ---------------------------
(***************************************************************************)
(* Provision for any finite set of keys, any plan its contract allows, and *)
(* any number of runs: providers are called in order and the bookkeeping   *)
(* of the graph never fails, a graph serves its plan, a failed run leaves  *)
(* nothing behind, services die dependents first, one at a time, and the   *)
(* steps of a run and of its graph run out.                                *)
(***************************************************************************)
EXTENDS Provision, FiniteSetTheorems, TLAPS

-----------------------------------------------------------------------------
(* The inductive invariant.                                                *)

(* What produce takes from a plan.                                         *)
PlanOK ==
    /\ Order \in Seq(Keys)
    /\ NoDuplicates(Order)
    /\ DependenciesPrecede(Order)
    /\ \A i \in 1 .. Len(Order) :
          behaviour[Order[i]] = "alias" => \E d \in Keys : DependsOn(Order[i]) = {d}

TypeOK ==
    /\ phase \in [Runs -> Phases]
    /\ next \in [Runs -> Nat]
    /\ called \in [Runs -> Seq(Keys)]
    /\ inFlight \in [Runs -> SUBSET Objects]
    /\ DOMAIN index = Runs
    /\ values \in [Runs -> Seq(Objects)]
    /\ DOMAIN keeps \subseteq Objects
    /\ \A o \in DOMAIN keeps : keeps[o] \subseteq DOMAIN keeps
    /\ outside \subseteq DOMAIN keeps
    /\ outcome \in [Runs -> {"none", "success", "failure", "defect"}]

(* Where a run is tells how much of the plan it has executed.              *)
Progress(r) ==
    /\ next[r] \in 1 .. Len(Order) + 1
    /\ Len(called[r]) <= Len(Order)
    /\ \A i \in 1 .. Len(called[r]) : called[r][i] = Order[i]
    /\ phase[r] \in {"idle", "step", "produced"} => Len(called[r]) = next[r] - 1
    /\ phase[r] = "insert" => Len(called[r]) = next[r]
    /\ Len(called[r]) \in {next[r] - 1, next[r]}
    /\ phase[r] \in {"idle", "step", "insert"} <=> outcome[r] = "none"
    /\ phase[r] = "produced" => outcome[r] = "success"
    /\ outcome[r] = "success" => Len(called[r]) = Len(Order)
    /\ outcome[r] = "defect" =>
          Len(called[r]) > 0 /\ behaviour[Order[Len(called[r])]] = "defect"

(* The graph while it lives, and what release has left of it.              *)
Filled(r) ==
    /\ phase[r] \in {"idle", "step", "insert", "produced"} =>
          /\ Len(values[r]) = next[r] - 1
          /\ DOMAIN index[r] = {Order[i] : i \in 1 .. next[r] - 1}
          /\ \A i \in 1 .. next[r] - 1 : index[r][Order[i]] = i
    /\ phase[r] = "released" => values[r] = <<>>
    /\ Len(values[r]) <= next[r] - 1

(* o is the service of the plan's m-th step in run r.                      *)
ServiceAt(r, m, o) ==
    LET k == Order[m]
    IN  /\ o \in DOMAIN keeps
        /\ o.origin = Supplied \/ \E i \in 1 .. m : o = Object(r, Order[i])
        /\ behaviour[k] = "alias" =>
              \A i \in 1 .. m - 1 : Order[i] \in DependsOn(k) => o = values[r][i]
        /\ behaviour[k] = "instance" => o = Object(Supplied, k)
        /\ behaviour[k] \notin {"alias", "instance"} =>
              /\ behaviour[k] = "construct"
              /\ o = Object(r, k)
              /\ keeps[o] \subseteq {values[r][i] : i \in 1 .. m - 1}

Services(r) ==
    /\ \A m \in 1 .. Len(values[r]) : ServiceAt(r, m, values[r][m])
    /\ phase[r] = "insert" => \E o \in Objects : inFlight[r] = {o} /\ ServiceAt(r, next[r], o)
    /\ phase[r] # "insert" => inFlight[r] = {}

(* Every object there is was supplied, or constructed by its run.          *)
Origins ==
    \A o \in DOMAIN keeps :
        /\ o.origin = Supplied => keeps[o] = {}
        /\ o.origin # Supplied =>
              /\ \E i \in 1 .. Len(called[o.origin]) : o.key = Order[i]
              /\ behaviour[o.key] = "construct"
              /\ \A p \in keeps[o] : p.origin \in {Supplied, o.origin}

(* Somebody outside has services of successful runs only.                  *)
Handed == \A o \in outside : o.origin = Supplied \/ outcome[o.origin] = "success"

IInv ==
    /\ PlanOK
    /\ TypeOK
    /\ SuppliedObjects \subseteq DOMAIN keeps
    /\ \A r \in Runs : Progress(r) /\ Filled(r) /\ Services(r)
    /\ Origins
    /\ Handed

-----------------------------------------------------------------------------
(* The plan never changes.                                                 *)

LEMMA PlanStable ==
    ASSUME UNCHANGED plan
    PROVE  /\ Order' = Order /\ behaviour' = behaviour
           /\ \A k : DependsOn(k)' = DependsOn(k)
           /\ SuppliedObjects' = SuppliedObjects
           /\ PlanOK => PlanOK'
<1>1. /\ module' = module /\ activation' = activation
      /\ result' = result /\ behaviour' = behaviour
  BY DEF plan, request
<1>2. Order' = Order
  BY <1>1 DEF Order
<1>3. \A k : ActiveBindings(k)' = ActiveBindings(k)
  BY <1>1 DEF ActiveBindings, Active
<1>4. ASSUME NEW k
      PROVE  DependsOn(k)' = DependsOn(k)
  <2>1. ActiveBindings(k)' = ActiveBindings(k)
    BY <1>3
  <2>2. Resolvable(k)' <=> Resolvable(k)
    BY <1>1, <2>1 DEF Resolvable, Ambiguous, Missing
  <2>3. ActiveContributions(k)' = ActiveContributions(k)
    BY <1>1 DEF ActiveContributions, Active
  <2>4. OnlyBinding(k)' = OnlyBinding(k)
    BY <2>1 DEF OnlyBinding
  <2>5. Dependencies(k)' = Dependencies(k)
    BY <1>1, <2>1, <2>3, <2>4 DEF Dependencies
  <2>6. QED BY <2>2, <2>5, Zenon DEF DependsOn
<1>5. SuppliedObjects' = SuppliedObjects
  BY <1>1 DEF SuppliedObjects
<1>6. ASSUME PlanOK
      PROVE  PlanOK'
  <2>5. NoDuplicates(Order)'
    BY <1>2, <1>6 DEF PlanOK, NoDuplicates
  <2>1. DependenciesPrecede(Order)'
    <3>1. DependenciesPrecede(Order)
      BY <1>6 DEF PlanOK
    <3>2. QED BY <1>2, <1>4, <3>1 DEF DependenciesPrecede
  <2>2. \A k : (\E d \in Keys : DependsOn(k) = {d}) => \E d \in Keys : DependsOn(k)' = {d}
    BY <1>4
  <2>3. \A i \in 1 .. Len(Order) : behaviour[Order[i]] = "alias" =>
            \E d \in Keys : DependsOn(Order[i])' = {d}
    BY <1>2, <1>6, <2>2 DEF PlanOK
  <2>4. QED BY <1>1, <1>2, <1>6, <2>1, <2>3, <2>5 DEF PlanOK
<1>7. QED BY <1>1, <1>2, <1>4, <1>5, <1>6

(* Objects come into being; none changes what it keeps.                    *)
KeepsGrow ==
    /\ DOMAIN keeps \subseteq DOMAIN keeps'
    /\ \A o \in DOMAIN keeps : keeps'[o] = keeps[o]

LEMMA ServiceStable ==
    ASSUME UNCHANGED plan, KeepsGrow,
           NEW r \in Runs, NEW m \in Nat, NEW o, ServiceAt(r, m, o),
           \A i \in 1 .. m - 1 : values'[r][i] = values[r][i]
    PROVE  ServiceAt(r, m, o)'
<1>1. /\ Order' = Order /\ behaviour' = behaviour
      /\ \A k : DependsOn(k)' = DependsOn(k)
  BY PlanStable
<1>2. o \in DOMAIN keeps /\ o \in DOMAIN keeps' /\ keeps'[o] = keeps[o]
  BY DEF ServiceAt, KeepsGrow
<1>3. {values'[r][i] : i \in 1 .. m - 1} = {values[r][i] : i \in 1 .. m - 1}
  OBVIOUS
<1>4. QED BY <1>1, <1>2, <1>3 DEF ServiceAt, Object

(* A run that does not move stays as it is.                                *)
Still(r) ==
    /\ phase'[r] = phase[r] /\ next'[r] = next[r] /\ called'[r] = called[r]
    /\ inFlight'[r] = inFlight[r] /\ index'[r] = index[r] /\ values'[r] = values[r]
    /\ outcome'[r] = outcome[r]

LEMMA StillStable ==
    ASSUME IInv, UNCHANGED plan, KeepsGrow, NEW r \in Runs, Still(r)
    PROVE  Progress(r)' /\ Filled(r)' /\ Services(r)'
<1>1. Order' = Order /\ behaviour' = behaviour
  BY PlanStable
<1>2. Progress(r)'
  BY <1>1 DEF IInv, Progress, Still
<1>3. Filled(r)'
  BY <1>1 DEF IInv, Filled, Still
<1>4. Services(r) /\ next[r] \in Nat /\ Len(values[r]) \in Nat
  BY DEF IInv, TypeOK
<1>5. \A m \in 1 .. Len(values[r]) : ServiceAt(r, m, values[r][m])'
  BY <1>4, ServiceStable DEF Services, Still
<1>6. ASSUME NEW o \in Objects, ServiceAt(r, next[r], o)
      PROVE  ServiceAt(r, next[r], o)'
  BY <1>4, <1>6, ServiceStable DEF Still
<1>7. Services(r)'
  <2>1. \A m \in 1 .. Len(values'[r]) : ServiceAt(r, m, values[r][m])'
    BY <1>5 DEF Still
  <2>2. QED BY <1>4, <1>6, <2>1 DEF Services, Still, ServiceAt
<1>8. QED BY <1>2, <1>3, <1>7

-----------------------------------------------------------------------------
(* What is left to show of a step of one run.                              *)

LEMMA OneRunMoves ==
    ASSUME IInv, UNCHANGED plan, KeepsGrow, NEW r \in Runs,
           \A q \in Runs \ {r} : Still(q),
           TypeOK', Progress(r)', Filled(r)', Services(r)', Origins', Handed'
    PROVE  IInv'
<1>1. PlanOK' /\ SuppliedObjects' = SuppliedObjects
  BY PlanStable DEF IInv
<1>2. (SuppliedObjects \subseteq DOMAIN keeps)'
  BY <1>1 DEF IInv, KeepsGrow
<1>3. ASSUME NEW q \in Runs
      PROVE  Progress(q)' /\ Filled(q)' /\ Services(q)'
  BY <1>3, StillStable
<1>4. QED BY <1>1, <1>2, <1>3 DEF IInv

LEMMA OriginsStable ==
    ASSUME IInv, UNCHANGED plan, keeps' = keeps,
           \A q \in Runs : called'[q] = called[q]
    PROVE  Origins'
<1>1. Order' = Order /\ behaviour' = behaviour
  BY PlanStable
<1>2. \A o \in DOMAIN keeps : o.origin # Supplied => o.origin \in Runs
  BY DEF IInv, TypeOK, Objects
<1>3. QED BY <1>1, <1>2 DEF IInv, Origins

LEMMA HandedStable ==
    ASSUME IInv, outside' \subseteq outside,
           \A q \in Runs : outcome[q] = "success" => outcome'[q] = "success"
    PROVE  Handed'
<1>1. \A o \in outside : o.origin # Supplied => o.origin \in Runs
  BY DEF IInv, TypeOK, Objects
<1>2. QED BY <1>1 DEF IInv, Handed

(* A graph that keeps a first part of its values.                          *)
LEMMA ServicesKept ==
    ASSUME IInv, UNCHANGED plan, KeepsGrow, NEW r \in Runs,
           values'[r] \in Seq(Objects), Len(values'[r]) <= Len(values[r]),
           \A i \in 1 .. Len(values'[r]) : values'[r][i] = values[r][i],
           phase'[r] # "insert", inFlight'[r] = {}
    PROVE  Services(r)'
<1>1. values[r] \in Seq(Objects) /\ Len(values'[r]) \in Nat /\ Len(values[r]) \in Nat
  BY DEF IInv, TypeOK
<1>2. ASSUME NEW m \in 1 .. Len(values'[r])
      PROVE  ServiceAt(r, m, values[r][m])'
  <2>1. m \in Nat /\ m \in 1 .. Len(values[r])
    BY <1>1
  <2>2. ServiceAt(r, m, values[r][m])
    BY <2>1 DEF IInv, Services
  <2>3. \A i \in 1 .. m - 1 : values'[r][i] = values[r][i]
    BY <1>1, <2>1
  <2>4. values'[r][m] = values[r][m]
    OBVIOUS
  <2>5. QED BY <2>1, <2>2, <2>3, <2>4, ServiceStable
<1>3. QED BY <1>2 DEF Services

LEMMA ServicesSame ==
    ASSUME IInv, UNCHANGED plan, KeepsGrow, NEW r \in Runs,
           values'[r] = values[r], inFlight'[r] = inFlight[r],
           phase[r] # "insert", phase'[r] # "insert"
    PROVE  Services(r)'
<1>1. values[r] \in Seq(Objects) /\ Len(values[r]) \in Nat
  BY DEF IInv, TypeOK
<1>2. inFlight[r] = {}
  BY DEF IInv, Services
<1>3. QED BY <1>1, <1>2, ServicesKept

-----------------------------------------------------------------------------
(* Steps that call no provider.                                            *)

LEMMA StartStep ==
    ASSUME IInv, NEW r \in Runs, Start(r)
    PROVE  IInv'
<1>1. /\ UNCHANGED plan /\ KeepsGrow /\ phase[r] = "idle" /\ phase'[r] = "step"
      /\ \A q \in Runs \ {r} : Still(q)
      /\ UNCHANGED <<next, called, inFlight, index, values, keeps, outside, outcome>>
  BY DEF IInv, TypeOK, Start, Still, KeepsGrow
<1>2. TypeOK'
  BY DEF IInv, TypeOK, Start, Phases
<1>3. Order' = Order /\ behaviour' = behaviour
  BY <1>1, PlanStable
<1>4. Progress(r)' /\ Filled(r)'
  BY <1>1, <1>3 DEF IInv, Progress, Filled
<1>5. Services(r)'
  BY <1>1, ServicesSame
<1>6. Origins' /\ Handed'
  BY <1>1, OriginsStable, HandedStable
<1>7. QED BY <1>1, <1>2, <1>4, <1>5, <1>6, OneRunMoves

LEMMA FinishStep ==
    ASSUME IInv, NEW r \in Runs, Finish(r)
    PROVE  IInv'
<1>1. /\ UNCHANGED plan /\ KeepsGrow /\ phase[r] = "step" /\ next[r] > Len(Order)
      /\ phase'[r] = "produced" /\ outcome'[r] = "success"
      /\ \A q \in Runs \ {r} : Still(q)
      /\ UNCHANGED <<next, called, inFlight, index, values, keeps, outside>>
  BY DEF IInv, TypeOK, Finish, Still, KeepsGrow
<1>2. TypeOK'
  BY DEF IInv, TypeOK, Finish, Phases
<1>3. Order' = Order /\ behaviour' = behaviour /\ Len(Order) \in Nat /\ next[r] \in Nat
  BY <1>1, PlanStable DEF IInv, PlanOK, TypeOK
<1>4. Progress(r)' /\ Filled(r)'
  BY <1>1, <1>3 DEF IInv, Progress, Filled
<1>5. Services(r)'
  BY <1>1, ServicesSame
<1>6. \A q \in Runs : outcome[q] = "success" => outcome'[q] = "success"
  BY <1>1 DEF Still
<1>7. Origins' /\ Handed'
  BY <1>1, <1>6, OriginsStable, HandedStable
<1>8. QED BY <1>1, <1>2, <1>4, <1>5, <1>7, OneRunMoves

LEMMA DropGraphStep ==
    ASSUME IInv, NEW r \in Runs, DropGraph(r)
    PROVE  IInv'
<1>1. /\ UNCHANGED plan /\ KeepsGrow /\ phase[r] = "produced" /\ phase'[r] = "release"
      /\ \A q \in Runs \ {r} : Still(q)
      /\ UNCHANGED <<next, called, inFlight, index, values, keeps, outside, outcome>>
  BY DEF IInv, TypeOK, DropGraph, Still, KeepsGrow
<1>2. TypeOK'
  BY DEF IInv, TypeOK, DropGraph, Phases
<1>3. Order' = Order /\ behaviour' = behaviour
  BY <1>1, PlanStable
<1>4. Progress(r)' /\ Filled(r)'
  BY <1>1, <1>3 DEF IInv, Progress, Filled
<1>5. Services(r)'
  BY <1>1, ServicesSame
<1>6. Origins' /\ Handed'
  BY <1>1, OriginsStable, HandedStable
<1>7. QED BY <1>1, <1>2, <1>4, <1>5, <1>6, OneRunMoves

LEMMA PoppedFacts ==
    ASSUME IInv, NEW r \in Runs, values[r] # <<>>
    PROVE  /\ Popped(r) \in Seq(Objects)
           /\ Len(values[r]) \in Nat \ {0}
           /\ Len(Popped(r)) = Len(values[r]) - 1
           /\ \A i \in 1 .. Len(values[r]) - 1 : Popped(r)[i] = values[r][i]
<1>1. values[r] \in Seq(Objects) /\ Popped(r) = SubSeq(values[r], 1, Len(values[r]) - 1)
  BY DEF IInv, TypeOK, Popped, Front
<1>2. Len(values[r]) \in Nat \ {0}
  BY <1>1
<1>3. QED BY <1>1, <1>2

LEMMA PopBackStep ==
    ASSUME IInv, NEW r \in Runs, PopBack(r)
    PROVE  IInv'
<1>1. /\ UNCHANGED plan /\ KeepsGrow /\ phase[r] = "release" /\ values[r] # <<>>
      /\ values'[r] = Popped(r)
      /\ \A q \in Runs \ {r} : Still(q)
      /\ UNCHANGED <<phase, next, called, inFlight, index, keeps, outside, outcome>>
  BY DEF IInv, TypeOK, PopBack, Still, KeepsGrow
<1>2. TypeOK'
  BY PoppedFacts DEF IInv, TypeOK, PopBack
<1>3. Order' = Order /\ behaviour' = behaviour
  BY <1>1, PlanStable
<1>4. Progress(r)' /\ Filled(r)'
  BY <1>1, <1>3, PoppedFacts DEF IInv, TypeOK, Progress, Filled
<1>5. Services(r)'
  <2>1. inFlight[r] = {}
    BY <1>1 DEF IInv, Services
  <2>2. /\ values'[r] \in Seq(Objects) /\ Len(values[r]) \in Nat
        /\ Len(values'[r]) = Len(values[r]) - 1
        /\ \A i \in 1 .. Len(values'[r]) : values'[r][i] = values[r][i]
    BY <1>1, PoppedFacts
  <2>3. QED BY <1>1, <2>1, <2>2, ServicesKept
<1>6. Origins' /\ Handed'
  BY <1>1, OriginsStable, HandedStable
<1>7. QED BY <1>1, <1>2, <1>4, <1>5, <1>6, OneRunMoves

LEMMA ReleasedStep ==
    ASSUME IInv, NEW r \in Runs, Released(r)
    PROVE  IInv'
<1>1. /\ UNCHANGED plan /\ KeepsGrow /\ phase[r] = "release" /\ values[r] = <<>>
      /\ phase'[r] = "released"
      /\ \A q \in Runs \ {r} : Still(q)
      /\ UNCHANGED <<next, called, inFlight, values, keeps, outside, outcome>>
  BY DEF IInv, TypeOK, Released, Still, KeepsGrow
<1>2. TypeOK'
  BY DEF IInv, TypeOK, Released, Phases
<1>3. Order' = Order /\ behaviour' = behaviour
  BY <1>1, PlanStable
<1>4. Progress(r)' /\ Filled(r)'
  BY <1>1, <1>3 DEF IInv, Progress, Filled
<1>5. Services(r)'
  BY <1>1, ServicesSame
<1>6. Origins' /\ Handed'
  BY <1>1, OriginsStable, HandedStable
<1>7. QED BY <1>1, <1>2, <1>4, <1>5, <1>6, OneRunMoves

LEMMA ServiceFacts ==
    ASSUME NEW r, NEW m, NEW o, ServiceAt(r, m, o)
    PROVE  o \in DOMAIN keeps /\ o.origin \in {Supplied, r}
<1>1. o \in DOMAIN keeps
  BY DEF ServiceAt
<1>2. CASE o.origin = Supplied
  BY <1>1, <1>2
<1>3. CASE \E i \in 1 .. m : o = Object(r, Order[i])
  BY <1>1, <1>3 DEF Object
<1>4. QED BY <1>2, <1>3 DEF ServiceAt

(* What leaves the outside alone, or takes from it.                        *)
LEMMA GetStep ==
    ASSUME IInv, NEW r \in Runs, NEW k \in Keys, Get(r, k)
    PROVE  IInv'
<1> DEFINE o == values[r][index[r][k]]
<1>1. /\ UNCHANGED plan /\ KeepsGrow /\ phase[r] = "produced" /\ outside' = outside \cup {o}
      /\ \A q \in Runs : Still(q)
      /\ UNCHANGED <<phase, next, called, inFlight, index, values, keeps, outcome>>
  BY DEF Get, Still, KeepsGrow
<1>2. PICK m \in 1 .. Len(values[r]) : o = values[r][m]
  BY <1>1 DEF Get, IInv, Filled
<1>3. o \in DOMAIN keeps /\ o.origin \in {Supplied, r}
  <2>1. ServiceAt(r, m, values[r][m])
    BY DEF IInv, Services
  <2>2. values[r][m] \in DOMAIN keeps /\ values[r][m].origin \in {Supplied, r}
    BY <2>1, ServiceFacts
  <2>3. QED BY <1>2, <2>2
<1>4. TypeOK'
  BY <1>1, <1>3 DEF IInv, TypeOK
<1>5. outcome[r] = "success"
  BY <1>1 DEF IInv, Progress
<1>6. Handed'
  BY <1>1, <1>3, <1>5 DEF IInv, Handed
<1>7. Origins'
  BY <1>1, OriginsStable
<1>8. Progress(r)' /\ Filled(r)' /\ Services(r)'
  BY <1>1, StillStable
<1>9. QED BY <1>1, <1>4, <1>6, <1>7, <1>8, OneRunMoves

LEMMA ForgetStep ==
    ASSUME IInv, NEW o \in Objects, Forget(o)
    PROVE  IInv'
<1>1. /\ UNCHANGED plan /\ KeepsGrow /\ outside' \subseteq outside
      /\ \A q \in Runs : Still(q)
      /\ UNCHANGED <<phase, next, called, inFlight, index, values, keeps, outcome>>
  BY DEF Forget, Still, KeepsGrow
<1>2. TypeOK'
  BY <1>1 DEF IInv, TypeOK
<1>3. Origins' /\ Handed'
  BY <1>1, OriginsStable, HandedStable
<1>4. \A r \in Runs : Progress(r)' /\ Filled(r)' /\ Services(r)'
  BY <1>1, StillStable
<1>5. PlanOK' /\ SuppliedObjects' = SuppliedObjects
  BY <1>1, PlanStable DEF IInv
<1>6. QED BY <1>1, <1>2, <1>3, <1>4, <1>5 DEF IInv

-----------------------------------------------------------------------------
(* The step of a provider.                                                 *)

(* What a run finds when it has arrived at the n-th step: the lookups of   *)
(* its dependencies succeed and its key is not in the graph yet.           *)
LEMMA AtStep ==
    ASSUME IInv, NEW r \in Runs,
           phase[r] \in {"step", "insert"}, next[r] <= Len(Order)
    PROVE  /\ next[r] \in 1 .. Len(Order)
           /\ StepKey(r) = Order[next[r]] /\ StepKey(r) \in Keys
           /\ Len(values[r]) = next[r] - 1
           /\ LookupsSucceed(r)
           /\ StepKey(r) \notin DOMAIN index[r]
           /\ \A o \in Arguments(r) : \E i \in 1 .. next[r] - 1 :
                 Order[i] \in DependsOn(StepKey(r)) /\ o = values[r][i]
           /\ \A i \in 1 .. next[r] - 1 :
                 Order[i] \in DependsOn(StepKey(r)) => values[r][i] \in Arguments(r)
<1> DEFINE n == next[r]
<1>1. n \in 1 .. Len(Order) /\ Len(Order) \in Nat
  BY DEF IInv, Progress, PlanOK
<1>2. StepKey(r) = Order[n] /\ StepKey(r) \in Keys
  BY <1>1 DEF StepKey, IInv, PlanOK
<1>3. /\ Len(values[r]) = n - 1
      /\ DOMAIN index[r] = {Order[i] : i \in 1 .. n - 1}
      /\ \A i \in 1 .. n - 1 : index[r][Order[i]] = i
  BY DEF IInv, Filled
<1>4. \A d \in DependsOn(Order[n]) : \E j \in 1 .. n - 1 : Order[j] = d
  BY <1>1 DEF IInv, PlanOK, DependenciesPrecede
<1>5. LookupsSucceed(r)
  BY <1>2, <1>3, <1>4 DEF LookupsSucceed
<1>6. StepKey(r) \notin DOMAIN index[r]
  <2>1. \A i \in 1 .. n - 1 : i \in 1 .. Len(Order) /\ i # n
    BY <1>1
  <2>2. QED BY <1>1, <1>2, <1>3, <2>1 DEF IInv, PlanOK, NoDuplicates
<1>7. ASSUME NEW o \in Arguments(r)
      PROVE  \E i \in 1 .. n - 1 : Order[i] \in DependsOn(StepKey(r)) /\ o = values[r][i]
  <2>1. PICK d \in DependsOn(StepKey(r)) \cap DOMAIN index[r] : o = values[r][index[r][d]]
    BY <1>7 DEF Arguments
  <2>2. PICK i \in 1 .. n - 1 : d = Order[i]
    BY <1>3, <2>1
  <2>3. index[r][d] = i
    BY <1>3, <2>2
  <2>4. o = values[r][i] /\ Order[i] \in DependsOn(StepKey(r))
    BY <2>1, <2>2, <2>3
  <2>5. QED BY <2>4
<1>8. ASSUME NEW i \in 1 .. n - 1, Order[i] \in DependsOn(StepKey(r))
      PROVE  values[r][i] \in Arguments(r)
  <2>1. Order[i] \in DOMAIN index[r] /\ index[r][Order[i]] = i
    BY <1>3
  <2>2. QED BY <1>8, <2>1 DEF Arguments
<1>9. QED BY <1>1, <1>2, <1>3, <1>5, <1>6, <1>7, <1>8

(* What the n-th call of a provider does to the record of calls.           *)
LEMMA CallRecorded ==
    ASSUME IInv, NEW r \in Runs, phase[r] = "step", next[r] <= Len(Order),
           called' = [called EXCEPT ![r] = Append(@, StepKey(r))]
    PROVE  /\ called' \in [Runs -> Seq(Keys)]
           /\ Len(called[r]) = next[r] - 1
           /\ Len(called'[r]) = next[r]
           /\ \A i \in 1 .. next[r] : called'[r][i] = Order[i]
           /\ \A q \in Runs \ {r} : called'[q] = called[q]
           /\ \A q \in Runs : /\ Len(called[q]) \in Nat /\ Len(called'[q]) \in Nat
                              /\ Len(called[q]) <= Len(called'[q])
<1>1. /\ called \in [Runs -> Seq(Keys)] /\ StepKey(r) \in Keys /\ StepKey(r) = Order[next[r]]
      /\ Len(called[r]) = next[r] - 1
      /\ \A i \in 1 .. Len(called[r]) : called[r][i] = Order[i]
      /\ next[r] \in 1 .. Len(Order) /\ Len(Order) \in Nat
  <2>1. called \in [Runs -> Seq(Keys)] /\ Progress(r) /\ Len(Order) \in Nat
    BY DEF IInv, TypeOK, PlanOK
  <2>2. StepKey(r) \in Keys /\ StepKey(r) = Order[next[r]] /\ next[r] \in 1 .. Len(Order)
    BY AtStep
  <2>3. QED BY <2>1, <2>2 DEF Progress
<1>2. called'[r] = Append(called[r], StepKey(r)) /\ \A q \in Runs \ {r} : called'[q] = called[q]
  BY <1>1
<1>3. called' \in [Runs -> Seq(Keys)]
  BY <1>1
<1>4. Len(called'[r]) = next[r] /\ \A i \in 1 .. next[r] : called'[r][i] = Order[i]
  BY <1>1, <1>2
<1>5. \A q \in Runs : Len(called[q]) \in Nat /\ Len(called'[q]) \in Nat
  BY <1>1, <1>3
<1>6. QED BY <1>1, <1>2, <1>3, <1>4, <1>5

(* The objects there were keep their origin when more calls are made.      *)
LEMMA OriginsGrow ==
    ASSUME IInv, UNCHANGED plan, NEW o \in DOMAIN keeps, keeps'[o] = keeps[o],
           \A q \in Runs : /\ Len(called[q]) \in Nat /\ Len(called'[q]) \in Nat
                           /\ Len(called[q]) <= Len(called'[q])
    PROVE  /\ o.origin = Supplied => keeps'[o] = {}
           /\ o.origin # Supplied =>
                 /\ \E i \in 1 .. Len(called'[o.origin]) : o.key = Order'[i]
                 /\ behaviour'[o.key] = "construct"
                 /\ \A p \in keeps'[o] : p.origin \in {Supplied, o.origin}
<1>1. Order' = Order /\ behaviour' = behaviour
  BY PlanStable
<1>2. CASE o.origin = Supplied
  BY <1>2 DEF IInv, Origins
<1>3. CASE o.origin # Supplied
  <2>1. o.origin \in Runs
    BY <1>3 DEF IInv, TypeOK, Objects
  <2>2. PICK i \in 1 .. Len(called[o.origin]) : o.key = Order[i]
    BY <1>3 DEF IInv, Origins
  <2>3. i \in 1 .. Len(called'[o.origin])
    BY <2>1
  <2>4. behaviour[o.key] = "construct" /\ \A p \in keeps[o] : p.origin \in {Supplied, o.origin}
    BY <1>3 DEF IInv, Origins
  <2>5. QED BY <1>1, <1>3, <2>2, <2>3, <2>4
<1>4. QED BY <1>2, <1>3

(* The provider ended in a failure or a defect.                            *)
LEMMA ProviderFailed ==
    ASSUME IInv, NEW r \in Runs, phase[r] = "step", next[r] <= Len(Order),
           behaviour[StepKey(r)] \in {"failure", "defect"}, Fail(r, behaviour[StepKey(r)]),
           called' = [called EXCEPT ![r] = Append(@, StepKey(r))],
           UNCHANGED <<plan, next, inFlight, index, values, keeps, outside>>
    PROVE  IInv'
<1>1. KeepsGrow /\ UNCHANGED plan /\ phase'[r] = "release" /\ outcome'[r] = behaviour[StepKey(r)]
  BY DEF KeepsGrow, Fail, IInv, TypeOK
<1>2. \A q \in Runs \ {r} : Still(q)
  BY CallRecorded DEF Still, Fail, IInv, TypeOK
<1>3. Order' = Order /\ behaviour' = behaviour
  BY <1>1, PlanStable
<1>4. TypeOK'
  BY CallRecorded DEF Fail, IInv, TypeOK, Phases
<1>5. Progress(r)'
  <2>1. next[r] \in 1 .. Len(Order) /\ StepKey(r) = Order[next[r]]
    BY AtStep
  <2>2. Progress(r) /\ Len(Order) \in Nat
    BY DEF IInv, PlanOK
  <2>3. Len(called'[r]) = next[r] /\ \A i \in 1 .. next[r] : called'[r][i] = Order[i]
    BY CallRecorded
  <2>4. QED BY <1>1, <1>3, <2>1, <2>2, <2>3 DEF Progress
<1>6. Filled(r)'
  BY <1>1, <1>3 DEF IInv, Filled
<1>7. Services(r)'
  BY <1>1, ServicesSame
<1>8. Origins'
  BY <1>1, CallRecorded, OriginsGrow DEF Origins
<1>9. Handed'
  <2>1. outcome[r] # "success"
    BY DEF IInv, Progress
  <2>2. \A q \in Runs : outcome[q] = "success" => outcome'[q] = "success"
    BY <1>2, <2>1 DEF Still
  <2>3. QED BY <2>2, HandedStable
<1>10. QED BY <1>1, <1>2, <1>4, <1>5, <1>6, <1>7, <1>8, <1>9, OneRunMoves

(* The provider delivered an object, new or not.                           *)
LEMMA ProviderDelivered ==
    ASSUME IInv, NEW r \in Runs, phase[r] = "step", next[r] <= Len(Order),
           called' = [called EXCEPT ![r] = Append(@, StepKey(r))],
           NEW o \in Objects,
           inFlight' = [inFlight EXCEPT ![r] = {o}],
           phase' = [phase EXCEPT ![r] = "insert"],
           UNCHANGED <<plan, next, index, values, outside, outcome>>,
           KeepsGrow, DOMAIN keeps' \subseteq Objects,
           \A p \in DOMAIN keeps' : keeps'[p] \subseteq DOMAIN keeps',
           ServiceAt(r, next[r], o)', Origins'
    PROVE  IInv'
<1>1. phase'[r] = "insert" /\ inFlight'[r] = {o} /\ outcome'[r] = outcome[r]
  BY DEF IInv, TypeOK
<1>2. \A q \in Runs \ {r} : Still(q)
  BY CallRecorded DEF Still, IInv, TypeOK
<1>3. Order' = Order /\ behaviour' = behaviour
  BY PlanStable
<1>4. TypeOK'
  <2>1. outside' \subseteq DOMAIN keeps'
    BY DEF IInv, TypeOK, KeepsGrow
  <2>2. called' \in [Runs -> Seq(Keys)]
    BY CallRecorded
  <2>3. inFlight' \in [Runs -> SUBSET Objects] /\ phase' \in [Runs -> Phases]
    BY DEF IInv, TypeOK, Phases
  <2>4. QED BY <2>1, <2>2, <2>3 DEF IInv, TypeOK
<1>5. Progress(r)'
  <2>1. next[r] \in 1 .. Len(Order) /\ StepKey(r) = Order[next[r]]
    BY AtStep
  <2>2. Progress(r) /\ Len(Order) \in Nat
    BY DEF IInv, PlanOK
  <2>3. Len(called'[r]) = next[r] /\ \A i \in 1 .. next[r] : called'[r][i] = Order[i]
    BY CallRecorded
  <2>4. QED BY <1>1, <1>3, <2>1, <2>2, <2>3 DEF Progress
<1>6. Filled(r)'
  BY <1>1, <1>3 DEF IInv, Filled
<1>7. Services(r)'
  <2>1. Services(r) /\ Len(values[r]) \in Nat
    BY DEF IInv, TypeOK
  <2>2. \A m \in 1 .. Len(values[r]) : ServiceAt(r, m, values[r][m])'
    BY <2>1, ServiceStable DEF Services
  <2>3. \A m \in 1 .. Len(values'[r]) : ServiceAt(r, m, values[r][m])'
    BY <2>2
  <2>4. ServiceAt(r, next[r], o)' /\ next'[r] = next[r]
    OBVIOUS
  <2>5. QED BY <1>1, <2>3, <2>4 DEF Services, ServiceAt
<1>8. Handed'
  BY HandedStable
<1>9. QED BY <1>2, <1>4, <1>5, <1>6, <1>7, <1>8, OneRunMoves

LEMMA ArgumentsFacts ==
    ASSUME IInv, NEW r \in Runs, phase[r] = "step", next[r] <= Len(Order)
    PROVE  /\ Arguments(r) \subseteq DOMAIN keeps
           /\ \A o \in Arguments(r) : o.origin \in {Supplied, r}
           /\ Arguments(r) \subseteq {values[r][i] : i \in 1 .. next[r] - 1}
<1>1. ASSUME NEW o \in Arguments(r)
      PROVE  \E i \in 1 .. next[r] - 1 : o = values[r][i] /\ ServiceAt(r, i, o)
  <2>1. PICK i \in 1 .. next[r] - 1 : o = values[r][i]
    BY AtStep
  <2>2. i \in 1 .. Len(values[r])
    BY AtStep
  <2>3. ServiceAt(r, i, o)
    BY <2>1, <2>2 DEF IInv, Services
  <2>4. QED BY <2>1, <2>3
<1>2. QED BY <1>1, ServiceFacts

(* A run never makes an object twice.                                      *)
LEMMA NewObject ==
    ASSUME IInv, NEW r \in Runs, phase[r] = "step", next[r] <= Len(Order)
    PROVE  Object(r, StepKey(r)) \in Objects \ DOMAIN keeps
<1> DEFINE new == Object(r, StepKey(r))
<1>1. /\ next[r] \in 1 .. Len(Order) /\ Len(Order) \in Nat
      /\ StepKey(r) = Order[next[r]] /\ StepKey(r) \in Keys
  <2>1. Len(Order) \in Nat
    BY DEF IInv, PlanOK
  <2>2. QED BY <2>1, AtStep
<1>2. new \in Objects /\ new.origin = r /\ new.key = StepKey(r) /\ r # Supplied
  BY <1>1, RunsAssumption DEF Object, Objects
<1>3. ASSUME new \in DOMAIN keeps
      PROVE  FALSE
  <2>1. PICK i \in 1 .. Len(called[r]) : StepKey(r) = Order[i]
    BY <1>2, <1>3 DEF IInv, Origins
  <2>2. Len(called[r]) = next[r] - 1
    BY DEF IInv, Progress
  <2>3. i \in 1 .. Len(Order) /\ i # next[r]
    BY <1>1, <2>1, <2>2
  <2>4. QED BY <1>1, <2>1, <2>3 DEF IInv, PlanOK, NoDuplicates
<1>4. QED BY <1>2, <1>3

LEMMA CallProviderStep ==
    ASSUME IInv, NEW r \in Runs, CallProvider(r)
    PROVE  IInv'
<1> DEFINE k == StepKey(r)
           n == next[r]
<1>1. /\ phase[r] = "step" /\ n <= Len(Order) /\ UNCHANGED plan
      /\ UNCHANGED <<next, index, values, outside>>
  BY DEF CallProvider
<1>2. /\ Provider(r)
      /\ called' = [called EXCEPT ![r] = Append(@, StepKey(r))]
  BY <1>1, AtStep DEF CallProvider
<1>3. Order' = Order /\ behaviour' = behaviour /\ SuppliedObjects' = SuppliedObjects
  BY <1>1, PlanStable
<1>4. n \in 1 .. Len(Order) /\ k = Order[n] /\ k \in Keys
  BY <1>1, AtStep
<1>5. CASE behaviour[k] \in {"failure", "defect"}
  <2>1. Fail(r, behaviour[k]) /\ UNCHANGED <<inFlight, keeps>>
    BY <1>2, <1>5 DEF Provider
  <2>2. QED BY <1>1, <1>2, <1>5, <2>1, ProviderFailed
<1>6. CASE behaviour[k] = "construct"
  <2>0. PICK new \in Objects \ DOMAIN keeps : new = Object(r, k)
    BY <1>1, NewObject
  <2>1. PICK kept \in {{}, Arguments(r)} :
           /\ inFlight' = [inFlight EXCEPT ![r] = {new}]
           /\ phase' = [phase EXCEPT ![r] = "insert"]
           /\ outcome' = outcome
           /\ keeps' = With(keeps, new, kept)
    BY <1>2, <1>6, <2>0 DEF Provider
  <2>2. new \in Objects \ DOMAIN keeps
    BY <2>0
  <2>3. /\ DOMAIN keeps' = {new} \cup DOMAIN keeps
        /\ keeps'[new] = kept
        /\ \A o \in DOMAIN keeps : keeps'[o] = keeps[o]
    BY <2>1, <2>2 DEF With
  <2>4. /\ kept \subseteq DOMAIN keeps
        /\ \A o \in kept : o.origin \in {Supplied, r}
        /\ kept \subseteq {values[r][i] : i \in 1 .. n - 1}
    BY <1>1, <2>1, ArgumentsFacts
  <2>5. KeepsGrow /\ DOMAIN keeps' \subseteq Objects
    BY <2>2, <2>3 DEF KeepsGrow, IInv, TypeOK
  <2>6. \A p \in DOMAIN keeps' : keeps'[p] \subseteq DOMAIN keeps'
    BY <2>3, <2>4 DEF IInv, TypeOK
  <2>7. ServiceAt(r, next[r], new)'
    <3>1. values'[r] = values[r] /\ next'[r] = n
      BY <1>1
    <3>2. \E i \in 1 .. n : new = Object(r, Order[i])
      BY <1>4, <2>0
    <3>3. /\ behaviour'[Order'[n]] = "construct"
          /\ new = Object(r, Order'[n])
          /\ new \in DOMAIN keeps'
          /\ keeps'[new] \subseteq {values'[r][i] : i \in 1 .. n - 1}
      BY <1>3, <1>4, <1>6, <2>0, <2>3, <2>4, <3>1
    <3>4. \E i \in 1 .. n : new = Object(r, Order'[i])
      BY <1>3, <3>2
    <3>5. QED BY <1>4, <3>1, <3>3, <3>4 DEF ServiceAt
  <2>8. Origins'
    <3>1. ASSUME NEW o \in DOMAIN keeps
          PROVE  /\ o.origin = Supplied => keeps'[o] = {}
                 /\ o.origin # Supplied =>
                       /\ \E i \in 1 .. Len(called'[o.origin]) : o.key = Order'[i]
                       /\ behaviour'[o.key] = "construct"
                       /\ \A p \in keeps'[o] : p.origin \in {Supplied, o.origin}
      <4>1. keeps'[o] = keeps[o]
        BY <2>3
      <4>2. \A q \in Runs : /\ Len(called[q]) \in Nat /\ Len(called'[q]) \in Nat
                            /\ Len(called[q]) <= Len(called'[q])
        BY <1>1, <1>2, CallRecorded
      <4>3. QED BY <1>1, <4>1, <4>2, OriginsGrow
    <3>2. /\ new.origin = r /\ new.key = k /\ r # Supplied
          /\ \E i \in 1 .. Len(called'[r]) : k = Order'[i]
          /\ behaviour'[k] = "construct"
          /\ \A p \in keeps'[new] : p.origin \in {Supplied, r}
      <4>1. Len(called'[r]) = n
        BY <1>1, <1>2, CallRecorded
      <4>2. n \in 1 .. Len(called'[r]) /\ k = Order'[n]
        BY <1>3, <1>4, <4>1
      <4>3. QED BY <1>3, <1>6, <2>0, <2>3, <2>4, <4>2, RunsAssumption DEF Object
    <3>3. QED BY <2>3, <3>1, <3>2 DEF Origins
  <2>9. QED BY <1>1, <1>2, <2>1, <2>2, <2>5, <2>6, <2>7, <2>8, ProviderDelivered
<1>7. ASSUME NEW o \in DOMAIN keeps,
             inFlight' = [inFlight EXCEPT ![r] = {o}],
             phase' = [phase EXCEPT ![r] = "insert"],
             outcome' = outcome, keeps' = keeps,
             ServiceAt(r, n, o)
      PROVE  IInv'
  <2>1. KeepsGrow /\ o \in Objects /\ DOMAIN keeps' \subseteq Objects
    BY <1>7 DEF KeepsGrow, IInv, TypeOK
  <2>2. \A p \in DOMAIN keeps' : keeps'[p] \subseteq DOMAIN keeps'
    BY <1>7 DEF IInv, TypeOK
  <2>3. n \in Nat /\ \A i \in 1 .. n - 1 : values'[r][i] = values[r][i]
    BY <1>1, <1>4
  <2>4. ServiceAt(r, n, o)'
    BY <1>1, <1>7, <2>1, <2>3, ServiceStable
  <2>5. ServiceAt(r, next[r], o)'
    BY <1>1, <2>4 DEF ServiceAt
  <2>6. Origins'
    <3>1. \A q \in Runs : /\ Len(called[q]) \in Nat /\ Len(called'[q]) \in Nat
                          /\ Len(called[q]) <= Len(called'[q])
      BY <1>1, <1>2, CallRecorded
    <3>2. QED BY <1>1, <1>7, <3>1, OriginsGrow DEF Origins
  <2>7. QED BY <1>1, <1>2, <1>7, <2>1, <2>2, <2>5, <2>6, ProviderDelivered
<1>8. CASE behaviour[k] = "alias"
  <2>1. PICK o \in Arguments(r) :
           /\ inFlight' = [inFlight EXCEPT ![r] = {o}]
           /\ phase' = [phase EXCEPT ![r] = "insert"]
           /\ outcome' = outcome /\ keeps' = keeps
    BY <1>2, <1>8 DEF Provider
  <2>2. PICK d \in Keys : DependsOn(k) = {d}
    BY <1>4, <1>8 DEF IInv, PlanOK
  <2>3. PICK i \in 1 .. n - 1 : Order[i] = d /\ o = values[r][i]
    BY <1>1, <2>2, AtStep
  <2>4. i \in 1 .. Len(values[r]) /\ i \in 1 .. n /\ i \in 1 .. Len(Order) /\ n \in Nat
    <3>1. Len(values[r]) = n - 1
      BY <1>1, AtStep
    <3>2. Len(Order) \in Nat
      BY DEF IInv, PlanOK
    <3>3. QED BY <1>4, <3>1, <3>2
  <2>5. ServiceAt(r, i, o)
    BY <2>3, <2>4 DEF IInv, Services
  <2>6. o.origin = Supplied \/ \E j \in 1 .. n : o = Object(r, Order[j])
    <3>1. \A j \in 1 .. i : j \in 1 .. n
      BY <2>4
    <3>2. QED BY <2>5, <3>1 DEF ServiceAt
  <2>7. \A j \in 1 .. n - 1 : Order[j] \in DependsOn(k) => o = values[r][j]
    <3>1. ASSUME NEW j \in 1 .. n - 1, Order[j] = d
          PROVE  j = i
      <4>1. j \in 1 .. Len(Order) /\ Order[j] = Order[i]
        BY <1>4, <2>3, <2>4, <3>1 DEF IInv, PlanOK
      <4>2. QED BY <2>4, <4>1 DEF IInv, PlanOK, NoDuplicates
    <3>2. QED BY <2>2, <2>3, <3>1
  <2>8. ServiceAt(r, n, o)
    BY <1>4, <1>8, <2>5, <2>6, <2>7, ServiceFacts DEF ServiceAt
  <2>9. o \in DOMAIN keeps
    BY <2>5, ServiceFacts
  <2>10. QED BY <1>7, <2>1, <2>8, <2>9
<1>9. CASE behaviour[k] = "instance"
  <2>0. PICK o : o = Object(Supplied, k)
    OBVIOUS
  <2>1. /\ inFlight' = [inFlight EXCEPT ![r] = {o}]
        /\ phase' = [phase EXCEPT ![r] = "insert"]
        /\ outcome' = outcome /\ keeps' = keeps
    BY <1>2, <1>9, <2>0 DEF Provider
  <2>2. o \in DOMAIN keeps /\ o.origin = Supplied
    BY <1>4, <1>9, <2>0 DEF IInv, SuppliedObjects, Object
  <2>3. ServiceAt(r, n, o)
    BY <1>4, <1>9, <2>0, <2>2 DEF ServiceAt
  <2>4. QED BY <1>7, <2>1, <2>2, <2>3
<1>10. QED BY <1>2, <1>5, <1>6, <1>8, <1>9 DEF Provider

LEMMA SequenceOfOne ==
    ASSUME NEW o
    PROVE  SetToSeq({o}) = <<o>>
<1>1. Cardinality({o}) = 1
  BY FS_Singleton
<1>2. <<o>> \in [1 .. 1 -> {o}] /\ IsInjective(<<o>>)
  BY DEF IsInjective
<1>3. \E f \in [1 .. Cardinality({o}) -> {o}] : IsInjective(f)
  BY <1>1, <1>2
<1>4. SetToSeq({o}) \in [1 .. 1 -> {o}]
  BY <1>1, <1>3 DEF SetToSeq
<1>5. QED BY <1>4

LEMMA OneMore ==
    ASSUME NEW S, NEW s \in Seq(S), NEW e \in S
    PROVE  /\ s \o <<e>> \in Seq(S)
           /\ Len(s \o <<e>>) = Len(s) + 1
           /\ \A i \in 1 .. Len(s) : (s \o <<e>>)[i] = s[i]
           /\ (s \o <<e>>)[Len(s) + 1] = e
<1>1. s \o <<e>> = Append(s, e)
  OBVIOUS
<1>2. QED BY <1>1

LEMMA InsertStep ==
    ASSUME IInv, NEW r \in Runs, Insert(r)
    PROVE  IInv'
<1>0. PICK n : n = next[r]
  OBVIOUS
<1>1. phase[r] = "insert" /\ UNCHANGED plan /\ UNCHANGED <<called, keeps, outside>>
  BY DEF Insert
<1>2. Len(called[r]) = n /\ n <= Len(Order)
  BY <1>0, <1>1 DEF IInv, Progress
<1>3. /\ n \in 1 .. Len(Order) /\ StepKey(r) = Order[n] /\ StepKey(r) \notin DOMAIN index[r]
      /\ Len(values[r]) = n - 1
  BY <1>0, <1>1, <1>2, AtStep
<1>4. PICK o \in Objects : inFlight[r] = {o} /\ ServiceAt(r, n, o)
  BY <1>0, <1>1 DEF IInv, Services
<1>5. /\ index' = [index EXCEPT ![r] = With(@, StepKey(r), Len(values[r]) + 1)]
      /\ values' = [values EXCEPT ![r] = Stored(r)]
      /\ next' = [next EXCEPT ![r] = @ + 1]
      /\ phase' = [phase EXCEPT ![r] = "step"]
      /\ outcome' = outcome
      /\ inFlight' = [inFlight EXCEPT ![r] = {}]
  BY <1>3 DEF Insert
<1>6. Stored(r) = values[r] \o <<o>>
  BY <1>4, SequenceOfOne DEF Stored
<1>7. values[r] \in Seq(Objects) /\ DOMAIN index = Runs /\ Len(Order) \in Nat
  BY DEF IInv, TypeOK, PlanOK
<1>8. /\ values'[r] \in Seq(Objects)
      /\ Len(values'[r]) = n
      /\ \A i \in 1 .. n - 1 : values'[r][i] = values[r][i]
      /\ values'[r][n] = o
  <2>1. values'[r] = values[r] \o <<o>>
    BY <1>5, <1>6 DEF IInv, TypeOK
  <2>2. /\ values'[r] \in Seq(Objects)
        /\ Len(values'[r]) = Len(values[r]) + 1
        /\ \A i \in 1 .. Len(values[r]) : values'[r][i] = values[r][i]
        /\ values'[r][Len(values[r]) + 1] = o
    BY <1>7, <2>1, OneMore
  <2>3. Len(values[r]) + 1 = n /\ Len(values[r]) = n - 1
    BY <1>3
  <2>4. QED BY <2>2, <2>3
<1>9. /\ index'[r] = With(index[r], StepKey(r), n)
      /\ next'[r] = n + 1 /\ phase'[r] = "step" /\ inFlight'[r] = {}
      /\ outcome'[r] = outcome[r] /\ called'[r] = called[r]
  BY <1>0, <1>1, <1>3, <1>5 DEF IInv, TypeOK
<1>10. KeepsGrow /\ \A q \in Runs \ {r} : Still(q)
  BY <1>1, <1>5 DEF KeepsGrow, Still, IInv, TypeOK
<1>11. Order' = Order /\ behaviour' = behaviour
  BY <1>1, PlanStable
<1>12. TypeOK'
  <2>1. values' \in [Runs -> Seq(Objects)]
    BY <1>5, <1>6, <1>7, <1>8 DEF IInv, TypeOK
  <2>2. /\ phase' \in [Runs -> Phases] /\ next' \in [Runs -> Nat]
        /\ inFlight' \in [Runs -> SUBSET Objects] /\ DOMAIN index' = Runs
    BY <1>0, <1>3, <1>5, <1>7 DEF IInv, TypeOK, Phases
  <2>3. QED BY <1>1, <1>5, <2>1, <2>2 DEF IInv, TypeOK
<1>13. Progress(r)'
  <2>1. Progress(r)
    BY DEF IInv
  <2>2. QED BY <1>0, <1>1, <1>2, <1>3, <1>7, <1>9, <1>11, <2>1 DEF Progress
<1>14. Filled(r)'
  <2>1. /\ DOMAIN index[r] = {Order[i] : i \in 1 .. n - 1}
        /\ \A i \in 1 .. n - 1 : index[r][Order[i]] = i
    BY <1>0, <1>1 DEF IInv, Filled
  <2>2. DOMAIN index'[r] = {Order[i] : i \in 1 .. n}
    BY <1>3, <1>9, <2>1 DEF With
  <2>3. \A i \in 1 .. n : index'[r][Order[i]] = i
    <3>1. index'[r][Order[n]] = n
      BY <1>3, <1>9 DEF With
    <3>2. ASSUME NEW i \in 1 .. n - 1
          PROVE  index'[r][Order[i]] = i
      BY <1>3, <1>9, <2>1, <3>2 DEF With
    <3>3. QED BY <1>3, <3>1, <3>2
  <2>4. /\ next'[r] - 1 = n /\ phase'[r] = "step"
        /\ Len(values'[r]) = next'[r] - 1 /\ Len(values'[r]) <= next'[r] - 1
    BY <1>3, <1>8, <1>9
  <2>5. /\ DOMAIN index'[r] = {Order'[i] : i \in 1 .. next'[r] - 1}
        /\ \A i \in 1 .. next'[r] - 1 : index'[r][Order'[i]] = i
    BY <1>11, <2>2, <2>3, <2>4
  <2>6. QED BY <2>4, <2>5 DEF Filled
<1>15. Services(r)'
  <2>1. ASSUME NEW m \in 1 .. n - 1
        PROVE  ServiceAt(r, m, values[r][m])'
    <3>1. ServiceAt(r, m, values[r][m])
      BY <1>3 DEF IInv, Services
    <3>2. m \in Nat /\ \A i \in 1 .. m - 1 : values'[r][i] = values[r][i]
      BY <1>3, <1>8
    <3>3. PICK p : p = values[r][m]
      OBVIOUS
    <3>4. ServiceAt(r, m, p)'
      BY <1>1, <1>10, <3>1, <3>2, <3>3, ServiceStable
    <3>5. p = values'[r][m]
      BY <1>8, <3>3
    <3>6. QED BY <3>4, <3>5 DEF ServiceAt
  <2>2. ServiceAt(r, n, o)'
    BY <1>1, <1>3, <1>4, <1>8, <1>10, ServiceStable
  <2>3. QED BY <1>3, <1>8, <1>9, <2>1, <2>2 DEF Services, ServiceAt
<1>16. Origins' /\ Handed'
  BY <1>1, <1>5, OriginsStable, HandedStable
<1>17. QED BY <1>1, <1>10, <1>12, <1>13, <1>14, <1>15, <1>16, OneRunMoves

-----------------------------------------------------------------------------
(* The invariant holds.                                                    *)

(* An alias of a request has the one dependency it forwards to.            *)
LEMMA AliasHasSource ==
    ASSUME ModuleType(module), NEW k \in Keys, Resolvable(k), Possible(k, "alias")
    PROVE  \E d \in Keys : DependsOn(k) = {d}
<1> DEFINE deps == Dependencies(k)
<1>1. ActiveBindings(k) # {} /\ Cardinality(DOMAIN deps) = 1
  BY DEF Possible
<1>2. OnlyBinding(k) \in DOMAIN module.bindings
  BY <1>1 DEF OnlyBinding, ActiveBindings
<1>3. deps \in Seq(Keys)
  <2>1. module.bindings[OnlyBinding(k)] \in Bindings
    BY <1>2 DEF ModuleType
  <2>2. module.bindings[OnlyBinding(k)].deps \in Seq(Keys)
    BY <2>1 DEF Bindings
  <2>3. QED BY <1>1, <2>2 DEF Dependencies
<1>4. Len(deps) = 1
  <2>1. DOMAIN deps = 1 .. Len(deps) /\ Len(deps) \in Nat
    BY <1>3
  <2>2. \A n \in Nat : Cardinality(1 .. n) = n
    BY FS_Interval
  <2>3. QED BY <1>1, <2>1, <2>2
<1> HIDE DEF deps
<1>5. deps[1] \in Keys /\ {deps[p] : p \in DOMAIN deps} = {deps[1]}
  BY <1>3, <1>4
<1>6. DependsOn(k) = {deps[1]}
  BY <1>5 DEF DependsOn, deps
<1>7. QED BY <1>5, <1>6

LEMMA InitOK ==
    ASSUME Init
    PROVE  IInv
<1>1. Order \in Seq(Keys)
  <2>1. Reachable \in SUBSET Keys
    BY DEF Reachable
  <2>2. Cardinality(Reachable) \in Nat
    BY <2>1, FS_Subset, FS_CardinalityType, RunsAssumption
  <2>3. Order \in [1 .. Cardinality(Reachable) -> Reachable]
    BY DEF Init, Order, SetToSeqs
  <2>4. QED BY <2>1, <2>2, <2>3
<1>2. ExecutablePlan(Order)
  BY DEF Init, Allowed, Order
<1>3. PlanOK
  <2>1. ASSUME NEW i \in 1 .. Len(Order), behaviour[Order[i]] = "alias"
        PROVE  \E d \in Keys : DependsOn(Order[i]) = {d}
    <3>1. Order[i] \in Reachable /\ Resolvable(Order[i]) /\ Order[i] \in Keys
      BY <1>1, <1>2 DEF ExecutablePlan, Exactly
    <3>2. Possible(Order[i], "alias")
      BY <2>1, <3>1 DEF Init
    <3>3. ModuleType(module)
      BY RequestAssumption DEF Init, RequestInit
    <3>4. QED BY <3>1, <3>2, <3>3, AliasHasSource
  <2>2. QED BY <1>1, <1>2, <2>1 DEF PlanOK, ExecutablePlan
<1>4. SuppliedObjects \subseteq Objects /\ \A o \in SuppliedObjects : o.origin = Supplied
  BY DEF SuppliedObjects, Objects, Object
<1>5. /\ DOMAIN keeps = SuppliedObjects /\ outside = SuppliedObjects
      /\ \A o \in SuppliedObjects : keeps[o] = {}
  BY DEF Init
<1>6. TypeOK
  BY <1>4, <1>5 DEF Init, TypeOK, Phases
<1>7. ASSUME NEW r \in Runs
      PROVE  Progress(r) /\ Filled(r) /\ Services(r)
  <2>1. /\ phase[r] = "idle" /\ next[r] = 1 /\ called[r] = <<>> /\ inFlight[r] = {}
        /\ index[r] = <<>> /\ values[r] = <<>> /\ outcome[r] = "none"
    BY DEF Init
  <2>2. Len(Order) \in Nat /\ Len(<<>>) = 0 /\ DOMAIN <<>> = {}
    BY <1>1
  <2>3. Progress(r)
    BY <2>1, <2>2 DEF Progress
  <2>4. Filled(r)
    BY <2>1, <2>2 DEF Filled
  <2>5. Services(r)
    BY <2>1, <2>2 DEF Services
  <2>6. QED BY <2>3, <2>4, <2>5
<1>8. Origins /\ Handed
  BY <1>4, <1>5 DEF Origins, Handed
<1>9. QED BY <1>3, <1>5, <1>6, <1>7, <1>8 DEF IInv

LEMMA NextOK ==
    ASSUME IInv, [Next]_vars
    PROVE  IInv'
<1>1. ASSUME NEW r \in Runs, Start(r) \/ Execute(r) \/ Release(r) \/ DropGraph(r)
      PROVE  IInv'
  BY <1>1, StartStep, CallProviderStep, InsertStep, FinishStep, PopBackStep, ReleasedStep,
     DropGraphStep DEF Execute, Release
<1>2. ASSUME NEW r \in Runs, NEW k \in Keys, Get(r, k)
      PROVE  IInv'
  BY <1>2, GetStep
<1>3. ASSUME NEW o \in Objects, Forget(o)
      PROVE  IInv'
  BY <1>3, ForgetStep
<1>4. CASE UNCHANGED vars
  <2>1. UNCHANGED plan /\ KeepsGrow /\ \A r \in Runs : Still(r)
    BY <1>4 DEF vars, KeepsGrow, Still
  <2>2. TypeOK'
    BY <1>4 DEF vars, IInv, TypeOK
  <2>3. Origins' /\ Handed'
    BY <1>4, <2>1, OriginsStable, HandedStable DEF vars, Still
  <2>4. \A r \in Runs : Progress(r)' /\ Filled(r)' /\ Services(r)'
    BY <2>1, StillStable
  <2>5. PlanOK' /\ SuppliedObjects' = SuppliedObjects
    BY <2>1, PlanStable DEF IInv
  <2>6. QED BY <1>4, <2>2, <2>3, <2>4, <2>5 DEF IInv, vars
<1>5. QED BY <1>1, <1>2, <1>3, <1>4 DEF Next

THEOREM Invariance ==
    Spec => []IInv
<1>1. Init => IInv
  BY InitOK
<1>2. IInv /\ [Next]_vars => IInv'
  BY NextOK
<1>3. QED BY <1>1, <1>2, PTL DEF Spec

-----------------------------------------------------------------------------
(* Calls and answers.                                                      *)

(* The bookkeeping of produce, lookup and insert never fails (di.hpp:130-  *)
(* 150): a run defects only if the provider it called last does.           *)
THEOREM DefectsAreTheProviders ==
    Spec => []OnlyProvidersDefect
<1>1. IInv => OnlyProvidersDefect
  <2> SUFFICES ASSUME IInv, NEW r \in Runs, outcome[r] = "defect"
               PROVE  called[r] # <<>> /\ behaviour[Last(called[r])] = "defect"
    BY DEF OnlyProvidersDefect
  <2>1. called[r] \in Seq(Keys) /\ Len(called[r]) \in Nat
    BY DEF IInv, TypeOK
  <2>2. Len(called[r]) > 0 /\ behaviour[Order[Len(called[r])]] = "defect"
    BY DEF IInv, Progress
  <2>3. called[r][Len(called[r])] = Order[Len(called[r])]
    BY <2>1, <2>2 DEF IInv, Progress
  <2>4. QED BY <2>1, <2>2, <2>3 DEF Last
<1>2. QED BY <1>1, Invariance, PTL

LEMMA FirstPart ==
    ASSUME IInv, NEW n \in Nat, n <= Len(Order)
    PROVE  Elements(SubSeq(Order, 1, n)) = {Order[i] : i \in 1 .. n}
<1>1. Order \in Seq(Keys) /\ Len(Order) \in Nat
  BY DEF IInv, PlanOK
<1>2. DOMAIN SubSeq(Order, 1, n) = 1 .. n /\ \A i \in 1 .. n : SubSeq(Order, 1, n)[i] = Order[i]
  BY <1>1
<1>3. QED BY <1>2 DEF Elements

(* The flat_map chain of produce (di.hpp:299-325): providers are called in *)
(* the order of the plan, with all they depend on built before.            *)
THEOREM CallsFollowThePlan ==
    Spec => []CalledInOrder
<1>1. IInv => CalledInOrder
  <2> SUFFICES ASSUME IInv, NEW r \in Runs
               PROVE  /\ IsPrefix(called[r], Order)
                      /\ outcome[r] = "success" => called[r] = Order
                      /\ \A i \in DOMAIN called[r] :
                            DependsOn(called[r][i]) \subseteq Elements(SubSeq(Order, 1, i - 1))
    BY DEF CalledInOrder
  <2>1. /\ called[r] \in Seq(Keys) /\ Order \in Seq(Keys)
        /\ Len(called[r]) \in Nat /\ Len(Order) \in Nat
        /\ DOMAIN called[r] = 1 .. Len(called[r])
    BY DEF IInv, TypeOK, PlanOK
  <2>2. /\ Len(called[r]) <= Len(Order)
        /\ \A i \in 1 .. Len(called[r]) : called[r][i] = Order[i]
        /\ outcome[r] = "success" => Len(called[r]) = Len(Order)
    BY DEF IInv, Progress
  <2>3. IsPrefix(called[r], Order)
    BY <2>1, <2>2 DEF IsPrefix
  <2>4. outcome[r] = "success" => called[r] = Order
    BY <2>1, <2>2
  <2>5. ASSUME NEW i \in DOMAIN called[r]
        PROVE  DependsOn(called[r][i]) \subseteq Elements(SubSeq(Order, 1, i - 1))
    <3>1. i \in 1 .. Len(Order) /\ i - 1 \in Nat /\ i - 1 <= Len(Order) /\ called[r][i] = Order[i]
      BY <2>1, <2>2
    <3>2. \A d \in DependsOn(Order[i]) : \E j \in 1 .. i - 1 : Order[j] = d
      BY <3>1 DEF IInv, PlanOK, DependenciesPrecede
    <3>3. QED BY <3>1, <3>2, FirstPart
  <2>6. QED BY <2>3, <2>4, <2>5
<1>2. QED BY <1>1, Invariance, PTL

(* lookup finds for every step executed the service of that step, and an   *)
(* alias is the very object of its source (di.hpp:136-141, 419-430).       *)
THEOREM GraphsServeTheirPlan ==
    Spec => []GraphServesPlan
<1>1. IInv => GraphServesPlan
  <2> SUFFICES ASSUME IInv, NEW r \in Runs, phase[r] \in {"step", "insert", "produced"}
               PROVE  /\ DOMAIN index[r] = Elements(SubSeq(Order, 1, next[r] - 1))
                      /\ \A k \in DOMAIN index[r] :
                            LET service == values[r][index[r][k]]
                            IN  CASE behaviour[k] = "alias" ->
                                        \A d \in DependsOn(k) : service = values[r][index[r][d]]
                                  [] behaviour[k] = "instance" -> service = Object(Supplied, k)
                                  [] OTHER -> service = Object(r, k)
    BY DEF GraphServesPlan
  <2>1. PICK n \in Nat : n = next[r] - 1 /\ n <= Len(Order)
    BY DEF IInv, Progress, TypeOK, PlanOK
  <2>2. /\ Len(values[r]) = n
        /\ DOMAIN index[r] = {Order[i] : i \in 1 .. n}
        /\ \A i \in 1 .. n : index[r][Order[i]] = i
    BY <2>1 DEF IInv, Filled
  <2>3. DOMAIN index[r] = Elements(SubSeq(Order, 1, next[r] - 1))
    BY <2>1, <2>2, FirstPart
  <2>4. ASSUME NEW i \in 1 .. n
        PROVE  /\ behaviour[Order[i]] = "alias" =>
                     \A d \in DependsOn(Order[i]) : values[r][i] = values[r][index[r][d]]
               /\ behaviour[Order[i]] = "instance" => values[r][i] = Object(Supplied, Order[i])
               /\ behaviour[Order[i]] \notin {"alias", "instance"} => values[r][i] = Object(r, Order[i])
    <3>1. ServiceAt(r, i, values[r][i])
      BY <2>2 DEF IInv, Services
    <3>2. ASSUME behaviour[Order[i]] = "alias", NEW d \in DependsOn(Order[i])
          PROVE  values[r][i] = values[r][index[r][d]]
      <4>1. i \in 1 .. Len(Order)
        BY <2>1 DEF IInv, PlanOK
      <4>2. PICK j \in 1 .. i - 1 : Order[j] = d
        BY <4>1 DEF IInv, PlanOK, DependenciesPrecede
      <4>3. index[r][d] = j
        BY <2>1, <2>2, <4>2
      <4>4. values[r][i] = values[r][j]
        BY <3>1, <3>2, <4>2 DEF ServiceAt
      <4>5. QED BY <4>3, <4>4
    <3>3. QED BY <3>1, <3>2 DEF ServiceAt
  <2>5. ASSUME NEW k \in DOMAIN index[r]
        PROVE  LET service == values[r][index[r][k]]
               IN  CASE behaviour[k] = "alias" ->
                           \A d \in DependsOn(k) : service = values[r][index[r][d]]
                     [] behaviour[k] = "instance" -> service = Object(Supplied, k)
                     [] OTHER -> service = Object(r, k)
    <3>1. PICK i \in 1 .. n : k = Order[i] /\ index[r][k] = i
      BY <2>2
    <3>2. QED BY <2>4, <3>1
  <2>6. QED BY <2>3, <2>5
<1>2. QED BY <1>1, Invariance, PTL

-----------------------------------------------------------------------------
(* The objects that owners lead to.                                        *)

LEMMA LeastKept ==
    ASSUME NEW owners, NEW S \in SUBSET DOMAIN keeps,
           owners \subseteq S, \A o \in S : keeps[o] \subseteq S
    PROVE  LedToBy(owners) \subseteq S
BY DEF LedToBy

LEMMA LedToByKept ==
    ASSUME NEW owners \in SUBSET DOMAIN keeps, \A o \in DOMAIN keeps : keeps[o] \subseteq DOMAIN keeps
    PROVE  /\ owners \subseteq LedToBy(owners)
           /\ LedToBy(owners) \subseteq DOMAIN keeps
           /\ \A o \in LedToBy(owners) : keeps[o] \subseteq LedToBy(owners)
BY DEF LedToBy

Owners == outside \cup UNION {inFlight[r] \cup Elements(values[r]) : r \in Runs}

(* Whose objects a run has.                                                *)
LEMMA OwnedByRun ==
    ASSUME IInv, NEW r \in Runs, NEW o \in inFlight[r] \cup Elements(values[r])
    PROVE  o \in DOMAIN keeps /\ o.origin \in {Supplied, r}
<1>1. CASE o \in inFlight[r]
  <2>1. PICK p \in Objects : inFlight[r] = {p} /\ ServiceAt(r, next[r], p)
    BY <1>1 DEF IInv, Services
  <2>2. QED BY <1>1, <2>1, ServiceFacts
<1>2. CASE o \in Elements(values[r])
  <2>1. PICK m \in 1 .. Len(values[r]) : o = values[r][m]
    BY <1>2 DEF Elements, IInv, TypeOK
  <2>2. ServiceAt(r, m, o)
    BY <2>1 DEF IInv, Services
  <2>3. QED BY <2>2, ServiceFacts
<1>3. QED BY <1>1, <1>2

LEMMA AliveKept ==
    IInv => /\ Alive \subseteq DOMAIN keeps
            /\ Owners \subseteq Alive
            /\ \A o \in Alive : keeps[o] \subseteq Alive
<1> SUFFICES ASSUME IInv
             PROVE  /\ Alive \subseteq DOMAIN keeps
                    /\ Owners \subseteq Alive
                    /\ \A o \in Alive : keeps[o] \subseteq Alive
  OBVIOUS
<1>1. Owners \subseteq DOMAIN keeps
  BY OwnedByRun DEF Owners, IInv, TypeOK
<1>2. Alive = LedToBy(Owners)
  BY DEF Alive, Owners
<1>3. QED BY <1>1, <1>2, LedToByKept DEF IInv, TypeOK

-----------------------------------------------------------------------------
(* Release.                                                                *)

(* A failed run leaves no object of its own alive (di.hpp:126-128, 312).   *)
THEOREM FailureRollsBack ==
    Spec => []RollbackIsComplete
<1>1. IInv => RollbackIsComplete
  <2> SUFFICES ASSUME IInv, NEW r \in Runs, phase[r] = "released", outcome[r] # "success"
               PROVE  \A o \in Alive : o.origin # r
    BY DEF RollbackIsComplete
  <2> DEFINE S == {o \in DOMAIN keeps : o.origin # r}
  <2>1. r # Supplied
    BY RunsAssumption
  <2>2. outside \subseteq S
    BY <2>1 DEF IInv, TypeOK, Handed
  <2>3. ASSUME NEW q \in Runs
        PROVE  inFlight[q] \cup Elements(values[q]) \subseteq S
    <3>1. CASE q = r
      BY <3>1 DEF IInv, Filled, Services, Elements
    <3>2. CASE q # r
      BY <2>1, <3>2, OwnedByRun
    <3>3. QED BY <3>1, <3>2
  <2>4. Owners \subseteq S
    BY <2>2, <2>3 DEF Owners
  <2>5. \A o \in S : keeps[o] \subseteq S
    BY <2>1 DEF IInv, TypeOK, Origins
  <2>6. Alive = LedToBy(Owners)
    BY DEF Alive, Owners
  <2>7. QED BY <2>4, <2>5, <2>6, LeastKept
<1>2. QED BY <1>1, Invariance, PTL

(* The position up to which a run holds its services itself.               *)
Held(r) == IF phase[r] = "insert" THEN next[r] ELSE Len(values[r])

(* An object that a run has constructed, at a position up to there, is     *)
(* held by the run, and so is all that the object keeps.                   *)
LEMMA HeldByRun ==
    ASSUME IInv, NEW r \in Runs, NEW i \in 1 .. Held(r), Object(r, Order[i]) \in DOMAIN keeps
    PROVE  /\ Object(r, Order[i]) \in Owners
           /\ \A p \in keeps[Object(r, Order[i])] :
                 p.origin # r \/ \E j \in 1 .. Held(r) : p = Object(r, Order[j])
<1>0. PICK o : o = Object(r, Order[i])
  OBVIOUS
<1>1. o.origin = r /\ o.key = Order[i] /\ r # Supplied
  BY <1>0, RunsAssumption DEF Object
<1>2. behaviour[Order[i]] = "construct"
  BY <1>0, <1>1 DEF IInv, Origins
<1>3. /\ Len(values[r]) \in Nat /\ next[r] \in Nat
      /\ phase[r] = "insert" => Len(values[r]) = next[r] - 1
  BY DEF IInv, TypeOK, Filled
<1>4. \A j \in 1 .. i - 1 : ServiceAt(r, j, values[r][j])
  BY <1>3 DEF IInv, Services, Held
<1>5. PICK p \in inFlight[r] \cup Elements(values[r]) : ServiceAt(r, i, p)
  <2>1. CASE i \in 1 .. Len(values[r])
    <3>1. ServiceAt(r, i, values[r][i])
      BY <2>1 DEF IInv, Services
    <3>2. values[r][i] \in Elements(values[r])
      BY <2>1 DEF Elements, IInv, TypeOK
    <3>3. QED BY <3>1, <3>2
  <2>2. CASE phase[r] = "insert" /\ i = next[r]
    BY <2>2 DEF IInv, Services
  <2>3. QED BY <1>3, <2>1, <2>2 DEF Held
<1>6. p = o /\ keeps[o] \subseteq {values[r][j] : j \in 1 .. i - 1}
  BY <1>0, <1>2, <1>5 DEF ServiceAt
<1>7. o \in Owners
  BY <1>5, <1>6 DEF Owners
<1>8. ASSUME NEW x \in keeps[o]
      PROVE  x.origin # r \/ \E j \in 1 .. Held(r) : x = Object(r, Order[j])
  <2>1. PICK j \in 1 .. i - 1 : x = values[r][j]
    BY <1>6
  <2>2. x.origin = Supplied \/ \E l \in 1 .. j : x = Object(r, Order[l])
    BY <1>4, <2>1 DEF ServiceAt
  <2>3. Held(r) \in Nat /\ \A l \in 1 .. j : l \in 1 .. Held(r)
    BY <1>3 DEF Held
  <2>4. QED BY <1>1, <2>2, <2>3
<1>9. QED BY <1>0, <1>7, <1>8

(* What is alive is kept from outside, belongs to another run, or is       *)
(* still held by the run that constructed it.                              *)
LEMMA AliveOfRun ==
    ASSUME IInv, NEW r \in Runs, NEW o \in Alive, o \notin LedToBy(outside), o.origin = r
    PROVE  \E i \in 1 .. Held(r) : o = Object(r, Order[i])
<1> DEFINE Mine == {x \in DOMAIN keeps : \E i \in 1 .. Held(r) : x = Object(r, Order[i])}
           Others == {x \in DOMAIN keeps : x.origin # r}
           S == LedToBy(outside) \cup Others \cup Mine
<1>1. r # Supplied
  BY RunsAssumption
<1>2. /\ outside \subseteq LedToBy(outside) /\ LedToBy(outside) \subseteq DOMAIN keeps
      /\ \A x \in LedToBy(outside) : keeps[x] \subseteq LedToBy(outside)
  BY LedToByKept DEF IInv, TypeOK
<1>3. ASSUME NEW q \in Runs
      PROVE  inFlight[q] \cup Elements(values[q]) \subseteq S
  <2>1. CASE q # r
    BY <1>1, <2>1, OwnedByRun
  <2>2. CASE q = r
    <3>1. ASSUME NEW x \in inFlight[r] \cup Elements(values[r]), x.origin = r
          PROVE  \E i \in 1 .. Held(r) : x = Object(r, Order[i])
      <4>1. PICK m \in 1 .. Held(r) : ServiceAt(r, m, x)
        <5>1. CASE x \in inFlight[r]
          <6>1. phase[r] = "insert" /\ ServiceAt(r, next[r], x)
            BY <5>1 DEF IInv, Services
          <6>2. next[r] \in 1 .. Held(r)
            BY <6>1 DEF Held, IInv, Progress
          <6>3. QED BY <6>1, <6>2
        <5>2. CASE x \in Elements(values[r])
          <6>1. PICK m \in 1 .. Len(values[r]) : x = values[r][m]
            BY <5>2 DEF Elements, IInv, TypeOK
          <6>2. ServiceAt(r, m, x)
            BY <6>1 DEF IInv, Services
          <6>3. m \in 1 .. Held(r)
            BY DEF Held, IInv, Filled, TypeOK
          <6>4. QED BY <6>2, <6>3
        <5>3. QED BY <5>1, <5>2
      <4>2. PICK i \in 1 .. m : x = Object(r, Order[i])
        BY <1>1, <3>1, <4>1 DEF ServiceAt
      <4>3. Held(r) \in Nat
        BY DEF Held, IInv, TypeOK
      <4>4. i \in 1 .. Held(r)
        BY <4>3
      <4>5. QED BY <4>2, <4>4
    <3>2. QED BY <2>2, <3>1, OwnedByRun
  <2>3. QED BY <2>1, <2>2
<1>4. Owners \subseteq S
  BY <1>2, <1>3 DEF Owners
<1>5. \A x \in S : keeps[x] \subseteq S
  <2>1. \A x \in Others : keeps[x] \subseteq Others
    BY <1>1 DEF IInv, TypeOK, Origins
  <2>2. \A x \in Mine : keeps[x] \subseteq Others \cup Mine
    BY HeldByRun DEF IInv, TypeOK
  <2>3. QED BY <1>2, <2>1, <2>2
<1>6. Alive \subseteq S
  <2>1. Alive = LedToBy(Owners)
    BY DEF Alive, Owners
  <2>2. S \subseteq DOMAIN keeps
    BY <1>2
  <2>3. QED BY <1>4, <1>5, <2>1, <2>2, LeastKept
<1>7. QED BY <1>6

(* ~ObjectGraph gives its references back from the last to the first       *)
(* (di.hpp:124-128): a service never dies before one built after it.       *)
THEOREM DependentsDieFirst ==
    Spec => []DieInReverse
<1>1. IInv => DieInReverse
  <2> SUFFICES ASSUME IInv, NEW r \in Runs, NEW i \in 1 .. Len(called[r]), NEW j \in 1 .. Len(called[r]),
                      i < j, Object(r, called[r][i]) \in Dead, Object(r, called[r][j]) \in DOMAIN keeps,
                      Object(r, called[r][j]) \notin Dead, Object(r, called[r][j]) \notin LedToBy(outside)
               PROVE  FALSE
    BY Zenon DEF DieInReverse
  <2>1. /\ called[r][i] = Order[i] /\ called[r][j] = Order[j]
        /\ i \in 1 .. Len(Order) /\ j \in 1 .. Len(Order)
    BY DEF IInv, Progress, PlanOK
  <2>2. Object(r, Order[j]) \in Alive
    BY <2>1 DEF Dead
  <2>3. Object(r, Order[j]).origin = r
    BY DEF Object
  <2>4. PICK l \in 1 .. Held(r) : Object(r, Order[j]) = Object(r, Order[l])
    BY <2>1, <2>2, <2>3, AliveOfRun
  <2>5. Order[j] = Order[l] /\ Held(r) \in Nat /\ Held(r) <= Len(Order)
    BY <2>4 DEF Object, Held, IInv, TypeOK, Filled, Progress, PlanOK
  <2>6. l = j
    BY <2>1, <2>5 DEF IInv, PlanOK, NoDuplicates
  <2>7. i \in 1 .. Held(r)
    BY <2>5, <2>6
  <2>8. Object(r, Order[i]) \in DOMAIN keeps \ Alive
    BY <2>1 DEF Dead
  <2>9. QED BY <2>7, <2>8, HeldByRun, AliveKept
<1>2. QED BY <1>1, Invariance, PTL

(* Only the loop of the destructor makes a graph shorter.                  *)
LEMMA ShorterByPopBack ==
    ASSUME IInv, [Next]_vars, NEW r \in Runs, Len(values'[r]) < Len(values[r])
    PROVE  PopBack(r)
<1>1. values[r] \in Seq(Objects) /\ Len(values[r]) \in Nat /\ values'[r] # values[r]
  BY DEF IInv, TypeOK
<1>2. ASSUME NEW q \in Runs, PopBack(q)
      PROVE  PopBack(r)
  <2>1. q = r
    BY <1>1, <1>2 DEF PopBack, IInv, TypeOK
  <2>2. QED BY <1>2, <2>1
<1>3. ASSUME NEW q \in Runs, Insert(q)
      PROVE  FALSE
  <2>1. values' = [values EXCEPT ![q] = Stored(q)]
    BY <1>1, <1>3 DEF Insert
  <2>2. q = r
    BY <1>1, <2>1 DEF IInv, TypeOK
  <2>3. PICK o \in Objects : inFlight[r] = {o}
    BY <1>3, <2>2 DEF Insert, IInv, Services
  <2>4. values'[r] = values[r] \o <<o>>
    BY <2>1, <2>2, <2>3, SequenceOfOne DEF Stored, IInv, TypeOK
  <2>5. QED BY <1>1, <2>4, OneMore
<1>4. ASSUME NEW q \in Runs,
             Start(q) \/ CallProvider(q) \/ Finish(q) \/ Released(q) \/ DropGraph(q)
                \/ \E k \in Keys : Get(q, k)
      PROVE  FALSE
  BY <1>1, <1>4 DEF Start, CallProvider, Finish, Released, DropGraph, Get
<1>5. ASSUME NEW o \in Objects, Forget(o)
      PROVE  FALSE
  BY <1>1, <1>5 DEF Forget
<1>6. CASE UNCHANGED vars
  BY <1>1, <1>6 DEF vars
<1>7. QED BY <1>2, <1>3, <1>4, <1>5, <1>6 DEF Next, Execute, Release

(* One pop_back takes from what is alive at most what it drops.            *)
LEMMA PopBackTakesOne ==
    ASSUME IInv, IInv', NEW r \in Runs, PopBack(r)
    PROVE  Alive \subseteq Alive' \cup {values[r][Len(values[r])]}
<1>1. PICK x : x = values[r][Len(values[r])]
  OBVIOUS
<1>2. PICK L \in Nat \ {0} : L = Len(values[r]) /\ x = values[r][L]
  BY <1>1, PoppedFacts DEF PopBack
<1>3. /\ UNCHANGED plan /\ UNCHANGED <<keeps, inFlight, outside>>
      /\ \A q \in Runs \ {r} : values'[q] = values[q]
      /\ values'[r] = Popped(r) /\ values[r] \in Seq(Objects) /\ values[r] # <<>>
  BY DEF PopBack, IInv, TypeOK
<1>4. Len(values'[r]) = L - 1 /\ \A i \in 1 .. L - 1 : values'[r][i] = values[r][i]
  BY <1>2, <1>3, PoppedFacts
<1>5. PICK K : K = Alive'
  OBVIOUS
<1>6. Owners' \subseteq K /\ K \subseteq DOMAIN keeps /\ \A o \in K : keeps[o] \subseteq K
  <2>1. (/\ Alive \subseteq DOMAIN keeps
         /\ Owners \subseteq Alive
         /\ \A o \in Alive : keeps[o] \subseteq Alive)'
    BY AliveKept, PTL
  <2>2. QED BY <1>3, <1>5, <2>1
<1>7. ASSUME NEW i \in 1 .. L - 1
      PROVE  values[r][i] \in K
  <2>1. values'[r][i] = values[r][i] /\ values'[r] \in Seq(Objects)
    BY <1>4 DEF IInv, TypeOK
  <2>2. values'[r][i] \in Elements(values'[r])
    BY <1>4, <2>1 DEF Elements
  <2>3. QED BY <1>6, <2>1, <2>2 DEF Owners, Elements
<1>8. Owners \subseteq K \cup {x}
  <2>1. outside \subseteq K
    BY <1>3, <1>6 DEF Owners
  <2>2. ASSUME NEW q \in Runs
        PROVE  inFlight[q] \subseteq K
    BY <1>3, <1>6 DEF Owners
  <2>3. ASSUME NEW q \in Runs \ {r}
        PROVE  Elements(values[q]) \subseteq K
    BY <1>3, <1>6 DEF Owners, Elements
  <2>4. Elements(values[r]) \subseteq K \cup {x}
    <3>1. ASSUME NEW o \in Elements(values[r])
          PROVE  o \in K \cup {x}
      <4>1. PICK i \in 1 .. L : o = values[r][i]
        BY <1>2, <1>3 DEF Elements
      <4>2. QED BY <1>2, <1>7, <4>1
    <3>2. QED BY <3>1
  <2>5. QED BY <2>1, <2>2, <2>3, <2>4 DEF Owners
<1>9. x \in DOMAIN keeps /\ (x \in K \/ keeps[x] \subseteq K)
  <2>1. ServiceAt(r, L, x)
    BY <1>2 DEF IInv, Services
  <2>2. L \in 1 .. Len(Order)
    BY <1>2 DEF IInv, Filled, Progress, PlanOK
  <2>3. CASE behaviour[Order[L]] = "alias"
    <3>1. PICK d \in Keys : DependsOn(Order[L]) = {d}
      BY <2>2, <2>3 DEF IInv, PlanOK
    <3>2. PICK j \in 1 .. L - 1 : Order[j] = d
      BY <2>2, <3>1 DEF IInv, PlanOK, DependenciesPrecede
    <3>3. x = values[r][j] /\ x \in DOMAIN keeps
      BY <2>1, <2>3, <3>1, <3>2 DEF ServiceAt
    <3>4. QED BY <1>7, <3>3
  <2>4. CASE behaviour[Order[L]] = "instance"
    BY <2>1, <2>4 DEF ServiceAt, Object, IInv, Origins
  <2>5. CASE behaviour[Order[L]] \notin {"alias", "instance"}
    BY <1>7, <2>1, <2>5 DEF ServiceAt
  <2>6. QED BY <2>3, <2>4, <2>5
<1>10. \A o \in K \cup {x} : keeps[o] \subseteq K \cup {x}
  BY <1>6, <1>9
<1>11. Alive \subseteq K \cup {x}
  <2>1. Alive = LedToBy(Owners)
    BY DEF Alive, Owners
  <2>2. K \cup {x} \in SUBSET DOMAIN keeps
    BY <1>6, <1>9
  <2>3. QED BY <1>8, <1>10, <2>1, <2>2, LeastKept
<1>12. QED BY <1>1, <1>5, <1>11

(* One pop_back destroys at most one service: destructors do not recurse   *)
(* through the graph, however long its chains are.                         *)
THEOREM ReleaseIsFlat ==
    Spec => ReleaseDoesNotCascade
<1>1. IInv /\ IInv' /\ [Next]_vars =>
         [(\E r \in Runs : Len(values'[r]) < Len(values[r])) =>
             \A o, p \in Dead' \ Dead : o = p]_vars
  <2> SUFFICES ASSUME IInv, IInv', [Next]_vars, NEW r \in Runs, Len(values'[r]) < Len(values[r]),
                      NEW o \in Dead' \ Dead, NEW p \in Dead' \ Dead
               PROVE  o = p
    OBVIOUS
  <2>1. PopBack(r)
    BY ShorterByPopBack
  <2>2. keeps' = keeps
    BY <2>1 DEF PopBack
  <2>3. Alive \subseteq Alive' \cup {values[r][Len(values[r])]}
    BY <2>1, PopBackTakesOne
  <2>4. o \in Alive \ Alive' /\ p \in Alive \ Alive'
    BY <2>2 DEF Dead
  <2>5. QED BY <2>3, <2>4
<1>2. QED BY <1>1, Invariance, PTL DEF Spec, ReleaseDoesNotCascade

-----------------------------------------------------------------------------
(* How many steps a run and its graph have left, at most: for each step of *)
(* the plan that is left its provider, its insertion and its pop_back.     *)

StepsLeft(r) ==
    LET toExecute == Len(Order) + 1 - next[r]
        held == Len(values[r])
    IN  CASE phase[r] = "idle" -> 3 * Len(Order) + 4
          [] phase[r] = "step" -> 3 * toExecute + held + 3
          [] phase[r] = "insert" -> 3 * toExecute + held + 2
          [] phase[r] = "produced" -> held + 2
          [] phase[r] = "release" -> held + 1
          [] phase[r] = "released" -> 0

(* Where a run is; what others do with its services is not a step of it.   *)
Place(r) == <<phase[r], next[r], values[r]>>

LEMMA RunTyped ==
    ASSUME IInv, NEW r \in Runs
    PROVE  /\ Len(Order) \in Nat /\ Len(values[r]) \in Nat /\ values[r] \in Seq(Objects)
           /\ next[r] \in Nat /\ next[r] >= 1 /\ next[r] <= Len(Order) + 1
           /\ phase[r] \in {"idle", "step", "insert", "produced", "release", "released"}
BY DEF IInv, PlanOK, TypeOK, Progress, Phases

LEMMA StepsLeftType ==
    ASSUME IInv, NEW r \in Runs
    PROVE  StepsLeft(r) \in Nat
<1>1. PICK n \in Nat, v \in Nat, d \in Nat :
         n = Len(Order) /\ v = Len(values[r]) /\ d = Len(Order) + 1 - next[r]
  BY RunTyped
<1>2. StepsLeft(r) \in {3 * n + 4, 3 * d + v + 3, 3 * d + v + 2, v + 2, v + 1, 0}
  BY <1>1, RunTyped DEF StepsLeft
<1>3. /\ 3 * n + 4 \in Nat /\ 3 * d + v + 3 \in Nat /\ 3 * d + v + 2 \in Nat
      /\ v + 2 \in Nat /\ v + 1 \in Nat
  OBVIOUS
<1>4. QED BY <1>2, <1>3

LEMMA RunStepTaken ==
    ASSUME IInv, IInv', NEW r \in Runs, Start(r) \/ Execute(r) \/ Release(r) \/ DropGraph(r)
    PROVE  StepsLeft(r)' < StepsLeft(r)
<1>1. Order' = Order
  BY DEF Start, Execute, CallProvider, Insert, Finish, Release, PopBack, Released, DropGraph,
         plan, Order
<1>2. PICK n \in Nat, v \in Nat, d \in Nat :
         n = Len(Order) /\ v = Len(values[r]) /\ d = Len(Order) + 1 - next[r]
  BY RunTyped
<1>3. /\ phase \in [Runs -> Phases] /\ next \in [Runs -> Nat] /\ values \in [Runs -> Seq(Objects)]
      /\ Progress(r) /\ Filled(r) /\ Services(r)
  BY DEF IInv, TypeOK
<1>4. CASE Start(r)
  <2>1. /\ phase[r] = "idle" /\ phase'[r] = "step" /\ next' = next /\ values' = values
    BY <1>3, <1>4 DEF Start
  <2>2. v + d = n
    BY <1>2, <1>3, <2>1, RunTyped DEF Filled
  <2>3. StepsLeft(r) = 3 * n + 4 /\ StepsLeft(r)' = 3 * d + v + 3
    BY <1>1, <1>2, <2>1 DEF StepsLeft
  <2>4. QED BY <2>2, <2>3
<1>5. CASE CallProvider(r)
  <2>1. /\ phase[r] = "step" /\ next' = next /\ values' = values
        /\ phase'[r] \in {"insert", "release"}
    BY <1>2, <1>3, <1>5 DEF CallProvider, Provider, Fail
  <2>2. StepsLeft(r) = 3 * d + v + 3
    BY <1>2, <2>1 DEF StepsLeft
  <2>3. StepsLeft(r)' \in {3 * d + v + 2, v + 1}
    BY <1>1, <1>2, <2>1 DEF StepsLeft
  <2>4. QED BY <2>2, <2>3
<1>6. CASE Insert(r)
  <2>1. phase[r] = "insert" /\ StepsLeft(r) = 3 * d + v + 2
    BY <1>2, <1>6 DEF Insert, StepsLeft
  <2>2. CASE StepKey(r) \in DOMAIN index[r]
    <3>1. phase'[r] = "release" /\ next' = next /\ values' = values
      BY <1>3, <1>6, <2>2 DEF Insert, Fail
    <3>2. StepsLeft(r)' = v + 1
      BY <1>2, <3>1 DEF StepsLeft
    <3>3. QED BY <1>2, <2>1, <3>2
  <2>3. CASE StepKey(r) \notin DOMAIN index[r]
    <3>1. phase'[r] = "step" /\ next'[r] = next[r] + 1 /\ values'[r] = Stored(r)
      BY <1>2, <1>3, <1>6, <2>3 DEF Insert
    <3>2. PICK o \in Objects : inFlight[r] = {o}
      BY <1>3, <2>1 DEF Services
    <3>3. Stored(r) = values[r] \o <<o>>
      BY <3>2, SequenceOfOne DEF Stored
    <3>4. Len(values'[r]) = v + 1
      BY <1>2, <1>3, <3>1, <3>3, OneMore
    <3>5. PICK c \in Int : c = Len(Order) + 1 - next'[r] /\ c + 1 = d
      <4>1. PICK l \in Nat, k \in Nat : l = Len(Order) /\ k = next[r]
        BY RunTyped
      <4>2. d = l + 1 - k /\ next'[r] = k + 1
        BY <1>2, <3>1, <4>1
      <4>3. l + 1 - (k + 1) \in Int /\ l + 1 - (k + 1) + 1 = d
        BY <4>2
      <4>4. QED BY <4>1, <4>2, <4>3
    <3>6. StepsLeft(r)' = 3 * c + (v + 1) + 3
      BY <1>1, <3>1, <3>4, <3>5 DEF StepsLeft
    <3>7. 3 * d + v + 2 > 3 * c + (v + 1) + 3
      BY <3>5
    <3>8. QED BY <2>1, <3>6, <3>7
  <2>4. QED BY <2>2, <2>3
<1>7. CASE Finish(r)
  <2>1. phase[r] = "step" /\ phase'[r] = "produced" /\ values' = values
    BY <1>2, <1>3, <1>7 DEF Finish
  <2>2. StepsLeft(r) = 3 * d + v + 3 /\ StepsLeft(r)' = v + 2
    BY <1>2, <2>1 DEF StepsLeft
  <2>3. QED BY <2>2
<1>8. CASE DropGraph(r)
  <2>1. phase[r] = "produced" /\ phase'[r] = "release" /\ values' = values
    BY <1>3, <1>8 DEF DropGraph
  <2>2. StepsLeft(r) = v + 2 /\ StepsLeft(r)' = v + 1
    BY <1>2, <2>1 DEF StepsLeft
  <2>3. QED BY <1>2, <2>2
<1>9. CASE PopBack(r)
  <2>1. phase[r] = "release" /\ phase' = phase /\ values[r] # <<>> /\ values'[r] = Popped(r)
    BY <1>3, <1>9 DEF PopBack
  <2>2. Len(Popped(r)) = v - 1
    BY <1>2, <1>3, <2>1, PoppedFacts
  <2>3. StepsLeft(r) = v + 1 /\ StepsLeft(r)' = (v - 1) + 1
    BY <1>2, <2>1, <2>2 DEF StepsLeft
  <2>4. QED BY <1>2, <2>3
<1>10. CASE Released(r)
  <2>1. phase[r] = "release" /\ phase'[r] = "released"
    BY <1>3, <1>10 DEF Released
  <2>2. StepsLeft(r) = v + 1 /\ StepsLeft(r)' = 0
    BY <1>2, <2>1 DEF StepsLeft
  <2>3. QED BY <1>2, <2>2
<1>11. QED
  BY <1>4, <1>5, <1>6, <1>7, <1>8, <1>9, <1>10 DEF Execute, Release

(* What is no step of r's leaves r where it is.                            *)
LEMMA OthersStay ==
    ASSUME IInv, NEW r \in Runs,
           \/ \E o \in Runs \ {r} : Start(o) \/ Execute(o) \/ Release(o) \/ DropGraph(o)
           \/ \E o \in Runs, k \in Keys : Get(o, k)
           \/ \E o \in Objects : Forget(o)
    PROVE  Order' = Order /\ phase'[r] = phase[r] /\ next'[r] = next[r] /\ values'[r] = values[r]
<1>1. /\ phase \in [Runs -> Phases] /\ next \in [Runs -> Nat] /\ values \in [Runs -> Seq(Objects)]
  BY DEF IInv, TypeOK
<1>2. ASSUME NEW o \in Runs \ {r}, Start(o) \/ Execute(o) \/ Release(o) \/ DropGraph(o)
      PROVE  Order' = Order /\ phase'[r] = phase[r] /\ next'[r] = next[r] /\ values'[r] = values[r]
  <2>1. CASE Start(o) \/ DropGraph(o) \/ Release(o)
    BY <1>1, <2>1 DEF Start, DropGraph, Release, PopBack, Released, plan, Order
  <2>2. CASE CallProvider(o)
    BY <1>1, <2>2 DEF CallProvider, Provider, Fail, plan, Order
  <2>3. CASE Insert(o)
    BY <1>1, <2>3 DEF Insert, Fail, plan, Order
  <2>4. CASE Finish(o)
    BY <1>1, <2>4 DEF Finish, plan, Order
  <2>5. QED BY <1>2, <2>1, <2>2, <2>3, <2>4 DEF Execute
<1>3. ASSUME \/ \E o \in Runs, k \in Keys : Get(o, k)
             \/ \E o \in Objects : Forget(o)
      PROVE  Order' = Order /\ phase'[r] = phase[r] /\ next'[r] = next[r] /\ values'[r] = values[r]
  BY <1>3 DEF Get, Forget, plan, Order
<1>4. QED BY <1>2, <1>3

(* Every step of a run and of its graph's destructor lowers a natural      *)
(* number that the plan bounds, and neither another run nor the users of   *)
(* the services ever raise it: Plan::produce and ~ObjectGraph end.         *)
THEOREM RunStepsRunOut ==
    ASSUME NEW r \in Runs
    PROVE  Spec => /\ [](StepsLeft(r) \in Nat)
                   /\ [][IF Place(r)' = Place(r) THEN StepsLeft(r)' = StepsLeft(r)
                                                 ELSE StepsLeft(r)' < StepsLeft(r)]_vars
<1>1. IInv => StepsLeft(r) \in Nat
  BY StepsLeftType
<1>2. IInv /\ IInv' /\ [Next]_vars =>
         [IF Place(r)' = Place(r) THEN StepsLeft(r)' = StepsLeft(r)
                                  ELSE StepsLeft(r)' < StepsLeft(r)]_vars
  <2> SUFFICES ASSUME IInv, IInv', Next
               PROVE  IF Place(r)' = Place(r) THEN StepsLeft(r)' = StepsLeft(r)
                                              ELSE StepsLeft(r)' < StepsLeft(r)
    OBVIOUS
  <2>1. CASE Start(r) \/ Execute(r) \/ Release(r) \/ DropGraph(r)
    <3>1. StepsLeft(r)' < StepsLeft(r) /\ StepsLeft(r) \in Nat
      BY <2>1, RunStepTaken, StepsLeftType
    <3>2. Order' = Order
      BY <2>1 DEF Start, Execute, CallProvider, Insert, Finish, Release, PopBack, Released,
                  DropGraph, plan, Order
    <3>3. ASSUME Place(r)' = Place(r)
          PROVE  FALSE
      <4>1. StepsLeft(r)' = StepsLeft(r)
        BY <3>2, <3>3 DEF Place, StepsLeft
      <4>2. QED BY <3>1, <4>1
    <3>4. QED BY <3>1, <3>3
  <2>2. CASE \/ \E o \in Runs \ {r} : Start(o) \/ Execute(o) \/ Release(o) \/ DropGraph(o)
             \/ \E o \in Runs, k \in Keys : Get(o, k)
             \/ \E o \in Objects : Forget(o)
    <3>1. Order' = Order /\ phase'[r] = phase[r] /\ next'[r] = next[r] /\ values'[r] = values[r]
      BY <2>2, OthersStay
    <3>2. QED BY <3>1 DEF Place, StepsLeft
  <2>3. QED BY <2>1, <2>2 DEF Next
<1>3. QED BY <1>1, <1>2, Invariance, PTL DEF Spec

=============================================================================
