------------------------------ MODULE Provision ------------------------------
(***************************************************************************)
(* Plan::produce and ObjectGraph (di.hpp:248-325): a plan is executed step *)
(* by step into a graph of services, which gives its references back in    *)
(* reverse order when it dies, after a failure too.  A plan can be run     *)
(* again, also while graphs of earlier runs live, or on another thread.    *)
(*                                                                         *)
(* The plan is any one that PlanContract allows, not just the one that     *)
(* Planner computes: what produce takes for granted is in the contract.    *)
(*                                                                         *)
(* Data abstraction.  A provider is its behaviour.  A service is an object *)
(* with an identity and the shared_ptrs it keeps to its arguments; the     *)
(* objects that are alive are the ones somebody's shared_ptr leads to.  A  *)
(* Set<T> is an object that keeps its elements; their order is left out.   *)
(***************************************************************************)
EXTENDS PlanContract, SequencesExt

CONSTANTS
    Runs,       \* executions of the IO that produce returns
    Supplied,   \* the origin of objects that exist before any run
    Behaviours  \* the behaviours of providers a run considers

ASSUME RunsAssumption == IsFiniteSet(Keys) /\ Supplied \notin Runs

VARIABLES
    behaviour,  \* what the provider of each key does when it is called
    phase,      \* where each run, then its graph, is
    next,       \* position of the step each run executes
    called,     \* keys whose providers each run has called, in order
    inFlight,   \* objects a provider returned and the graph does not hold yet
    index,      \* ObjectGraph::index_ of each run
    values,     \* ObjectGraph::values_ of each run
    keeps,      \* the objects each object made so far holds a shared_ptr to
    outside,    \* objects somebody else holds a shared_ptr to
    outcome     \* what each run answers

plan == <<request, result, behaviour>>

vars == <<plan, phase, next, called, inFlight, index, values, keeps, outside, outcome>>

Phases == {"idle", "step", "insert", "produced", "release", "released"}

Object(origin, k) == [origin |-> origin, key |-> k]

Objects == [origin : Runs \cup {Supplied}, key : Keys]

Order == result.path

(* f with one more entry.                                                  *)
With(f, x, v) == [y \in DOMAIN f \cup {x} |-> IF y = x THEN v ELSE f[y]]

(* Mutant: the steps from the last to the first.                           *)
StepKeyBackwards(r) == Order[Len(Order) + 1 - next[r]]

StepKey(r) == Order[next[r]]

-----------------------------------------------------------------------------

(* Only a key with one dependency can be an alias, and only one without    *)
(* any an instance; the provider of a set is always assemble.              *)
Possible(k, b) ==
    /\ b = "alias" => ActiveBindings(k) # {} /\ Cardinality(DOMAIN Dependencies(k)) = 1
    /\ b = "instance" => ActiveBindings(k) # {} /\ Dependencies(k) = <<>>
    /\ ActiveBindings(k) = {} => b = "construct"

SuppliedObjects == {Object(Supplied, k) : k \in {k \in Keys : behaviour[k] = "instance"}}

Init ==
    /\ RequestInit
    /\ result \in [code : {"plan"}, path : SetToSeqs(Reachable)]
    /\ Allowed(result)
    /\ behaviour \in [Keys -> Behaviours \cup {"construct"}]
    /\ \A k \in Keys :
          IF k \in Reachable THEN Possible(k, behaviour[k]) ELSE behaviour[k] = "construct"
    /\ phase = [r \in Runs |-> "idle"]
    /\ next = [r \in Runs |-> 1]
    /\ called = [r \in Runs |-> <<>>]
    /\ inFlight = [r \in Runs |-> {}]
    /\ index = [r \in Runs |-> <<>>]
    /\ values = [r \in Runs |-> <<>>]
    /\ keeps = [o \in SuppliedObjects |-> {}]
    /\ outside = SuppliedObjects
    /\ outcome = [r \in Runs |-> "none"]

(* The suspended thunk makes the graph and chains the steps.               *)
Start(r) ==
    /\ phase[r] = "idle"
    /\ phase' = [phase EXCEPT ![r] = "step"]
    /\ UNCHANGED <<plan, next, called, inFlight, index, values, keeps, outside, outcome>>

-----------------------------------------------------------------------------
(* One step: the callback of the flat_map that produce chains for it.      *)

(* Mutant: the description has one graph, which all its runs look into.    *)
ArgumentsOfAnyRun(r) ==
    UNION {{values[q][index[q][d]] : d \in DependsOn(StepKey(r)) \cap DOMAIN index[q]} : q \in Runs}

(* The services graph->lookup finds for the dependencies of the step.      *)
Arguments(r) ==
    {values[r][index[r][d]] : d \in DependsOn(StepKey(r)) \cap DOMAIN index[r]}

LookupsSucceed(r) == DependsOn(StepKey(r)) \subseteq DOMAIN index[r]

(* Mutant: the graph outlives the failed run.                              *)
FailLeaking(r, kind) ==
    /\ outcome' = [outcome EXCEPT ![r] = kind]
    /\ phase' = [phase EXCEPT ![r] = "released"]

(* The failure passes over the remaining steps; the last of them to be     *)
(* dropped holds the graph's last shared_ptr.                              *)
Fail(r, kind) ==
    /\ outcome' = [outcome EXCEPT ![r] = kind]
    /\ phase' = [phase EXCEPT ![r] = "release"]

(* What the provider of the step returns.  Of the kinds of failure, a      *)
(* null service and an exception of a synchronous provider are declared    *)
(* failures like any other.                                                *)
Provider(r) ==
    LET k == StepKey(r)
        Deliver(o) ==
            /\ inFlight' = [inFlight EXCEPT ![r] = {o}]
            /\ phase' = [phase EXCEPT ![r] = "insert"]
            /\ UNCHANGED outcome
    IN  \/ /\ behaviour[k] = "construct"
           /\ Deliver(Object(r, k))
           /\ \E kept \in {{}, Arguments(r)} : keeps' = With(keeps, Object(r, k), kept)
        \/ /\ behaviour[k] = "alias"
           /\ \E o \in Arguments(r) : Deliver(o)
           /\ UNCHANGED keeps
        \/ /\ behaviour[k] = "instance"
           /\ Deliver(Object(Supplied, k))
           /\ UNCHANGED keeps
        \/ /\ behaviour[k] \in {"failure", "defect"}
           /\ Fail(r, behaviour[k])
           /\ UNCHANGED <<inFlight, keeps>>

(* A lookup that finds nothing throws inside the callback: a defect.       *)
CallProvider(r) ==
    /\ phase[r] = "step" /\ next[r] <= Len(Order)
    /\ IF LookupsSucceed(r)
       THEN Provider(r) /\ called' = [called EXCEPT ![r] = Append(@, StepKey(r))]
       ELSE Fail(r, "defect") /\ UNCHANGED <<called, inFlight, keeps>>
    /\ UNCHANGED <<plan, next, index, values, outside>>

(* values_ with the service that arrives.                                  *)
Stored(r) == values[r] \o SetToSeq(inFlight[r])

(* Mutant: a service is stored for every run that is building.             *)
InsertForAll(r) ==
    /\ phase[r] = "insert"
    /\ index' = [index EXCEPT ![r] = With(@, StepKey(r), Len(values[r]) + 1)]
    /\ values' = [q \in Runs |->
          IF q = r \/ phase[q] \in {"step", "insert"} THEN values[q] \o SetToSeq(inFlight[r]) ELSE values[q]]
    /\ next' = [next EXCEPT ![r] = @ + 1]
    /\ phase' = [phase EXCEPT ![r] = "step"]
    /\ inFlight' = [inFlight EXCEPT ![r] = {}]
    /\ UNCHANGED <<plan, called, keeps, outside, outcome>>

(* graph->insert; a key inserted before makes it throw, a defect too.      *)
Insert(r) ==
    /\ phase[r] = "insert"
    /\ IF StepKey(r) \in DOMAIN index[r]
       THEN Fail(r, "defect") /\ UNCHANGED <<next, index, values>>
       ELSE /\ index' = [index EXCEPT ![r] = With(@, StepKey(r), Len(values[r]) + 1)]
            /\ values' = [values EXCEPT ![r] = Stored(r)]
            /\ next' = [next EXCEPT ![r] = @ + 1]
            /\ phase' = [phase EXCEPT ![r] = "step"]
            /\ UNCHANGED outcome
    /\ inFlight' = [inFlight EXCEPT ![r] = {}]
    /\ UNCHANGED <<plan, called, keeps, outside>>

(* Mutant: the last step is left out.                                      *)
FinishEarly(r) ==
    /\ phase[r] = "step" /\ next[r] >= Len(Order)
    /\ phase' = [phase EXCEPT ![r] = "produced"]
    /\ outcome' = [outcome EXCEPT ![r] = "success"]
    /\ UNCHANGED <<plan, next, called, inFlight, index, values, keeps, outside>>

Finish(r) ==
    /\ phase[r] = "step" /\ next[r] > Len(Order)
    /\ phase' = [phase EXCEPT ![r] = "produced"]
    /\ outcome' = [outcome EXCEPT ![r] = "success"]
    /\ UNCHANGED <<plan, next, called, inFlight, index, values, keeps, outside>>

-----------------------------------------------------------------------------
(* The life of a graph.                                                    *)

(* ObjectGraph::get by the owner of the graph.                             *)
Get(r, k) ==
    /\ phase[r] = "produced" /\ k \in DOMAIN index[r]
    /\ outside' = outside \cup {values[r][index[r][k]]}
    /\ UNCHANGED <<plan, phase, next, called, inFlight, index, values, keeps, outcome>>

(* Somebody who got a service lets go of it; a supplied one stays with the *)
(* provider that supplies it.                                              *)
Forget(o) ==
    /\ o \in outside \ SuppliedObjects
    /\ outside' = outside \ {o}
    /\ UNCHANGED <<plan, phase, next, called, inFlight, index, values, keeps, outcome>>

DropGraph(r) ==
    /\ phase[r] = "produced"
    /\ phase' = [phase EXCEPT ![r] = "release"]
    /\ UNCHANGED <<plan, next, called, inFlight, index, values, keeps, outside, outcome>>

(* Mutant: from the front, as a vector destroys its elements.              *)
PoppedFront(r) == Tail(values[r])

Popped(r) == Front(values[r])

(* Mutant: the loop stops at the last value.                               *)
PopBackStopping(r) ==
    /\ phase[r] = "release" /\ Len(values[r]) > 1
    /\ values' = [values EXCEPT ![r] = Popped(r)]
    /\ UNCHANGED <<plan, phase, next, called, inFlight, index, keeps, outside, outcome>>

(* The loop of ~ObjectGraph, one pop_back at a time.                       *)
PopBack(r) ==
    /\ phase[r] = "release" /\ values[r] # <<>>
    /\ values' = [values EXCEPT ![r] = Popped(r)]
    /\ UNCHANGED <<plan, phase, next, called, inFlight, index, keeps, outside, outcome>>

Released(r) ==
    /\ phase[r] = "release" /\ values[r] = <<>>
    /\ index' = [index EXCEPT ![r] = <<>>]
    /\ phase' = [phase EXCEPT ![r] = "released"]
    /\ UNCHANGED <<plan, next, called, inFlight, values, keeps, outside, outcome>>

-----------------------------------------------------------------------------

Execute(r) == CallProvider(r) \/ Insert(r) \/ Finish(r)

Release(r) == PopBack(r) \/ Released(r)

Next ==
    \/ \E r \in Runs :
          \/ Start(r) \/ Execute(r) \/ Release(r) \/ DropGraph(r)
          \/ \E k \in Keys : Get(r, k)
    \/ \E o \in Objects : Forget(o)

(* A run that has begun and a destructor that has begun go on to the end;  *)
(* nobody has to run a plan or to drop a graph.                            *)
Spec ==
    Init /\ [][Next]_vars /\ \A r \in Runs : WF_vars(Execute(r)) /\ WF_vars(Release(r))

-----------------------------------------------------------------------------
(* Properties.                                                             *)

Elements(s) == {s[i] : i \in DOMAIN s}

(* The objects that owners lead to: the least set that has the owners and  *)
(* whatever its objects keep.                                              *)
LedToBy(owners) ==
    LET Kept(S) == \A o \in S : keeps[o] \subseteq S
    IN  {o \in DOMAIN keeps :
            \A S \in SUBSET DOMAIN keeps : owners \subseteq S /\ Kept(S) => o \in S}

Alive == LedToBy(outside \cup UNION {inFlight[r] \cup Elements(values[r]) : r \in Runs})

Dead == DOMAIN keeps \ Alive

(* The internal checks of lookup and insert never fire: a run ends in a    *)
(* defect only if the provider it called last is one that defects.         *)
OnlyProvidersDefect ==
    \A r \in Runs : outcome[r] = "defect" =>
        called[r] # <<>> /\ behaviour[Last(called[r])] = "defect"

(* A run calls providers in the plan's order, none twice, and all of them  *)
(* if it succeeds; each that was called has all its dependencies built.    *)
CalledInOrder ==
    \A r \in Runs :
        /\ IsPrefix(called[r], Order)
        /\ outcome[r] = "success" => called[r] = Order
        /\ \A i \in DOMAIN called[r] : DependsOn(called[r][i]) \subseteq Elements(SubSeq(Order, 1, i - 1))

(* While a graph lives it answers, for every step executed, the service    *)
(* that step's provider made: an alias is the very object of its source,   *)
(* an instance is the supplied one in every graph, any other is its own.   *)
GraphServesPlan ==
    \A r \in Runs : phase[r] \in {"step", "insert", "produced"} =>
        /\ DOMAIN index[r] = Elements(SubSeq(Order, 1, next[r] - 1))
        /\ \A k \in DOMAIN index[r] :
              LET service == values[r][index[r][k]]
              IN  CASE behaviour[k] = "alias" ->
                          \A d \in DependsOn(k) : service = values[r][index[r][d]]
                    [] behaviour[k] = "instance" -> service = Object(Supplied, k)
                    [] OTHER -> service = Object(r, k)

(* Services of one graph die dependents first, in the reverse of the order *)
(* they were built, unless somebody outside keeps a later one alive.       *)
DieInReverse ==
    \A r \in Runs : \A i, j \in 1 .. Len(called[r]) :
        LET earlier == Object(r, called[r][i])
            later == Object(r, called[r][j])
        IN  i < j /\ earlier \in Dead /\ later \in DOMAIN keeps
                => later \in Dead \cup LedToBy(outside)

(* Giving back one reference of a graph destroys at most one service: no   *)
(* destructor of a service is the last to let go of another one.           *)
ReleaseDoesNotCascade ==
    [][(\E r \in Runs : Len(values'[r]) < Len(values[r])) =>
          \A o, p \in Dead' \ Dead : o = p]_vars

(* A run that fails has destroyed all it built when it answers.            *)
RollbackIsComplete ==
    \A r \in Runs : phase[r] = "released" /\ outcome[r] # "success" =>
        \A o \in Alive : o.origin # r

(* A run that begins answers, and a failed one is rolled back.             *)
RunsEnd == \A r \in Runs : phase[r] = "step" ~> phase[r] \in {"produced", "released"}

=============================================================================
