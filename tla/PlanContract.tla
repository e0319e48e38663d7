---------------------------- MODULE PlanContract -----------------------------
(***************************************************************************)
(* What Planner::plan promises, with no word on how it traverses: a call   *)
(* is pending, then it answers once, with a plan that is complete, minimal *)
(* and executable, or with an error whose path is evidence for it.         *)
(*                                                                         *)
(* Planner speaks of the same request and result, so the mapping of its    *)
(* states to these is the identity and it extends this module.             *)
(***************************************************************************)
EXTENDS PlanRequest

VARIABLE result

ErrorCodes == {"missing_binding", "ambiguous_binding", "cycle", "conflicting_axis"}

Pending == [code |-> "pending", path |-> <<>>]

Results == [code : {"pending", "plan"} \cup ErrorCodes, path : Seq(Keys)]

-----------------------------------------------------------------------------

WellFormed ==
    /\ Consistent(activation)
    /\ MalformedBindings = {}
    /\ MalformedSets = {}

(* A contradictory tag is reported wherever it is, reachable or not: the   *)
(* activation's first, then that of the earliest binding, then a set's.    *)
ConflictIsFirst(path) ==
    \/ ~Consistent(activation) /\ path = <<>>
    \/ /\ Consistent(activation)
       /\ \E i \in MalformedBindings :
             /\ \A j \in MalformedBindings : i <= j
             /\ path = <<module.bindings[i].key>>
    \/ /\ Consistent(activation)
       /\ MalformedBindings = {}
       /\ \E k \in MalformedSets : path = <<k>>

(* From a root, dependency by dependency, to the key that fails.           *)
LeadsFromRoot(path) ==
    /\ path # <<>>
    /\ path[1] \in RootSet
    /\ IsDependencyChain(path)

ClosesCycle(path) ==
    /\ Len(path) > 1
    /\ path[1] = path[Len(path)]
    /\ \A i, j \in 1 .. Len(path) - 1 : path[i] = path[j] => i = j
    /\ \A i \in 1 .. Len(path) : path[i] \in Reachable
    /\ IsDependencyChain(path)

NoDuplicates(order) ==
    \A i, j \in 1 .. Len(order) : order[i] = order[j] => i = j

DependenciesPrecede(order) ==
    \A i \in 1 .. Len(order) : \A d \in DependsOn(order[i]) :
        \E j \in 1 .. i - 1 : order[j] = d

Exactly(order, S) == {order[i] : i \in 1 .. Len(order)} = S

ExecutablePlan(order) ==
    /\ NoDuplicates(order)
    /\ DependenciesPrecede(order)
    /\ Exactly(order, Reachable)
    /\ \A i \in 1 .. Len(order) : Resolvable(order[i])

Allowed(r) ==
    \/ r.code = "conflicting_axis" /\ ConflictIsFirst(r.path)
    \/ r.code = "plan" /\ WellFormed /\ ExecutablePlan(r.path)
    \/ r.code = "cycle" /\ WellFormed /\ ClosesCycle(r.path)
    \/ /\ r.code = "missing_binding"
       /\ WellFormed /\ LeadsFromRoot(r.path) /\ Missing(r.path[Len(r.path)])
    \/ /\ r.code = "ambiguous_binding"
       /\ WellFormed /\ LeadsFromRoot(r.path) /\ Ambiguous(r.path[Len(r.path)])

-----------------------------------------------------------------------------

ContractInit == RequestOK /\ result = Pending

Answer ==
    /\ result = Pending
    /\ result' \in Results
    /\ Allowed(result')
    /\ UNCHANGED request

ContractSpec == ContractInit /\ [][Answer]_<<request, result>>

=============================================================================
