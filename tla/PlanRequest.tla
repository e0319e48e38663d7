----------------------------- MODULE PlanRequest -----------------------------
(***************************************************************************)
(* What one call of Planner::plan is asked (di.hpp): a module, a list of   *)
(* root keys and an activation, and what the planner reads off them, which *)
(* bindings are active, what a key resolves to and which keys it needs.    *)
(*                                                                         *)
(* The three inputs never change during a call.  They are variables so     *)
(* that TLC ranges over every request of a configuration in one run.       *)
(*                                                                         *)
(* Data abstraction.  A tag list is the set of its points: `valid` and     *)
(* `active` ask only which points occur.  A provider is left out (the      *)
(* planner copies it and never calls it).  A key is an atom: equality is   *)
(* all the planner asks of it, apart from the order in which std::map      *)
(* visits the sets, which Planner leaves open.                             *)
(***************************************************************************)
EXTENDS Naturals, Sequences

CONSTANTS
    Keys,         \* service keys: a type together with a name
    Axes,         \* enumeration types used as activation axes
    AxisValues,   \* the values of those enumerations
    Modules,      \* the modules a run considers
    RootLists,    \* the root lists a run considers
    Activations   \* the activations a run considers

VARIABLES module, roots, activation

request == <<module, roots, activation>>

-----------------------------------------------------------------------------

Points == [axis : Axes, value : AxisValues]

Bindings == [key : Keys, deps : Seq(Keys), tags : SUBSET Points]

Contributions == [dep : Keys, tags : SUBSET Points]

(* Module::bindings_ in registration order, Module::sets_ by set key.      *)
ModuleType(m) ==
    /\ m = [bindings |-> m.bindings, sets |-> m.sets]
    /\ m.bindings \in Seq(Bindings)
    /\ DOMAIN m.sets \subseteq Keys
    /\ m.sets \in [DOMAIN m.sets -> Seq(Contributions)]

ASSUME RequestAssumption ==
    /\ \A m \in Modules : ModuleType(m)
    /\ \A r \in RootLists : r \in Seq(Keys)
    /\ \A a \in Activations : a \subseteq Points

RequestInit ==
    /\ module \in Modules
    /\ roots \in RootLists
    /\ activation \in Activations

RequestOK ==
    /\ ModuleType(module)
    /\ roots \in Seq(Keys)
    /\ activation \subseteq Points

-----------------------------------------------------------------------------

(* No axis is given two values: the test of `choices` and of `valid`.      *)
Consistent(points) ==
    \A p, q \in points : p.axis = q.axis => p.value = q.value

(* Every point of the tag list is chosen; an axis that the activation does *)
(* not mention rejects the tag.                                            *)
Active(tags) == tags \subseteq activation

MalformedBindings ==
    {i \in DOMAIN module.bindings : ~Consistent(module.bindings[i].tags)}

MalformedSets ==
    {k \in DOMAIN module.sets :
        \E p \in DOMAIN module.sets[k] : ~Consistent(module.sets[k][p].tags)}

(* The entry of `index` for a key, as positions in bindings_.              *)
ActiveBindings(k) ==
    {i \in DOMAIN module.bindings :
        /\ module.bindings[i].key = k
        /\ Active(module.bindings[i].tags)}

Ambiguous(k) ==
    \/ \E i, j \in ActiveBindings(k) : i # j
    \/ ActiveBindings(k) # {} /\ k \in DOMAIN module.sets

Missing(k) == ActiveBindings(k) = {} /\ k \notin DOMAIN module.sets

Resolvable(k) == ~Ambiguous(k) /\ ~Missing(k)

ActiveContributions(k) ==
    {p \in DOMAIN module.sets[k] : Active(module.sets[k][p].tags)}

(* bindings->second.front(), of a key that has just one.                   *)
OnlyBinding(k) == CHOOSE i \in ActiveBindings(k) : TRUE

(* Step::dependencies of a resolvable key, indexed by position: what the   *)
(* one active binding lists, or the sources of the contributions that are  *)
(* active, each at the place it has among all contributions.               *)
Dependencies(k) ==
    IF ActiveBindings(k) # {}
    THEN module.bindings[OnlyBinding(k)].deps
    ELSE [p \in ActiveContributions(k) |-> module.sets[k][p].dep]

-----------------------------------------------------------------------------
(* The dependency graph of a request, against which a plan is judged.      *)

DependsOn(k) ==
    IF Resolvable(k)
    THEN {Dependencies(k)[p] : p \in DOMAIN Dependencies(k)}
    ELSE {}

RootSet == {roots[i] : i \in DOMAIN roots}

Closed(S) == \A k \in S : DependsOn(k) \subseteq S

(* The keys that belong to every dependency-closed set holding the roots.  *)
Reachable ==
    {k \in Keys :
        \A S \in SUBSET Keys : RootSet \subseteq S /\ Closed(S) => k \in S}

IsDependencyChain(path) ==
    \A i \in 1 .. Len(path) - 1 : path[i + 1] \in DependsOn(path[i])

=============================================================================
