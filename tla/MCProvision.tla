----------------------------- MODULE MCProvision -----------------------------
(***************************************************************************)
(* Small plans for Provision.  Every acyclic module over the keys of Chain *)
(* is, up to the names of its keys, one whose bindings and sets depend on  *)
(* later keys of Chain only.                                               *)
(***************************************************************************)
EXTENDS Provision

CONSTANTS k1, k2, k3, r1, r2, Chain

ThreeKeys == <<k1, k2, k3>>

TwoKeys == <<k1, k2>>

Below(k) == {Chain[j] : j \in {j \in DOMAIN Chain : \E i \in 1 .. j - 1 : Chain[i] = k}}

Bind(k, deps) == [key |-> k, deps |-> deps, tags |-> {}]

Contribute(deps) == [i \in DOMAIN deps |-> [dep |-> deps[i], tags |-> {}]]

(* The keys of sets are sets of the module, the others bindings.           *)
ModuleOf(deps, sets) ==
    [bindings |-> SetToSeq({Bind(k, deps[k]) : k \in DOMAIN deps \ sets}),
     sets |-> [k \in sets |-> Contribute(deps[k])]]

AcyclicModules ==
    {ModuleOf(deps, sets) :
        deps \in {f \in [Keys -> SetToAllKPermutations(Keys)] :
                     \A k \in Keys : Elements(f[k]) \subseteq Below(k)},
        sets \in SUBSET Keys}

TopRoots == {<<k1>>, <<k1, k2>>}

NoActivation == {{}}

=============================================================================
