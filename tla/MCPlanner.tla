------------------------------ MODULE MCPlanner ------------------------------
(***************************************************************************)
(* Small requests for Planner.                                             *)
(***************************************************************************)
EXTENDS PlanSearch, SequencesExt

SeqsUpTo(S, n) == UNION {[1 .. m -> S] : m \in 0 .. n}

Point(axis, value) == [axis |-> axis, value |-> value]

-----------------------------------------------------------------------------
(* Every untagged dependency graph in which a key has no binding, or one   *)
(* with at most MaxDeps dependencies.                                      *)

CONSTANTS MaxDeps, MaxRoots, k1, k2, a, b

UntaggedBinding(k, d) == [key |-> k, deps |-> d, tags |-> {}]

GraphModules ==
    {[bindings |-> SetToSeq({UntaggedBinding(k, d[k]) : k \in DOMAIN d}),
      sets |-> [k \in {} |-> <<>>]] :
        d \in UNION {[S -> SeqsUpTo(Keys, MaxDeps)] : S \in SUBSET Keys}}

GraphRoots == SeqsUpTo(Keys, MaxRoots)

NoActivation == {{}}

-----------------------------------------------------------------------------
(* Tagged bindings, duplicates and one set, over two keys.                 *)

TagLists ==
    {{}, {Point(a, 1)}, {Point(a, 1), Point(a, 2)}, {Point(a, 1), Point(b, 1)}}

TaggedBindings == [key : {k1, k2}, deps : {<<>>, <<k1>>}, tags : TagLists]

TaggedContributions == [dep : {k1, k2}, tags : TagLists]

TaggedSets ==
    {[k \in {} |-> <<>>]} \cup [{k1} -> SeqsUpTo(TaggedContributions, 2)]
        \cup [{k1, k2} -> SeqsUpTo(TaggedContributions, 1)]

TaggedModules == [bindings : SeqsUpTo(TaggedBindings, 2), sets : TaggedSets]

TaggedRoots == {<<k1>>, <<k2, k1>>}

TaggedActivations ==
    {{}, {Point(a, 1)}, {Point(a, 1), Point(b, 1)}, {Point(a, 1), Point(a, 2)}}

=============================================================================
