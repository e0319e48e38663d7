----------------------------- MODULE MCEvaluator -----------------------------
(***************************************************************************)
(* All small programs for Evaluator, and traversals of few items.          *)
(***************************************************************************)
EXTENDS Expected

CONSTANTS
    SourceDepth,    \* combinators along a spine of sources
    CallbackDepth,  \* combinators of an IO a root's callback returns
    MaxItems        \* items of a traversal

-----------------------------------------------------------------------------
(* Programs.  A node's id is its place in the tree, 2n and 2n + 1 below n. *)

Throws == [op |-> "throws"]

Leaves(id) ==
    {[op |-> "null"], Terminal(Success(id))}
        \cup [op : {"eval"}, id : {id}, run : {"success", "failure", "throws"}]

FramesOver(effects, id) ==
    [kind : {"flat_map"}, id : {id}, next : effects]
        \cup [kind : {"catch_all"}, id : {id}, recover : effects]
        \cup [kind : {"bracket"}, id : {id}, protect : {"returns", "throws"}, use : effects]
        \cup [kind : {"bimap"}, id : {id}, on_value : {"returns", "throws"},
              on_error : {"returns", "throws"}]
        \cup [kind : {"ensuring"}, id : {id}]

RECURSIVE Terms(_, _, _)

(* Terms with spines of up to s combinators and callbacks of up to c.      *)
Terms(s, c, id) ==
    LET inner == IF c = 0 THEN Leaves(2 * id + 1) ELSE Terms(1, c - 1, 2 * id + 1)
        effects == inner \cup {Throws}
    IN  Leaves(id)
            \cup [op : {"suspend"}, id : {id}, next : effects]
            \cup IF s = 0 THEN {}
                 ELSE [op : {"continue"}, source : Terms(s - 1, 0, 2 * id),
                       frame : FramesOver(effects, id)]

SmallItemLists == BoundedSeq(Items, MaxItems)

SmallPrograms ==
    Terms(SourceDepth, 0, 1) \cup Terms(1, CallbackDepth, 1)
        \cup {Traverse(items) : items \in SmallItemLists}

RECURSIVE Parts(_, _, _)

(* Those terms and all that they are made of.                              *)
Parts(s, c, id) ==
    Terms(s, c, id)
        \cup (IF c = 0 THEN Leaves(2 * id + 1) ELSE Parts(1, c - 1, 2 * id + 1))
        \cup (IF s = 0 THEN {} ELSE Parts(s - 1, 0, 2 * id))

(* What a traversal is made of are the traversals of its first items, and  *)
(* its visits.                                                             *)
SmallEffects ==
    LET terms == Parts(SourceDepth, 0, 1) \cup Parts(1, CallbackDepth, 1)
                     \cup {Traverse(items) : items \in SmallItemLists}
                     \cup {Visited(kind, i) : kind \in Items, i \in 1 .. MaxItems}
                     \cup {Effect(kind, i) : kind \in Items \ {"refuses"}, i \in 1 .. MaxItems}
                     \cup {Terminal(Success(AppendCall(i))) : i \in 1 .. MaxItems}
    IN  {term \in terms : term.op # "throws"}

RECURSIVE HeightOf(_)

(* Combinators and callbacks on the longest way down a program.            *)
HeightOf(term) ==
    LET parts == PartsOf(term)
    IN  IF parts = {} THEN 0 ELSE 1 + Max({HeightOf(part) : part \in parts})

SmallHeights == [term \in SmallEffects |-> HeightOf(term)]

=============================================================================
