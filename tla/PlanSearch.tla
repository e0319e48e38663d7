----------------------------- MODULE PlanSearch ------------------------------
(***************************************************************************)
(* Planner against a recursion: the depth-first search that its loop with  *)
(* an explicit stack has to agree with, as a function of where it stands.  *)
(***************************************************************************)
EXTENDS Planner, FiniteSets

(* Module::sets_ is a std::map.                                            *)
ASSUME SetsAssumption == \A m \in Modules : IsFiniteSet(DOMAIN m.sets)

-----------------------------------------------------------------------------

(* Where a search stands: at a position of what the end of a path needs,   *)
(* with the steps emitted so far.  What the empty path needs is the roots. *)
Place(path, next, order) == [path |-> path, next |-> next, order |-> order]

Solvable == {k \in Keys : Resolvable(k)}

Places == [path : Seq(Solvable), next : Nat \ {0}, order : Seq(Keys)]

Start == Place(<<>>, 1, <<>>)

Needs(path) == IF path = <<>> THEN roots ELSE Dependencies(path[Len(path)])

Left(s) == {p \in DOMAIN Needs(s.path) : p >= s.next}

First(S) == CHOOSE p \in S : \A q \in S : p <= q

-----------------------------------------------------------------------------
(* In the operators below f tells what a search from a place comes to.     *)

Verdict(code, path) == [code |-> code, path |-> path]

(* All that the path's end needs is in the order; the end comes after it.  *)
Emitted(path, order) ==
    Verdict("plan", IF path = <<>> THEN order ELSE Append(order, path[Len(path)]))

Occurs(k, s) == \E i \in DOMAIN s : s[i] = k

(* A key that the path's end needs.                                        *)
Visit(f, k, path, order) ==
    IF Occurs(k, path)
    THEN LET start == CHOOSE i \in DOMAIN path : path[i] = k
         IN  Verdict("cycle", Append(SubSeq(path, start, Len(path)), k))
    ELSE IF Occurs(k, order) THEN Verdict("plan", order)
    ELSE IF Ambiguous(k) THEN Verdict("ambiguous_binding", Append(path, k))
    ELSE IF Missing(k) THEN Verdict("missing_binding", Append(path, k))
    ELSE f[Place(Append(path, k), 1, order)]

(* An error ends the search; with a plan it goes on where it was left.     *)
Resume(f, path, next, v) ==
    IF v.code = "plan" THEN f[Place(path, next, v.path)] ELSE v

Turn(f, s) ==
    IF Left(s) = {} THEN Emitted(s.path, s.order)
    ELSE LET p == First(Left(s))
         IN  Resume(f, s.path, p + 1, Visit(f, Needs(s.path)[p], s.path, s.order))

Search[s \in Places] == Turn(Search, s)

-----------------------------------------------------------------------------

(* A well-formed request is answered as the recursion answers it: the same *)
(* order of steps, dependencies left to right, and the same first error    *)
(* with the same path, however deep the graph.                             *)
AnswersAsRecursion ==
    result.code \notin {"pending", "conflicting_axis"} => result = Search[Start]

=============================================================================
