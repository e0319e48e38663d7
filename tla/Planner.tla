------------------------------- MODULE Planner -------------------------------
(***************************************************************************)
(* Planner::plan (di.hpp:334-467): validation of the request, then the     *)
(* depth-first traversal with an explicit stack.  One action per iteration *)
(* of the traversal's loops and per early return.                          *)
(***************************************************************************)
EXTENDS PlanContract

VARIABLES
    pc,         \* where the call is
    nextRoot,   \* position of the root the outer loop looks at
    states,     \* the state map; "unseen" is a key the map does not hold
    stack,      \* frames of the traversal, the innermost last
    ordered     \* keys of the steps emitted so far

traversal == <<nextRoot, states, stack, ordered>>

vars == <<request, pc, traversal, result>>

Phases == {"activation", "bindings", "contributions", "traverse", "returned"}

Frames == [key : Keys, next : Nat \ {0}]

-----------------------------------------------------------------------------

Init ==
    /\ RequestInit
    /\ pc = "activation"
    /\ nextRoot = 1
    /\ states = [k \in Keys |-> "unseen"]
    /\ stack = <<>>
    /\ ordered = <<>>
    /\ result = Pending

(* A return ends the call; its locals are left as the step found them.     *)
Return(code, path) ==
    /\ pc' = "returned"
    /\ result' = [code |-> code, path |-> path]
    /\ UNCHANGED <<request, traversal>>

Goto(phase) ==
    /\ pc' = phase
    /\ UNCHANGED <<request, traversal, result>>

-----------------------------------------------------------------------------
(* Validation.                                                             *)

CheckActivation ==
    /\ pc = "activation"
    /\ IF Consistent(activation)
       THEN Goto("bindings")
       ELSE Return("conflicting_axis", <<>>)

(* The first malformed binding in registration order ends the call.        *)
CheckBindings ==
    /\ pc = "bindings"
    /\ \/ MalformedBindings = {} /\ Goto("contributions")
       \/ \E i \in MalformedBindings :
             /\ \A j \in MalformedBindings : i <= j
             /\ Return("conflicting_axis", <<module.bindings[i].key>>)

(* Mutant: only active contributions are validated.                        *)
CheckActiveContributions ==
    /\ pc = "contributions"
    /\ LET malformed == {k \in MalformedSets : \E p \in ActiveContributions(k) :
                            ~Consistent(module.sets[k][p].tags)}
       IN  \/ malformed = {} /\ Goto("traverse")
           \/ \E k \in malformed : Return("conflicting_axis", <<k>>)

(* Sets are visited in the order std::map gives keys, which compares       *)
(* std::type_index and so is not fixed by the program.                     *)
CheckContributions ==
    /\ pc = "contributions"
    /\ \/ MalformedSets = {} /\ Goto("traverse")
       \/ \E k \in MalformedSets : Return("conflicting_axis", <<k>>)

-----------------------------------------------------------------------------
(* Traversal.                                                              *)

Top == stack[Len(stack)]

StackKeys == [i \in 1 .. Len(stack) |-> stack[i].key]

(* Positions of the top frame's step the cursor has not passed.            *)
Remaining == {p \in DOMAIN Dependencies(Top.key) : p >= Top.next}

(* Mutant: any dependency not passed, so that others may be skipped.       *)
IsAnyCursor(p) == p \in Remaining

(* frame.next_dependency: the first of them.                               *)
IsCursor(p) == p \in Remaining /\ \A q \in Remaining : p <= q

(* Mutant: the cursor is not incremented.                                  *)
AdvancedNowhere(p) ==
    [stack EXCEPT ![Len(stack)] = [key |-> Top.key, next |-> p]]

(* Mutant: the cursor is decremented.                                      *)
AdvancedBack(p) ==
    [stack EXCEPT ![Len(stack)] = [key |-> Top.key, next |-> p - 1]]

(* The stack once the cursor of its top frame has moved past position p.   *)
Advanced(p) ==
    [stack EXCEPT ![Len(stack)] = [key |-> Top.key, next |-> p + 1]]

Traversing == pc = "traverse"

InLoop == Traversing /\ stack # <<>>

AtRoot == Traversing /\ stack = <<>> /\ nextRoot <= Len(roots)

(* Mutant: the key is not marked as being visited.                         *)
PushUnmarked(k, frames) ==
    /\ Resolvable(k)
    /\ stack' = Append(frames, [key |-> k, next |-> 1])
    /\ UNCHANGED <<request, pc, nextRoot, states, ordered, result>>

(* Mutant: the step is emitted before its dependencies.                    *)
PushEmitting(k, frames) ==
    /\ Resolvable(k)
    /\ states' = [states EXCEPT ![k] = "visiting"]
    /\ stack' = Append(frames, [key |-> k, next |-> 1])
    /\ ordered' = Append(ordered, k)
    /\ UNCHANGED <<request, pc, nextRoot, result>>

(* Mutant: a key is pushed whether or not it resolves.                     *)
PushUnresolved(k, frames) ==
    /\ states' = [states EXCEPT ![k] = "visiting"]
    /\ stack' = Append(frames, [key |-> k, next |-> 1])
    /\ UNCHANGED <<request, pc, nextRoot, ordered, result>>

(* push of a key that resolves, onto the given frames.                     *)
Push(k, frames) ==
    /\ Resolvable(k)
    /\ states' = [states EXCEPT ![k] = "visiting"]
    /\ stack' = Append(frames, [key |-> k, next |-> 1])
    /\ UNCHANGED <<request, pc, nextRoot, ordered, result>>

(* Mutant: the error's path is the key alone, as resolve sets it.          *)
FailPushBare(k) ==
    \/ Ambiguous(k) /\ Return("ambiguous_binding", <<k>>)
    \/ Missing(k) /\ Return("missing_binding", <<k>>)

(* push of a key that does not: the stack's keys and the key are the path. *)
FailPush(k) ==
    \/ Ambiguous(k) /\ Return("ambiguous_binding", Append(StackKeys, k))
    \/ Missing(k) /\ Return("missing_binding", Append(StackKeys, k))

(* A root seen before is skipped; one whose traversal ended is left.       *)
NextRoot ==
    /\ AtRoot
    /\ states[roots[nextRoot]] # "unseen"
    /\ nextRoot' = nextRoot + 1
    /\ UNCHANGED <<request, pc, states, stack, ordered, result>>

StartRoot ==
    /\ AtRoot
    /\ states[roots[nextRoot]] = "unseen"
    /\ \/ Push(roots[nextRoot], stack)
       \/ FailPush(roots[nextRoot])

(* All dependencies of the top frame are done: its step is emitted.        *)
Complete ==
    /\ InLoop
    /\ Remaining = {}
    /\ states' = [states EXCEPT ![Top.key] = "complete"]
    /\ ordered' = Append(ordered, Top.key)
    /\ stack' = SubSeq(stack, 1, Len(stack) - 1)
    /\ UNCHANGED <<request, pc, nextRoot, result>>

SkipComplete ==
    /\ InLoop
    /\ \E p \in Remaining :
          /\ IsCursor(p)
          /\ states[Dependencies(Top.key)[p]] = "complete"
          /\ stack' = Advanced(p)
    /\ UNCHANGED <<request, pc, nextRoot, states, ordered, result>>

Descend ==
    /\ InLoop
    /\ \E p \in Remaining :
          /\ IsCursor(p)
          /\ states[Dependencies(Top.key)[p]] = "unseen"
          /\ \/ Push(Dependencies(Top.key)[p], Advanced(p))
             \/ FailPush(Dependencies(Top.key)[p])

(* Mutant: the whole stack, from the root on.                              *)
CyclePathFromRoot(k) == Append(StackKeys, k)

(* The stack from the frame that is still being visited, then its key.     *)
CyclePath(k) ==
    LET start == CHOOSE i \in 1 .. Len(stack) : stack[i].key = k
    IN  Append(SubSeq(StackKeys, start, Len(stack)), k)

ReportCycle ==
    /\ InLoop
    /\ \E p \in Remaining :
          /\ IsCursor(p)
          /\ states[Dependencies(Top.key)[p]] = "visiting"
          /\ Return("cycle", CyclePath(Dependencies(Top.key)[p]))

Finish ==
    /\ Traversing
    /\ stack = <<>>
    /\ nextRoot > Len(roots)
    /\ Return("plan", ordered)

-----------------------------------------------------------------------------

Next ==
    \/ CheckActivation \/ CheckBindings \/ CheckContributions
    \/ NextRoot \/ StartRoot
    \/ Complete \/ SkipComplete \/ Descend \/ ReportCycle
    \/ Finish

(* plan is a sequential call: it runs until it returns.                    *)
Spec == Init /\ [][Next]_vars /\ WF_vars(Next)

-----------------------------------------------------------------------------
(* Properties.                                                             *)

(* Every variable stays in its range; in particular no result code or      *)
(* state outside the two enumerations of the code is ever stored.          *)
TypeOK ==
    /\ RequestOK
    /\ pc \in Phases
    /\ nextRoot \in 1 .. Len(roots) + 1
    /\ states \in [Keys -> {"unseen", "visiting", "complete"}]
    /\ stack \in Seq(Frames)
    /\ ordered \in Seq(Keys)
    /\ result \in Results

(* The traversal's three records of progress agree: a key is marked        *)
(* visiting exactly while one frame of the stack holds it, and complete    *)
(* exactly when it is in the order, once.  The cycle test of the code is   *)
(* sound only because of it.                                               *)
StatesMatchStackAndOrder ==
    /\ \A k \in Keys :
          /\ states[k] = "visiting" <=> \E i \in 1 .. Len(stack) : stack[i].key = k
          /\ states[k] = "complete" <=> \E i \in 1 .. Len(ordered) : ordered[i] = k
    /\ \A i, j \in 1 .. Len(stack) : stack[i].key = stack[j].key => i = j
    /\ NoDuplicates(ordered)

(* The stack is a chain of dependencies that starts at the root being      *)
(* visited, and each frame's cursor stands just past the dependency the    *)
(* next frame was opened for; this is what makes an error's path evidence. *)
StackIsDependencyPath ==
    stack # <<>> =>
        /\ nextRoot <= Len(roots)
        /\ stack[1].key = roots[nextRoot]
        /\ \A i \in 1 .. Len(stack) - 1 :
              LET d == Dependencies(stack[i].key)
              IN  /\ stack[i].next - 1 \in DOMAIN d
                  /\ stack[i + 1].key = d[stack[i].next - 1]

(* Whatever the cursor of a frame has passed is complete, except the one   *)
(* dependency whose frame lies above; and every root already left is       *)
(* complete.  Nothing the plan needs can be skipped.                       *)
PassedIsComplete ==
    /\ \A i \in 1 .. Len(stack) : \A p \in DOMAIN Dependencies(stack[i].key) :
          p < stack[i].next =>
              \/ states[Dependencies(stack[i].key)[p]] = "complete"
              \/ i < Len(stack) /\ p = stack[i].next - 1
    /\ \A i \in 1 .. nextRoot - 1 : states[roots[i]] = "complete"

(* At every moment, not just at the end, the order is executable: each key *)
(* comes after all its dependencies.                                       *)
OrderIsTopological == DependenciesPrecede(ordered)

(* The traversal touches only keys that resolve and that the roots reach:  *)
(* a missing or ambiguous key elsewhere in the module cannot fail a plan.  *)
SeenIsNeeded ==
    \A k \in Keys : states[k] # "unseen" => Resolvable(k) /\ k \in Reachable

(* The call refines its contract: one answer, and an allowed one.          *)
RefinesContract == ContractSpec

(* plan returns for every request, cyclic and malformed ones included.     *)
Terminates == <>(pc = "returned")

=============================================================================
