------------------------------ MODULE Expected ------------------------------
(***************************************************************************)
(* What the dictionaries share (bio.hpp): the programs that can be written *)
(* for IO and for std::expected alike, the eager interpretation of them by *)
(* the Result dictionaries, and traverse, which is built from a monad.     *)
(*                                                                         *)
(* A program is a tree of Evaluator.  An "eval" leaf is user code that     *)
(* computes a result: an effect of IO, a plain call for std::expected.  An *)
(* exception leaves the Result dictionaries at once; it is written as the  *)
(* defect that it is for IO.                                               *)
(***************************************************************************)
EXTENDS Denotation

CONSTANT ItemLists \* the traversals that a run looks at

(* An item of a traversal is what the step makes of it: the kind of its    *)
(* effect's outcome, "throws" in the effect, or "refuses" when the step    *)
(* throws before it returns an effect.                                     *)
Items == {"success", "failure", "throws", "refuses"}

ASSUME ItemsAssumption == ItemLists \subseteq Seq(Items)

-----------------------------------------------------------------------------

(* Written with pure, fail, flat_map, bimap and catch_all only.            *)
IsCommon[t \in Effects] ==
    /\ \/ t.op \in {"outcome", "eval"}
       \/ t.op = "continue" /\ t.frame.kind \in {"flat_map", "bimap", "catch_all"}
    /\ \A part \in PartsOf(t) : IsCommon[part]

CommonPrograms == {t \in Effects : IsCommon[t]}

(* In what follows e tells what the dictionaries make of the parts.        *)

(* next or recover is called once the source's result is there.            *)
Apply(e, effect, source, id) ==
    LET called == Append(source.events, <<"call", id>>)
    IN  IF effect.op = "throws" THEN Meaning(Defect(id), called)
        ELSE After(called, e[effect])

EagerFlatMap(e, source, frame) ==
    IF source.out.kind = "failure" THEN source
    ELSE Apply(e, frame.next, source, frame.id)

EagerBimap(source, frame) ==
    LET failed == source.out.kind = "failure"
        callback == IF failed THEN frame.on_error ELSE frame.on_value
        out == IF callback = "throws" THEN Defect(frame.id)
               ELSE IF failed THEN Failure(frame.id) ELSE Success(frame.id)
    IN  Meaning(out, Append(source.events, <<"call", frame.id>>))

(* Mutant: what recover returns is wrapped as an error again.              *)
EagerCatchAllKept(e, source, frame) ==
    IF source.out.kind = "failure"
    THEN LET r == Apply(e, frame.recover, source, frame.id)
         IN  [r EXCEPT !.out.kind = IF @ = "success" THEN "failure" ELSE @]
    ELSE source

EagerCatchAll(e, source, frame) ==
    IF source.out.kind = "failure" THEN Apply(e, frame.recover, source, frame.id)
    ELSE source

(* The source is an argument: it is a result before the dictionary runs.   *)
EagerContinue(e, source, frame) ==
    CASE source.out.kind = "defect" -> source
      [] source.out.kind # "defect" /\ frame.kind = "flat_map" -> EagerFlatMap(e, source, frame)
      [] source.out.kind # "defect" /\ frame.kind = "bimap" -> EagerBimap(source, frame)
      [] source.out.kind # "defect" /\ frame.kind = "catch_all" -> EagerCatchAll(e, source, frame)

EagerOf(e, t) ==
    CASE t.op = "outcome" -> Meaning(t.outcome, <<>>)
      [] t.op = "eval" -> Meaning(Evaluated(t.run, t.id), <<<<"call", t.id>>>>)
      [] t.op = "continue" -> EagerContinue(e, e[t.source], t.frame)

Eager[t \in CommonPrograms] == EagerOf(Eager, t)

-----------------------------------------------------------------------------
(* traverse.  The step for item i is called in callback StepCall(i), its   *)
(* effect is i, and AppendCall(i) adds the effect's value to the result.   *)

StepCall(i) == 10 + i

AppendCall(i) == 20 + i

FlatMapped(source, id, next) ==
    [op |-> "continue", source |-> source,
     frame |-> [kind |-> "flat_map", id |-> id, next |-> next]]

Effect(item, i) == [op |-> "eval", id |-> i, run |-> item]

Visited(item, i) ==
    IF item = "refuses" THEN [op |-> "throws"]
    ELSE FlatMapped(Effect(item, i), AppendCall(i), Terminal(Success(AppendCall(i))))

(* Mutant: each round starts from the empty result again.                  *)
TraverseForgetful(items) ==
    LET result[i \in 0 .. Len(items)] ==
            IF i = 0 THEN Terminal(Success(0))
            ELSE FlatMapped(result[0], StepCall(i), Visited(items[i], i))
    IN  result[Len(items)]

Traverse(items) ==
    LET result[i \in 0 .. Len(items)] ==
            IF i = 0 THEN Terminal(Success(0))
            ELSE FlatMapped(result[i - 1], StepCall(i), Visited(items[i], i))
    IN  result[Len(items)]

-----------------------------------------------------------------------------
(* Properties.                                                             *)

(* A program that both families can run has one meaning: the trampoline    *)
(* calls the same user code in the same order as the eager dictionaries,   *)
(* and ends with the same value or error, or with the exception as defect. *)
InterpretersAgree ==
    pc = "exited" /\ faults = {} /\ program \in CommonPrograms =>
        Eager[program] = Meaning(outcome, trace)

(* The calls of n rounds, each its step, its effect and its append.        *)
Rounds(events, n) ==
    \A i \in 1 .. n :
        /\ events[3 * i - 2] = <<"call", StepCall(i)>>
        /\ events[3 * i - 1] = <<"call", i>>
        /\ events[3 * i] = <<"call", AppendCall(i)>>

AllSucceed(items, n) == \A i \in 1 .. n : items[i] = "success"

Completed(items, n, m) ==
    /\ AllSucceed(items, n)
    /\ m.out.kind = "success"
    /\ Len(m.events) = 3 * n /\ Rounds(m.events, n)

(* The first item that does not succeed is the last that is looked at.     *)
StoppedAt(items, last, m) ==
    /\ AllSucceed(items, last - 1) /\ items[last] # "success"
    /\ Rounds(m.events, last - 1)
    /\ m.events[3 * last - 2] = <<"call", StepCall(last)>>
    /\ IF items[last] = "refuses"
       THEN Len(m.events) = 3 * last - 2 /\ m.out = Defect(StepCall(last))
       ELSE /\ Len(m.events) = 3 * last - 1
            /\ m.events[3 * last - 1] = <<"call", last>>
            /\ m.out = Evaluated(items[last], last)

(* traverse calls its step for the items in their order up to the first    *)
(* that does not succeed, runs each effect before the next call, and ends  *)
(* with that item's error or exception, or with success after the last.    *)
(* No other user code runs.                                                *)
TraverseInOrder ==
    pc = "exited" /\ faults = {} =>
        \A items \in ItemLists : program = Traverse(items) =>
            LET m == Meaning(outcome, trace)
            IN  \/ Completed(items, Len(items), m)
                \/ \E last \in DOMAIN items : StoppedAt(items, last, m)

=============================================================================
