----------------------------- MODULE Denotation -----------------------------
(***************************************************************************)
(* What a program of Evaluator means without a loop or a vector: a         *)
(* recursion over its tree.  A meaning is an outcome and the calls that    *)
(* lead to it.                                                             *)
(***************************************************************************)
EXTENDS Evaluator

CONSTANT Height \* of a program's tree: what a program is made of is lower

(* The programs that a program is made of.                                 *)
CalledBack(frame) ==
    CASE frame.kind = "flat_map" -> {frame.next}
      [] frame.kind = "catch_all" -> {frame.recover}
      [] frame.kind = "bracket" -> {frame.use}
      [] OTHER -> {}

PartsOf(t) ==
    LET called == CASE t.op = "suspend" -> {t.next}
                    [] t.op = "continue" -> {t.source} \cup CalledBack(t.frame)
                    [] OTHER -> {}
    IN  called \ {[op |-> "throws"]}

(* Nodes are immutable and hold what they are made of: programs are finite.*)
ASSUME HeightAssumption ==
    /\ Height \in [Effects -> Nat]
    /\ \A t \in Effects : \A p \in PartsOf(t) : Height[p] < Height[t]

-----------------------------------------------------------------------------

Meaning(out, events) == [out |-> out, events |-> events]

After(events, m) == Meaning(m.out, events \o m.events)

(* A callback that returns a program, when d tells what programs mean.     *)
Call(d, effect, id) ==
    IF effect.op = "throws"
    THEN Meaning(Defect(id), <<<<"call", id>>>>)
    ELSE After(<<<<"call", id>>>>, d[effect])

(* A callback that maps a value, wrapped by o.                             *)
Mapped(what, o, id) ==
    Meaning(IF what = "throws" THEN Defect(id) ELSE o, <<<<"call", id>>>>)

(* The resource is released whatever its use comes to.                     *)
Used(d, frame) ==
    LET used == IF frame.protect = "throws" THEN Meaning(Defect(frame.id), <<>>)
                ELSE Call(d, frame.use, frame.id)
    IN  Meaning(used.out,
            <<<<"acquire", frame.id>>>> \o used.events \o <<<<"release", frame.id>>>>)

(* What a frame makes of an outcome.                                       *)
Handle(d, frame, out) ==
    CASE frame.kind = "flat_map" /\ out.kind = "success" -> Call(d, frame.next, frame.id)
      [] frame.kind = "catch_all" /\ out.kind = "failure" -> Call(d, frame.recover, frame.id)
      [] frame.kind = "bimap" /\ out.kind = "success" ->
            Mapped(frame.on_value, Success(frame.id), frame.id)
      [] frame.kind = "bimap" /\ out.kind = "failure" ->
            Mapped(frame.on_error, Failure(frame.id), frame.id)
      [] frame.kind = "ensuring" -> Meaning(out, <<<<"finalize", frame.id>>>>)
      [] frame.kind = "release" -> Meaning(out, <<<<"release", frame.id>>>>)
      [] frame.kind = "bracket" /\ out.kind = "success" -> Used(d, frame)
      [] OTHER -> Meaning(out, <<>>)

Through(d, frame, m) == After(m.events, Handle(d, frame, m.out))

MeaningOf(d, t) ==
    CASE t.op = "null" -> Meaning(Defect(LogicError), <<>>)
      [] t.op = "outcome" -> Meaning(t.outcome, <<>>)
      [] t.op = "eval" -> Meaning(Evaluated(t.run, t.id), <<<<"call", t.id>>>>)
      [] t.op = "suspend" -> Call(d, t.next, t.id)
      [] t.op = "continue" -> After(Entering(t.frame), Through(d, t.frame, d[t.source]))

Denote[t \in Effects] == MeaningOf(Denote, t)

-----------------------------------------------------------------------------
(* What is still to come.                                                  *)

(* A node that evaluate looks at.  The protected use that a bracket makes  *)
(* is the only one whose source is no program.                             *)
NodeMeaning(t) ==
    IF t.op = "continue" /\ t.frame.kind = "release"
    THEN Through(Denote, t.frame, Call(Denote, t.source.next, t.source.id))
    ELSE MeaningOf(Denote, t)

(* A meaning through pending frames, the innermost first.                  *)
Pass(frames, m) ==
    LET passed[n \in 0 .. Len(frames)] ==
            IF n = 0 THEN m ELSE Through(Denote, frames[Len(frames) + 1 - n], passed[n - 1])
    IN  passed[Len(frames)]

Rest ==
    Pass(continuations, IF pc = "step" THEN NodeMeaning(current) ELSE Meaning(outcome, <<>>))

(* At every step the calls made so far, followed by the meaning of what is *)
(* still pending, are the meaning of the program: the loop with its vector *)
(* computes the recursion, outcome and order of calls alike.               *)
MeaningPreserved ==
    faults = {} => After(trace, Rest) = Denote[program]

=============================================================================
