------------------------------ MODULE Evaluator ------------------------------
(***************************************************************************)
(* The IO trampoline (io.hpp): detail::evaluate with its vector of pending *)
(* continuations, the callbacks that the combinators of IO put into their  *)
(* nodes, and run_exit.                                                    *)
(*                                                                         *)
(* A program is a tree of records, one per node:                           *)
(*   [op |-> "null"]                            a moved-from IO            *)
(*   [op |-> "outcome", outcome |-> o]          terminal: pure, fail       *)
(*   [op |-> "eval", id, run |-> r]             defer, sync                *)
(*   [op |-> "suspend", id, next |-> r]         suspend                    *)
(*   [op |-> "continue", source, frame]         continue_with              *)
(* where a frame is [kind, id, ...] with the callbacks of its combinator.  *)
(* A user callback is what it does: an eval's run is an outcome's kind or  *)
(* "throws"; a callback that returns an IO is that IO's tree, or           *)
(* [op |-> "throws"]; one that maps a value is "returns" or "throws".      *)
(* Values, errors and exceptions are named by the callback they come from. *)
(*                                                                         *)
(* Faults names the operations of the runtime itself that may throw: an    *)
(* allocation in "push" (the vector grows), in "resume" (a callback's      *)
(* result gets its node) or in "handler" (a defect gets its node), and the *)
(* copy of the final value in "exit".  Each may happen again and again.    *)
(***************************************************************************)
EXTENDS Naturals, Sequences, SequencesExt

CONSTANTS
    Effects,    \* a set of trees with all the trees they are made of
    Programs,   \* the programs a run considers
    Faults,     \* the faults a run considers
    LogicError, \* the exception of a moved-from IO
    BadAlloc    \* the exception of a fault

ASSUME FaultsAssumption == Faults \subseteq {"push", "resume", "handler", "exit"}

(* What a user callback that returns an IO does.                           *)
Callbacks == Effects \cup {[op |-> "throws"]}

(* The frames of the combinators; that of a release is made by a bracket.  *)
UserFrame(frame) ==
    \/ frame.kind = "flat_map" /\ frame.next \in Callbacks
    \/ frame.kind = "catch_all" /\ frame.recover \in Callbacks
    \/ frame.kind = "bracket" /\ frame.use \in Callbacks
    \/ frame.kind \in {"bimap", "ensuring"}

ASSUME EffectsAssumption ==
    /\ Programs \subseteq Effects
    /\ \A t \in Effects :
          \/ t.op = "null"
          \/ t.op = "outcome" /\ t.outcome.kind \in {"success", "failure"}
          \/ t.op = "eval" /\ t.run \in {"success", "failure", "throws"}
          \/ t.op = "suspend" /\ t.next \in Callbacks
          \/ t.op = "continue" /\ t.source \in Effects /\ UserFrame(t.frame)

VARIABLES
    program,        \* the tree run_exit was called on
    pc,             \* "step" at the loop's head, "deliver" below the try block,
                    \* then "returned" from evaluate and "exited" from run_exit
    current,        \* evaluate's current, as the tree below that node
    continuations,  \* frames waiting for an outcome, the innermost last
    capacity,       \* number of frames the vector's buffer is sure to hold
    outcome,        \* the outcome last computed, or NotYet
    trace,          \* calls of user callbacks and scopes entered, in order
    faults          \* kinds of fault met so far

vars == <<program, pc, current, continuations, capacity, outcome, trace, faults>>

Success(v) == [kind |-> "success", value |-> v]
Failure(e) == [kind |-> "failure", value |-> e]
Defect(x) == [kind |-> "defect", value |-> x]
NotYet == [kind |-> "none"]

Terminal(o) == [op |-> "outcome", outcome |-> o]

-----------------------------------------------------------------------------

Init ==
    /\ program \in Programs
    /\ pc = "step"
    /\ current = program
    /\ continuations = <<>>
    /\ capacity = 0
    /\ outcome = NotYet
    /\ trace = <<>>
    /\ faults = {}

Fault(f) == f \in Faults /\ faults' = faults \cup {f}

NoFault == UNCHANGED faults

-----------------------------------------------------------------------------
(* The head of the loop: one instruction.                                  *)

At(op) == pc = "step" /\ current.op = op

(* The try block ends with an outcome; current still holds its node.       *)
Deliver(o, events) ==
    /\ pc' = "deliver"
    /\ outcome' = o
    /\ trace' = trace \o events
    /\ UNCHANGED <<program, current, continuations, capacity>>

MovedFrom ==
    /\ At("null")
    /\ Deliver(Defect(LogicError), <<>>)
    /\ NoFault

Larger(m, n) == IF m < n THEN n ELSE m

(* Scopes open when the frame that will close them is pending.             *)
Entering(frame) ==
    IF frame.kind = "ensuring" THEN <<<<"enter", frame.id>>>> ELSE <<>>

(* push_back: a full buffer grows, by an unspecified amount of which only  *)
(* the new frame's place is counted on; pop_back never gives memory back.  *)
Descend ==
    /\ At("continue")
    /\ continuations' = Append(continuations, current.frame)
    /\ capacity' = Larger(capacity, Len(continuations) + 1)
    /\ current' = current.source
    /\ trace' = trace \o Entering(current.frame)
    /\ UNCHANGED <<program, pc, outcome>>
    /\ NoFault

(* Growing throws, and the frame is not pending.                           *)
DescendFails ==
    /\ At("continue")
    /\ Len(continuations) = capacity
    /\ Deliver(Defect(BadAlloc), <<>>)
    /\ Fault("push")

Suspended ==
    /\ At("suspend")
    /\ IF current.next.op = "throws"
       THEN Deliver(Defect(current.id), <<<<"call", current.id>>>>)
       ELSE /\ current' = current.next
            /\ trace' = Append(trace, <<"call", current.id>>)
            /\ UNCHANGED <<program, pc, continuations, capacity, outcome>>
    /\ NoFault

Evaluated(run, id) ==
    [kind |-> IF run = "throws" THEN "defect" ELSE run, value |-> id]

Eval ==
    /\ At("eval")
    /\ Deliver(Evaluated(current.run, current.id), <<<<"call", current.id>>>>)
    /\ NoFault

Constant ==
    /\ At("outcome")
    /\ Deliver(current.outcome, <<>>)
    /\ NoFault

-----------------------------------------------------------------------------
(* Below the try block: the innermost frame is popped and resumed.         *)

Frame == Last(continuations)

Popped == Front(continuations)

Resuming(kind) ==
    /\ pc = "deliver"
    /\ continuations # <<>>
    /\ Frame.kind = kind

(* Mutant: the vector is shrunk to fit when a frame is popped.             *)
ContinueShrinking(node, events) ==
    /\ pc' = "step"
    /\ current' = node
    /\ continuations' = Popped
    /\ capacity' = Len(Popped)
    /\ trace' = trace \o events
    /\ UNCHANGED <<program, outcome>>

(* The frame's callback returns the next node.                             *)
Continue(node, events) ==
    /\ pc' = "step"
    /\ current' = node
    /\ continuations' = Popped
    /\ trace' = trace \o events
    /\ UNCHANGED <<program, capacity, outcome>>

(* Mutant: an exception becomes a declared failure.                        *)
UnwindAsFailure(exception, events, met) ==
    /\ Continue(Terminal(Failure(exception)), events)
    /\ faults' = faults \cup met

(* It throws, and the handler's terminal makes a node of the defect. If    *)
(* that allocation fails, the exception leaves evaluate, the pending       *)
(* continuations go with it, and run_exit answers the new exception.       *)
Unwind(exception, events, met) ==
    \/ /\ Continue(Terminal(Defect(exception)), events)
       /\ faults' = faults \cup met
    \/ /\ "handler" \in Faults
       /\ pc' = "exited"
       /\ outcome' = Defect(BadAlloc)
       /\ continuations' = <<>>
       /\ capacity' = 0
       /\ trace' = trace \o events
       /\ faults' = faults \cup met \cup {"handler"}
       /\ UNCHANGED <<program, current>>

Throw(exception, events) == Unwind(exception, events, {})

ThrowFault(events) ==
    "resume" \in Faults /\ Unwind(BadAlloc, events, {"resume"})

(* terminal(outcome), the end of most callbacks: it allocates a node.      *)
PassOn(o, events) ==
    \/ Continue(Terminal(o), events) /\ NoFault
    \/ ThrowFault(events)

(* A user callback that returns an IO, or throws.                          *)
Invoke(effect, id) ==
    IF effect.op = "throws"
    THEN Throw(id, <<<<"call", id>>>>)
    ELSE Continue(effect, <<<<"call", id>>>>) /\ NoFault

(* A user callback that maps a value, whose result is wrapped by o.        *)
Transform(what, o, id) ==
    IF what = "throws"
    THEN Throw(id, <<<<"call", id>>>>)
    ELSE PassOn(o, <<<<"call", id>>>>)

(* Mutant: whatever is not a defect goes to next.                          *)
ResumeFlatMapOnFailure ==
    /\ Resuming("flat_map")
    /\ IF outcome.kind # "defect"
       THEN Invoke(Frame.next, Frame.id)
       ELSE PassOn(outcome, <<>>)

ResumeFlatMap ==
    /\ Resuming("flat_map")
    /\ IF outcome.kind = "success"
       THEN Invoke(Frame.next, Frame.id)
       ELSE PassOn(outcome, <<>>)

(* Mutant: no case for a defect.                                           *)
ResumeBimapPartial ==
    /\ Resuming("bimap")
    /\ \/ /\ outcome.kind = "success"
          /\ Transform(Frame.on_value, Success(Frame.id), Frame.id)
       \/ /\ outcome.kind = "failure"
          /\ Transform(Frame.on_error, Failure(Frame.id), Frame.id)

ResumeBimap ==
    /\ Resuming("bimap")
    /\ \/ /\ outcome.kind = "success"
          /\ Transform(Frame.on_value, Success(Frame.id), Frame.id)
       \/ /\ outcome.kind = "failure"
          /\ Transform(Frame.on_error, Failure(Frame.id), Frame.id)
       \/ /\ outcome.kind = "defect"
          /\ PassOn(outcome, <<>>)

ResumeCatchAll ==
    /\ Resuming("catch_all")
    /\ IF outcome.kind = "failure"
       THEN Invoke(Frame.recover, Frame.id)
       ELSE PassOn(outcome, <<>>)

(* finalize is noexcept; terminal comes after it.                          *)
ResumeEnsuring ==
    /\ Resuming("ensuring")
    /\ PassOn(outcome, <<<<"finalize", Frame.id>>>>)

(* The finalizer that bracket itself attaches to the protected use.        *)
ResumeRelease ==
    /\ Resuming("release")
    /\ PassOn(outcome, <<<<"release", Frame.id>>>>)

(* suspend(use).ensuring(release), each over its own copy of the resource. *)
ProtectedUse(frame) ==
    [op |-> "continue",
     source |-> [op |-> "suspend", id |-> frame.id, next |-> frame.use],
     frame |-> [kind |-> "release", id |-> frame.id]]

(* Mutant: the guard is never disarmed.                                    *)
ResumeBracketArmed ==
    /\ Resuming("bracket")
    /\ IF outcome.kind # "success" THEN PassOn(outcome, <<>>)
       ELSE LET events == <<<<"acquire", Frame.id>>, <<"release", Frame.id>>>>
            IN  IF Frame.protect = "throws"
                THEN Throw(Frame.id, events)
                ELSE Continue(ProtectedUse(Frame), events) /\ NoFault

(* The resource is acquired. Building the protected use copies user        *)
(* objects, which may throw: then the armed guard releases.                *)
ResumeBracket ==
    /\ Resuming("bracket")
    /\ IF outcome.kind # "success" THEN PassOn(outcome, <<>>)
       ELSE IF Frame.protect = "throws"
       THEN Throw(Frame.id, <<<<"acquire", Frame.id>>, <<"release", Frame.id>>>>)
       ELSE \/ /\ Continue(ProtectedUse(Frame), <<<<"acquire", Frame.id>>>>)
               /\ NoFault
            \/ ThrowFault(<<<<"acquire", Frame.id>>, <<"release", Frame.id>>>>)

Return ==
    /\ pc = "deliver"
    /\ continuations = <<>>
    /\ pc' = "returned"
    /\ UNCHANGED <<program, current, continuations, capacity, outcome, trace>>
    /\ NoFault

(* run_exit copies the value out of its erased cell, which may throw.      *)
RunExit ==
    /\ pc = "returned"
    /\ pc' = "exited"
    /\ \/ NoFault /\ UNCHANGED outcome
       \/ outcome.kind # "defect" /\ Fault("exit") /\ outcome' = Defect(BadAlloc)
    /\ UNCHANGED <<program, current, continuations, capacity, trace>>

-----------------------------------------------------------------------------

Next ==
    \/ MovedFrom \/ Descend \/ DescendFails \/ Suspended \/ Eval \/ Constant
    \/ ResumeFlatMap \/ ResumeBimap \/ ResumeCatchAll
    \/ ResumeEnsuring \/ ResumeRelease \/ ResumeBracket
    \/ Return \/ RunExit

(* evaluate is one synchronous loop.                                       *)
Spec == Init /\ [][Next]_vars /\ WF_vars(Next)

-----------------------------------------------------------------------------
(* Properties.                                                             *)

Opens(e) == e[1] \in {"enter", "acquire"}

Closes(e) == e[1] \in {"finalize", "release"}

(* What an event makes of the open scopes.  Closing any other than the     *)
(* innermost leaves a mark, 0, that is never removed.                      *)
Follow(open, e) ==
    IF Opens(e) THEN Append(open, e[2])
    ELSE IF ~Closes(e) THEN open
    ELSE IF open # <<>> /\ Last(open) = e[2] THEN Front(open)
    ELSE Append(open, 0)

(* The scopes that events leave open, the innermost last.                  *)
OpenScopes(events) ==
    LET open[n \in 0 .. Len(events)] ==
            IF n = 0 THEN <<>> ELSE Follow(open[n - 1], events[n])
    IN  open[Len(events)]

IsScope(frame) == frame.kind \in {"ensuring", "release"}

(* A pending frame as the event that its scope was entered, if it has one. *)
Entered(frame) == <<IF IsScope(frame) THEN "enter" ELSE "call", frame.id>>

Awaiting(frames) == [i \in DOMAIN frames |-> Entered(frames[i])]

(* The protected use that a bracket returned: its frame is not pushed yet. *)
AwaitsRelease ==
    pc = "step" /\ current.op = "continue" /\ current.frame.kind = "release"

PendingScopes ==
    LET ids == OpenScopes(Awaiting(continuations))
    IN  IF AwaitsRelease THEN Append(ids, current.frame.id) ELSE ids

(* Whatever throws, the scopes entered and not yet closed are exactly the  *)
(* ones with a frame waiting, in that order: finalizers and releases run   *)
(* once, inside-out, and none is left when run_exit answers.  In           *)
(* particular the frame of a bracket's release always finds a place in the *)
(* buffer, the one the bracket's own frame left.  Only an exception out of *)
(* the handler loses frames (see EveryScopeIsClosed).                      *)
ScopesMatchFrames ==
    "handler" \notin faults => OpenScopes(trace) = PendingScopes

(* Even when frames are lost, nothing is closed that was not opened, and   *)
(* nothing is closed more often than it was opened.                        *)
NeverClosedTwice ==
    \A i \in DOMAIN trace :
        LET Places(P(_)) == {j \in DOMAIN trace : P(trace[j]) /\ trace[j][2] = trace[i][2]}
        IN  Cardinality(Places(Closes)) <= Cardinality(Places(Opens))

(* After a defect the run calls no user code but finalizers and releases,  *)
(* and nothing turns the defect into a value or a typed error.             *)
DefectIsFinal ==
    [][outcome.kind = "defect" =>
          /\ outcome'.kind = "defect"
          /\ trace' = trace \/ Closes(Last(trace'))]_vars

(* Every finite program exits, whatever its callbacks and the faults do.   *)
Terminates == <>(pc = "exited")

(* The claim of README.md's resource scope: release runs on every way out  *)
(* of a bracket, and a finalizer on every way out of ensuring.             *)
EveryScopeIsClosed == pc = "exited" => OpenScopes(trace) = <<>>

=============================================================================
