------------------------------ MODULE DoDriver ------------------------------
(***************************************************************************)
(* Do-notation (do.hpp): the coroutine frame of a do block and the two     *)
(* drivers that resume it, resume_io_do on the trampoline and the loop of  *)
(* Do2<Result>.                                                            *)
(*                                                                         *)
(* Several executions of one block interleave: a description is run again, *)
(* from another thread or inside itself.  The steps of an execution end as *)
(* its body says.  An exception thrown at an await expression itself, when *)
(* mapping the source fails, is an exception of the body.  The selected    *)
(* dictionary evaluates each step once and continues at most once, as the  *)
(* library demands (README.md, "single-shot sequencing").                  *)
(***************************************************************************)
EXTENDS Naturals, Sequences

CONSTANTS
    Executions, \* executions of one block
    Bodies,     \* what an execution may meet, see DoContract
    Frames,     \* room for coroutine frames; none is used twice
    Drivers,    \* a subset of {"io", "expected"}
    None

ASSUME BodiesAssumption ==
    \A b \in Bodies : /\ b.awaits \in Seq({"success", "failure", "defect"})
                      /\ b.ends \in {"success", "defect"}

ASSUME DriversAssumption ==
    /\ Drivers \subseteq {"io", "expected"}
    /\ None \notin Frames

VARIABLES
    driver,     \* the family of the block
    body,       \* what each execution meets
    task,       \* the frame of each execution, or None
    frames,     \* each frame's coroutine and promise
    turn,       \* where each execution is
    holders,    \* what keeps its DoState, and with it the frame, alive
    outcome     \* its answer, or "none"

vars == <<driver, body, task, frames, turn, holders, outcome>>

(* A frame's point is where its coroutine is.  Its locals are alive only   *)
(* at "suspended"; its parameters until it is "destroyed".  pending and    *)
(* result are the promise's, value the awaiter's.                          *)
Unmade ==
    [point |-> "unmade", received |-> 0, pending |-> FALSE, value |-> FALSE, result |-> "none"]

Frame(e) == IF task[e] = None THEN Unmade ELSE frames[task[e]]

-----------------------------------------------------------------------------

(* No awaited step of an expected block throws: it is a value already.     *)
Init ==
    /\ driver \in Drivers
    /\ body \in [Executions -> Bodies]
    /\ driver = "expected" =>
          \A e \in Executions :
             \A i \in DOMAIN body[e].awaits : body[e].awaits[i] # "defect"
    /\ task = [e \in Executions |-> None]
    /\ frames = [f \in Frames |-> Unmade]
    /\ turn = [e \in Executions |-> "start"]
    /\ holders = [e \in Executions |-> {}]
    /\ outcome = [e \in Executions |-> "none"]

Turn(e, from, to) ==
    /\ turn[e] = from
    /\ turn' = [turn EXCEPT ![e] = to]

(* The frame becomes fr, and dies with the last of its holders.            *)
Hold(e, fr, hs) ==
    /\ frames' = [frames EXCEPT
          ![task[e]] = IF hs = {} THEN [fr EXCEPT !.point = "destroyed"] ELSE fr]
    /\ holders' = [holders EXCEPT ![e] = hs]

(* Mutant: the description keeps one frame for all its executions.         *)
StartSharing(e) ==
    /\ Turn(e, "start", "resume")
    /\ \E f \in Frames :
          /\ \/ \E other \in Executions : task[other] = f
             \/ frames[f].point = "unmade" /\ \A other \in Executions : task[other] = None
          /\ task' = [task EXCEPT ![e] = f]
          /\ frames' = [frames EXCEPT ![f].point = IF @ = "unmade" THEN "initial" ELSE @]
    /\ holders' = [holders EXCEPT ![e] = {"driver"}]
    /\ UNCHANGED <<driver, body, outcome>>

(* Each execution invokes the factory for a frame of its own.              *)
Start(e) ==
    /\ Turn(e, "start", "resume")
    /\ \E f \in Frames :
          /\ frames[f].point = "unmade"
          /\ task' = [task EXCEPT ![e] = f]
          /\ frames' = [frames EXCEPT ![f].point = "initial"]
    /\ holders' = [holders EXCEPT ![e] = {"driver"}]
    /\ UNCHANGED <<driver, body, outcome>>

(* A copy or an allocation throws on the way to a frame.                   *)
StartFails(e) ==
    /\ Turn(e, "start", "deliver")
    /\ \E f \in Frames :
          /\ frames[f].point = "unmade"
          /\ task' = [task EXCEPT ![e] = f]
          /\ frames' = [frames EXCEPT ![f].point = "destroyed"]
    /\ outcome' = [outcome EXCEPT ![e] = "fault"]
    /\ UNCHANGED <<driver, body, holders>>

(* The body from its start, or from await_resume, up to its next await or  *)
(* its end.  An expected step is a value by then, and is stored at once.   *)
Resumed(fr, b) ==
    LET got == IF fr.point = "initial" THEN 0 ELSE fr.received + 1
    IN  IF fr.point = "suspended" /\ ~fr.value
        THEN [fr EXCEPT !.point = "final", !.result = "defect"]
        ELSE IF got < Len(b.awaits)
        THEN [fr EXCEPT !.point = "suspended", !.received = got, !.pending = TRUE,
                        !.value = driver = "expected" /\ b.awaits[got + 1] = "success"]
        ELSE [fr EXCEPT !.point = "final", !.received = got, !.result = b.ends]

(* handle.resume(), undefined unless the coroutine is suspended.           *)
Resume(e) ==
    /\ Turn(e, "resume", "inspect")
    /\ Frame(e).point \in {"initial", "suspended"}
    /\ Hold(e, Resumed(Frame(e), body[e]), holders[e] \cup {"driver"})
    /\ UNCHANGED <<driver, body, task, outcome>>

-----------------------------------------------------------------------------
(* An answer reaches the trampoline, or the caller, with the frame still   *)
(* held by kept.  When the driver throws, current still holds the node it  *)
(* was called from: nothing on a first turn, the DoState on a later one.   *)

Answer(e, from, how, kept) ==
    /\ Turn(e, from, "deliver")
    /\ outcome' = [outcome EXCEPT ![e] = how]
    /\ Hold(e, Frame(e), kept)
    /\ UNCHANGED <<driver, body, task>>

Throw(e, how) == Answer(e, "inspect", how, holders[e] \ {"driver"})

Rethrow(e) == Frame(e).result = "defect" /\ Throw(e, "defect")

Complete(e) == Frame(e).result = "success" /\ Answer(e, "inspect", "success", {})

(* pure or flat_map throws: an allocation, or a copy of a user value.      *)
DictionaryFails(e) == Frame(e).result # "defect" /\ Throw(e, "fault")

(* Mutant: the continuation does not hold the state.                       *)
BindUnheld(e) ==
    /\ Turn(e, "inspect", "step")
    /\ Frame(e).point = "suspended" /\ Frame(e).pending
    /\ Hold(e, [Frame(e) EXCEPT !.pending = FALSE], IF driver = "io" THEN {} ELSE {"driver"})
    /\ UNCHANGED <<driver, body, task, outcome>>

(* The pending step is moved out of the promise and bound: from now on the *)
(* state is held by flat_map's continuation, or by the loop's own local.   *)
Bind(e) ==
    /\ Turn(e, "inspect", "step")
    /\ Frame(e).point = "suspended" /\ Frame(e).pending
    /\ Hold(e, [Frame(e) EXCEPT !.pending = FALSE],
            {IF driver = "io" THEN "continuation" ELSE "driver"})
    /\ UNCHANGED <<driver, body, task, outcome>>

Awaited(e) == body[e].awaits[Frame(e).received + 1]

(* The step stores its value through the awaiter's address in the frame;   *)
(* then the continuation makes a suspend that holds the state.             *)
StepSucceeds(e) ==
    /\ Turn(e, "step", "resume")
    /\ Awaited(e) = "success"
    /\ Hold(e, [Frame(e) EXCEPT !.value = TRUE],
            {IF driver = "io" THEN "current" ELSE "driver"})
    /\ UNCHANGED <<driver, body, task, outcome>>

(* Mutant: a step that stops the block leaves its continuation behind.     *)
StepStopsHeld(e) == Answer(e, "step", Awaited(e), holders[e]) /\ Awaited(e) # "success"

(* A failure or a defect passes the continuation, which is dropped.        *)
StepStops(e) == Answer(e, "step", Awaited(e), {}) /\ Awaited(e) # "success"

(* Mutant: the trampoline keeps its node for ever.                         *)
FinalizeHolding(e) ==
    /\ Turn(e, "deliver", "done")
    /\ Hold(e, Frame(e), holders[e])
    /\ UNCHANGED <<driver, body, task, outcome>>

(* What encloses the block runs: a finalizer, a continuation, the caller.  *)
(* The trampoline then moves on from its current node.                     *)
Finalize(e) ==
    /\ Turn(e, "deliver", "done")
    /\ Hold(e, Frame(e), {})
    /\ UNCHANGED <<driver, body, task, outcome>>

-----------------------------------------------------------------------------

Continue(e) ==
    \/ Resume(e) \/ Rethrow(e) \/ Complete(e) \/ DictionaryFails(e)
    \/ Bind(e) \/ StepSucceeds(e) \/ StepStops(e) \/ Finalize(e)

Next == \E e \in Executions : Start(e) \/ StartFails(e) \/ Continue(e)

(* Nobody has to run a description; a run that has begun goes on, since    *)
(* its steps and its finalizers return.                                    *)
Fairness == \A e \in Executions : WF_vars(Continue(e))

Spec == Init /\ [][Next]_vars /\ Fairness

-----------------------------------------------------------------------------
(* Properties.                                                             *)

Contract == INSTANCE DoContract WITH
    received <- [e \in Executions |-> Frame(e).received],
    answer <- outcome

(* Every execution, whatever the others do, hands its body the values of   *)
(* its successful steps, once each and in order, and answers as the first  *)
(* step that stopped it or as the body's end: do_ implements DoContract.   *)
RefinesContract == Contract!ContractSpec

(* The coroutine is resumed only where that is defined, at its start or    *)
(* with the awaited value stored.  While a step is evaluated, the awaiter  *)
(* it writes to is alive, and its step is not in the promise any more.     *)
FramesAreReady ==
    \A e \in Executions :
        /\ turn[e] = "resume" =>
              \/ Frame(e).point = "initial"
              \/ (Frame(e).point = "suspended" /\ Frame(e).value)
        /\ turn[e] = "step" => Frame(e).point = "suspended" /\ ~Frame(e).pending

(* The locals of the body are gone before anything that encloses the block *)
(* runs, whichever way the body ends, and the frame when the run is over.  *)
(* Only a dictionary that throws leaves them alive a little longer.        *)
CleanupInOrder ==
    \A e \in Executions :
        /\ turn[e] = "deliver" /\ outcome[e] # "fault" =>
              Frame(e).point \in {"final", "destroyed"}
        /\ turn[e] = "done" => Frame(e).point = "destroyed"

(* A run that has begun answers, and its frame is destroyed.               *)
EveryRunAnswers ==
    \A e \in Executions :
        turn[e] # "start" ~> turn[e] = "done" /\ Frame(e).point = "destroyed"

(* The claim of tests/do_test.cpp: frame cleanup precedes enclosing        *)
(* finalizers on defects, of the body or of a step that it awaits.         *)
FrameGoneBeforeFinalizers ==
    \A e \in Executions :
        turn[e] = "deliver" /\ outcome[e] = "defect" => Frame(e).point = "destroyed"

=============================================================================
