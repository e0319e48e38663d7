----------------------------- MODULE DoContract -----------------------------
(***************************************************************************)
(* What a do block promises (README.md, do.hpp), with no coroutine in it.  *)
(*                                                                         *)
(* An execution awaits its steps in order.  The body receives the value of *)
(* a step that succeeds; the first step that does not is the execution's   *)
(* answer, and the body never goes on.  When every step has succeeded the  *)
(* answer is how the body ends.                                            *)
(***************************************************************************)
EXTENDS Naturals, Sequences

CONSTANTS
    Executions, \* executions of one block
    Bodies      \* what an execution may meet: how its awaited steps end, and how
                \* the body ends when they all succeed

VARIABLES
    body,       \* what each execution meets
    received,   \* number of awaited values its body has received
    answer      \* its answer, or "none"; "fault" is an exception of the runtime

contractVars == <<body, received, answer>>

ContractInit ==
    /\ body \in [Executions -> Bodies]
    /\ received = [e \in Executions |-> 0]
    /\ answer = [e \in Executions |-> "none"]

Answers(e, how) ==
    /\ answer[e] = "none"
    /\ answer' = [answer EXCEPT ![e] = how]
    /\ UNCHANGED <<body, received>>

Awaiting(e) == received[e] < Len(body[e].awaits)

AwaitedStep(e) == body[e].awaits[received[e] + 1]

Receive(e) ==
    /\ answer[e] = "none"
    /\ Awaiting(e) /\ AwaitedStep(e) = "success"
    /\ received' = [received EXCEPT ![e] = @ + 1]
    /\ UNCHANGED <<body, answer>>

Stop(e) == Awaiting(e) /\ AwaitedStep(e) # "success" /\ Answers(e, AwaitedStep(e))

End(e) == ~Awaiting(e) /\ Answers(e, body[e].ends)

Fault(e) == Answers(e, "fault")

ContractNext == \E e \in Executions : Receive(e) \/ Stop(e) \/ End(e) \/ Fault(e)

ContractSpec == ContractInit /\ [][ContractNext]_contractVars

=============================================================================
