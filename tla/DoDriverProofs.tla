--------------------------- MODULE DoDriverProofs ---------------------------
(***************************************************************************)
(* DoDriver for any number of executions, any bodies, and any frames: the  *)
(* drivers implement DoContract, resume only what may be resumed, and end  *)
(* the locals of a body before what encloses it; no execution turns for    *)
(* ever.                                                                   *)
(***************************************************************************)
EXTENDS DoDriver, TLAPS

-----------------------------------------------------------------------------
(* The inductive invariant.                                                *)

FrameType ==
    [point : {"unmade", "initial", "suspended", "final", "destroyed"},
     received : Nat, pending : BOOLEAN, value : BOOLEAN,
     result : {"none", "success", "defect"}]

TypeOK ==
    /\ body \in [Executions -> Bodies]
    /\ task \in [Executions -> Frames \cup {None}]
    /\ frames \in [Frames -> FrameType]
    /\ turn \in [Executions -> {"start", "resume", "inspect", "step", "deliver", "done"}]
    /\ holders \in [Executions -> SUBSET {"driver", "continuation", "current"}]
    /\ outcome \in [Executions -> {"none", "success", "failure", "defect", "fault"}]

(* An execution has a frame from its start on, and no other has that frame.*)
FramesAreOwn ==
    /\ \A e \in Executions : task[e] = None <=> turn[e] = "start"
    /\ \A e, o \in Executions : e # o /\ task[e] # None => task[e] # task[o]
    /\ \A f \in Frames : frames[f].point = "unmade" => frames[f] = Unmade

(* What a frame looks like on each turn of its execution.                  *)
AtTurn(fr, b, t, o) ==
    /\ t = "start" <=> fr.point = "unmade"
    /\ t \in {"start", "resume", "inspect", "step"} <=> o = "none"
    /\ fr.received <= Len(b.awaits)
    /\ t = "resume" =>
          \/ fr.point = "initial" /\ fr.received = 0 /\ fr.result = "none"
          \/ /\ fr.point = "suspended" /\ fr.value /\ fr.result = "none"
             /\ fr.received < Len(b.awaits) /\ b.awaits[fr.received + 1] = "success"
    /\ t = "inspect" =>
          \/ /\ fr.point = "suspended" /\ fr.pending /\ fr.result = "none"
             /\ fr.received < Len(b.awaits)
          \/ /\ fr.point = "final" /\ fr.result = b.ends
             /\ fr.received = Len(b.awaits)
    /\ t = "step" =>
          /\ fr.point = "suspended" /\ ~fr.pending /\ fr.result = "none"
          /\ fr.received < Len(b.awaits)
    /\ t = "deliver" /\ o # "fault" => fr.point \in {"final", "destroyed"}
    /\ t = "done" => fr.point = "destroyed"

IInv ==
    /\ TypeOK
    /\ FramesAreOwn
    /\ \A e \in Executions : AtTurn(Frame(e), body[e], turn[e], outcome[e])

-----------------------------------------------------------------------------
(* Typing of frames and bodies.                                            *)

LEMMA UnmadeType == Unmade \in FrameType
BY DEF Unmade, FrameType

LEMMA FrameTyped ==
    ASSUME TypeOK, NEW e \in Executions
    PROVE  Frame(e) \in FrameType
BY UnmadeType DEF TypeOK, Frame

LEMMA BodyTyped ==
    ASSUME TypeOK, NEW e \in Executions
    PROVE  /\ body[e].awaits \in Seq({"success", "failure", "defect"})
           /\ Len(body[e].awaits) \in Nat
           /\ body[e].ends \in {"success", "defect"}
BY BodiesAssumption DEF TypeOK

LEMMA ResumedTyped ==
    ASSUME TypeOK, NEW e \in Executions, NEW fr \in FrameType
    PROVE  Resumed(fr, body[e]) \in FrameType
<1> DEFINE got == IF fr.point = "initial" THEN 0 ELSE fr.received + 1
<1>1. got \in Nat
  BY DEF FrameType
<1>2. body[e].ends \in {"success", "defect"}
  BY BodyTyped
<1>3. QED BY <1>1, <1>2 DEF Resumed, FrameType

-----------------------------------------------------------------------------
(* What an action of one execution does to everybody's frame.              *)

(* Hold replaces the execution's own frame, and no other's.                *)
LEMMA HoldFacts ==
    ASSUME IInv, NEW e \in Executions, task[e] # None,
           NEW fr \in FrameType, NEW hs \in SUBSET {"driver", "continuation", "current"},
           Hold(e, fr, hs), task' = task
    PROVE  /\ frames' \in [Frames -> FrameType]
           /\ holders' \in [Executions -> SUBSET {"driver", "continuation", "current"}]
           /\ Frame(e)' = IF hs = {} THEN [fr EXCEPT !.point = "destroyed"] ELSE fr
           /\ \A o \in Executions : o # e => Frame(o)' = Frame(o)
           /\ fr.point # "unmade" =>
                 \A f \in Frames : frames'[f].point = "unmade" => frames'[f] = Unmade
<1> DEFINE left == IF hs = {} THEN [fr EXCEPT !.point = "destroyed"] ELSE fr
<1>1. task[e] \in Frames /\ left \in FrameType
  BY DEF IInv, TypeOK, FrameType
<1>2. /\ frames \in [Frames -> FrameType]
      /\ holders \in [Executions -> SUBSET {"driver", "continuation", "current"}]
  BY DEF IInv, TypeOK
<1>3. frames' = [frames EXCEPT ![task[e]] = left]
  BY DEF Hold
<1>4. Frame(e)' = left
  BY <1>1, <1>2, <1>3 DEF Frame
<1>5. ASSUME NEW o \in Executions, o # e
      PROVE  Frame(o)' = Frame(o)
  <2>1. task[o] = None \/ (task[o] \in Frames /\ task[o] # task[e])
    BY <1>5 DEF IInv, FramesAreOwn, TypeOK
  <2>2. QED BY <1>2, <1>3, <2>1 DEF Frame
<1>6. ASSUME fr.point # "unmade", NEW f \in Frames, frames'[f].point = "unmade"
      PROVE  frames'[f] = Unmade
  <2>1. left.point # "unmade"
    BY <1>6 DEF FrameType
  <2>2. f # task[e]
    BY <1>1, <1>2, <1>3, <1>6, <2>1
  <2>3. QED BY <1>2, <1>3, <1>6, <2>2 DEF IInv, FramesAreOwn
<1>7. holders' \in [Executions -> SUBSET {"driver", "continuation", "current"}]
  BY <1>2 DEF Hold
<1>8. QED BY <1>1, <1>2, <1>3, <1>4, <1>5, <1>6, <1>7

(* An action of e that keeps its frame's owner keeps the invariant, when   *)
(* it leaves e's own frame right for its turn.                             *)
LEMMA HoldPreserves ==
    ASSUME IInv, NEW e \in Executions, task[e] # None,
           NEW fr \in FrameType, NEW hs \in SUBSET {"driver", "continuation", "current"},
           Hold(e, fr, hs), UNCHANGED <<driver, body, task>>,
           fr.point # "unmade",
           NEW t \in {"resume", "inspect", "step", "deliver", "done"},
           turn' = [turn EXCEPT ![e] = t],
           NEW w \in {"none", "success", "failure", "defect", "fault"},
           outcome' = [outcome EXCEPT ![e] = w],
           AtTurn(Frame(e)', body[e], t, w)
    PROVE  IInv'
<1>1. /\ body' = body /\ task' = task
      /\ turn' \in [Executions -> {"start", "resume", "inspect", "step", "deliver", "done"}]
      /\ outcome' \in [Executions -> {"none", "success", "failure", "defect", "fault"}]
  BY DEF IInv, TypeOK
<1>2. TypeOK'
  BY <1>1, HoldFacts DEF IInv, TypeOK
<1>3. FramesAreOwn'
  <2>1. \A o \in Executions : task'[o] = None <=> turn'[o] = "start"
    BY <1>1 DEF IInv, TypeOK, FramesAreOwn
  <2>2. \A f \in Frames : frames'[f].point = "unmade" => frames'[f] = Unmade
    BY <1>1, HoldFacts
  <2>3. QED BY <1>1, <2>1, <2>2 DEF IInv, FramesAreOwn
<1>4. ASSUME NEW o \in Executions
      PROVE  AtTurn(Frame(o)', body'[o], turn'[o], outcome'[o])
  <2>1. CASE o = e
    BY <1>1, <2>1 DEF IInv, TypeOK
  <2>2. CASE o # e
    <3>1. Frame(o)' = Frame(o)
      BY <1>1, <2>2, HoldFacts
    <3>2. turn'[o] = turn[o] /\ outcome'[o] = outcome[o]
      BY <2>2 DEF IInv, TypeOK
    <3>3. QED BY <1>1, <3>1, <3>2 DEF IInv
  <2>3. QED BY <2>1, <2>2
<1>5. QED BY <1>2, <1>3, <1>4 DEF IInv

(* Where an execution is past its start, it has a frame.                   *)
LEMMA HasFrame ==
    ASSUME IInv, NEW e \in Executions, turn[e] # "start"
    PROVE  /\ task[e] # None
           /\ Frame(e) \in FrameType /\ Frame(e).point # "unmade"
           /\ holders[e] \in SUBSET {"driver", "continuation", "current"}
BY FrameTyped DEF IInv, FramesAreOwn, AtTurn, TypeOK

(* An outcome that stays as it is, written as the lemmas want it.          *)
LEMMA SameOutcome ==
    ASSUME TypeOK, NEW e \in Executions, outcome' = outcome
    PROVE  outcome' = [outcome EXCEPT ![e] = outcome[e]]
BY DEF TypeOK

-----------------------------------------------------------------------------
(* Each action preserves the invariant.                                    *)

(* Start and StartFails take an unmade frame.                              *)
LEMMA TakeFrame ==
    ASSUME IInv, NEW e \in Executions, turn[e] = "start",
           NEW f \in Frames, frames[f].point = "unmade",
           NEW p \in {"initial", "destroyed"},
           task' = [task EXCEPT ![e] = f],
           frames' = [frames EXCEPT ![f].point = p],
           body' = body
    PROVE  /\ frames' \in [Frames -> FrameType]
           /\ Frame(e)' = [Unmade EXCEPT !.point = p]
           /\ \A o \in Executions : o # e => Frame(o)' = Frame(o)
           /\ \A o, q \in Executions : o # q /\ task'[o] # None => task'[o] # task'[q]
           /\ \A g \in Frames : frames'[g].point = "unmade" => frames'[g] = Unmade
<1>1. /\ frames \in [Frames -> FrameType] /\ task \in [Executions -> Frames \cup {None}]
      /\ frames[f] = Unmade /\ task[e] = None /\ f # None
  BY DriversAssumption DEF IInv, TypeOK, FramesAreOwn
<1>2. frames' = [frames EXCEPT ![f] = [Unmade EXCEPT !.point = p]]
  BY <1>1
<1>3. [Unmade EXCEPT !.point = p] \in FrameType
  BY DEF Unmade, FrameType
<1>4. \A o \in Executions : task[o] # f
  BY <1>1 DEF IInv, Frame, AtTurn, FramesAreOwn
<1>5. Frame(e)' = [Unmade EXCEPT !.point = p]
  BY <1>1, <1>2 DEF Frame
<1>6. ASSUME NEW o \in Executions, o # e
      PROVE  Frame(o)' = Frame(o)
  BY <1>1, <1>2, <1>4, <1>6 DEF Frame
<1>7. \A o, q \in Executions : o # q /\ task'[o] # None => task'[o] # task'[q]
  BY <1>1, <1>4 DEF IInv, FramesAreOwn
<1>8. \A g \in Frames : frames'[g].point = "unmade" => frames'[g] = Unmade
  <2>1. [Unmade EXCEPT !.point = p].point # "unmade"
    BY DEF Unmade
  <2>2. QED BY <1>1, <1>2, <2>1 DEF IInv, FramesAreOwn
<1>9. QED BY <1>1, <1>2, <1>3, <1>5, <1>6, <1>7, <1>8

(* Taking a frame keeps the invariant, for the next turn and answer that   *)
(* go with it.                                                             *)
LEMMA TakePreserves ==
    ASSUME IInv, NEW e \in Executions, turn[e] = "start",
           NEW f \in Frames, frames[f].point = "unmade",
           NEW p \in {"initial", "destroyed"},
           task' = [task EXCEPT ![e] = f],
           frames' = [frames EXCEPT ![f].point = p],
           body' = body,
           NEW t, NEW w,
           \/ p = "initial" /\ t = "resume" /\ w = "none"
           \/ p = "destroyed" /\ t = "deliver" /\ w = "fault",
           turn' = [turn EXCEPT ![e] = t],
           outcome' = [outcome EXCEPT ![e] = w],
           holders' \in [Executions -> SUBSET {"driver", "continuation", "current"}]
    PROVE  IInv'
<1>1. /\ turn \in [Executions -> {"start", "resume", "inspect", "step", "deliver", "done"}]
      /\ outcome \in [Executions -> {"none", "success", "failure", "defect", "fault"}]
      /\ task \in [Executions -> Frames \cup {None}]
      /\ f # None
  BY DriversAssumption DEF IInv, TypeOK
<1>2. TypeOK'
  BY <1>1, TakeFrame DEF IInv, TypeOK
<1>3. FramesAreOwn'
  <2>1. \A o \in Executions : task'[o] = None <=> turn'[o] = "start"
    BY <1>1 DEF IInv, FramesAreOwn
  <2>2. QED BY <2>1, TakeFrame DEF FramesAreOwn
<1>4. ASSUME NEW o \in Executions
      PROVE  AtTurn(Frame(o)', body'[o], turn'[o], outcome'[o])
  <2>1. CASE o = e
    <3>1. Frame(e)' = [Unmade EXCEPT !.point = p]
      BY TakeFrame
    <3>2. /\ [Unmade EXCEPT !.point = p].point = p
          /\ [Unmade EXCEPT !.point = p].received = 0
          /\ [Unmade EXCEPT !.point = p].result = "none"
      BY DEF Unmade
    <3>3. turn'[e] = t /\ outcome'[e] = w
      BY <1>1
    <3>4. Len(body[e].awaits) \in Nat
      BY BodyTyped DEF IInv
    <3>5. QED BY <2>1, <3>1, <3>2, <3>3, <3>4 DEF AtTurn
  <2>2. CASE o # e
    <3>1. Frame(o)' = Frame(o)
      BY <2>2, TakeFrame
    <3>2. turn'[o] = turn[o] /\ outcome'[o] = outcome[o]
      BY <1>1, <2>2
    <3>3. QED BY <3>1, <3>2 DEF IInv
  <2>3. QED BY <2>1, <2>2
<1>5. QED BY <1>2, <1>3, <1>4 DEF IInv

-----------------------------------------------------------------------------
(* The contract's view of an action.                                       *)

(* An action of e leaves what the other bodies have received.              *)
LEMMA ReceivedBy ==
    ASSUME NEW e \in Executions, NEW n \in Nat, Frame(e)'.received = n,
           \A o \in Executions : o # e => Frame(o)' = Frame(o)
    PROVE  [o \in Executions |-> Frame(o).received]'
              = [[o \in Executions |-> Frame(o).received] EXCEPT ![e] = n]
OBVIOUS

LEMMA NothingReceived ==
    ASSUME NEW e \in Executions, Frame(e)'.received = Frame(e).received,
           \A o \in Executions : o # e => Frame(o)' = Frame(o)
    PROVE  [o \in Executions |-> Frame(o).received]'
              = [o \in Executions |-> Frame(o).received]
OBVIOUS

(* An answer, with nothing received, is a step of the contract if the      *)
(* contract allows that answer.                                            *)
LEMMA AnswerRefines ==
    ASSUME IInv, NEW e \in Executions, outcome[e] = "none",
           NEW w, outcome' = [outcome EXCEPT ![e] = w], body' = body,
           Frame(e)'.received = Frame(e).received,
           \A o \in Executions : o # e => Frame(o)' = Frame(o),
           \/ w = "fault"
           \/ /\ Frame(e).received < Len(body[e].awaits)
              /\ w = Awaited(e) /\ w # "success"
           \/ Frame(e).received = Len(body[e].awaits) /\ w = body[e].ends
    PROVE  Contract!ContractNext
<1>1. [o \in Executions |-> Frame(o).received]'
          = [o \in Executions |-> Frame(o).received]
  BY NothingReceived
<1>2. Contract!Answers(e, w)
  BY <1>1 DEF Contract!Answers
<1>3. Len(body[e].awaits) \in Nat /\ Frame(e).received \in Nat
  BY BodyTyped, FrameTyped DEF IInv, FrameType
<1>4. Contract!Fault(e) \/ Contract!Stop(e) \/ Contract!End(e)
  BY <1>2, <1>3 DEF Contract!Fault, Contract!Stop, Contract!End, Contract!Awaiting,
     Contract!AwaitedStep, Awaited
<1>5. QED BY <1>4 DEF Contract!ContractNext

(* A stuttering step of the contract.                                      *)
LEMMA StutterRefines ==
    ASSUME NEW e \in Executions, UNCHANGED <<body, outcome>>,
           Frame(e)'.received = Frame(e).received,
           \A o \in Executions : o # e => Frame(o)' = Frame(o)
    PROVE  UNCHANGED Contract!contractVars
BY NothingReceived DEF Contract!contractVars

-----------------------------------------------------------------------------
(* One lemma per action: it preserves the invariant and is allowed by the  *)
(* contract.                                                               *)

LEMMA StartStep ==
    ASSUME IInv, NEW e \in Executions, Start(e) \/ StartFails(e)
    PROVE  IInv' /\ (Contract!ContractNext \/ UNCHANGED Contract!contractVars)
<1>1. turn[e] = "start" /\ outcome[e] = "none"
  BY DEF IInv, AtTurn, Start, StartFails, Turn
<1>2. Frame(e).received = 0
  BY <1>1 DEF IInv, FramesAreOwn, Frame, Unmade
<1>3. CASE Start(e)
  <2>1. PICK f \in Frames :
          /\ frames[f].point = "unmade"
          /\ task' = [task EXCEPT ![e] = f]
          /\ frames' = [frames EXCEPT ![f].point = "initial"]
    BY <1>3 DEF Start
  <2>2. /\ turn' = [turn EXCEPT ![e] = "resume"] /\ body' = body /\ outcome' = outcome
        /\ outcome' = [outcome EXCEPT ![e] = "none"]
        /\ holders' \in [Executions -> SUBSET {"driver", "continuation", "current"}]
    BY <1>1, <1>3 DEF Start, Turn, IInv, TypeOK
  <2>3. IInv'
    BY <1>1, <2>1, <2>2, TakePreserves
  <2>4. /\ Frame(e)' = [Unmade EXCEPT !.point = "initial"]
        /\ \A o \in Executions : o # e => Frame(o)' = Frame(o)
    BY <1>1, <2>1, <2>2, TakeFrame
  <2>5. Frame(e)'.received = Frame(e).received
    BY <1>2, <2>4 DEF Unmade
  <2>6. QED BY <2>2, <2>3, <2>4, <2>5, StutterRefines
<1>4. CASE StartFails(e)
  <2>1. PICK f \in Frames :
          /\ frames[f].point = "unmade"
          /\ task' = [task EXCEPT ![e] = f]
          /\ frames' = [frames EXCEPT ![f].point = "destroyed"]
    BY <1>4 DEF StartFails
  <2>2. /\ turn' = [turn EXCEPT ![e] = "deliver"] /\ body' = body
        /\ outcome' = [outcome EXCEPT ![e] = "fault"]
        /\ holders' \in [Executions -> SUBSET {"driver", "continuation", "current"}]
    BY <1>4 DEF StartFails, Turn, IInv, TypeOK
  <2>3. IInv'
    BY <1>1, <2>1, <2>2, TakePreserves
  <2>4. /\ Frame(e)' = [Unmade EXCEPT !.point = "destroyed"]
        /\ \A o \in Executions : o # e => Frame(o)' = Frame(o)
    BY <1>1, <2>1, <2>2, TakeFrame
  <2>5. Frame(e)'.received = Frame(e).received
    BY <1>2, <2>4 DEF Unmade
  <2>6. QED BY <1>1, <2>2, <2>3, <2>4, <2>5, AnswerRefines
<1>5. QED BY <1>3, <1>4

LEMMA ResumeStep ==
    ASSUME IInv, NEW e \in Executions, Resume(e)
    PROVE  IInv' /\ (Contract!ContractNext \/ UNCHANGED Contract!contractVars)
<1> DEFINE fr == Frame(e)
           re == Resumed(fr, body[e])
           hs == holders[e] \cup {"driver"}
<1>1. turn[e] = "resume" /\ turn' = [turn EXCEPT ![e] = "inspect"]
  BY DEF Resume, Turn
<1>2. /\ task[e] # None /\ fr \in FrameType /\ fr.point # "unmade"
      /\ hs \in SUBSET {"driver", "continuation", "current"} /\ hs # {}
  BY <1>1, HasFrame
<1>3. re \in FrameType
  BY <1>2, ResumedTyped DEF IInv
<1>4. AtTurn(fr, body[e], "resume", "none") /\ outcome[e] = "none"
  BY <1>1 DEF IInv, AtTurn
<1>5. /\ Len(body[e].awaits) \in Nat /\ fr.received \in Nat
  BY <1>2, BodyTyped DEF IInv, FrameType
<1>6. /\ re.point # "unmade"
      /\ AtTurn(re, body[e], "inspect", "none")
      /\ \/ re.received = fr.received
         \/ /\ fr.received < Len(body[e].awaits) /\ body[e].awaits[fr.received + 1] = "success"
            /\ re.received = fr.received + 1
  <2>1. CASE fr.point = "initial"
    <3>1. fr.received = 0 /\ fr.result = "none"
      BY <1>4, <2>1 DEF AtTurn
    <3>2. CASE 0 < Len(body[e].awaits)
      <4>1. re = [fr EXCEPT !.point = "suspended", !.received = 0, !.pending = TRUE,
                     !.value = driver = "expected" /\ body[e].awaits[0 + 1] = "success"]
        BY <2>1, <3>2 DEF Resumed
      <4>2. /\ re.point = "suspended" /\ re.received = 0 /\ re.pending /\ re.result = "none"
        BY <1>2, <3>1, <4>1 DEF FrameType
      <4>3. QED BY <1>5, <3>1, <3>2, <4>2 DEF AtTurn
    <3>3. CASE Len(body[e].awaits) = 0
      <4>1. re = [fr EXCEPT !.point = "final", !.received = 0, !.result = body[e].ends]
        BY <2>1, <3>3 DEF Resumed
      <4>2. re.point = "final" /\ re.received = 0 /\ re.result = body[e].ends
        BY <1>2, <4>1 DEF FrameType
      <4>3. QED BY <1>5, <3>1, <3>3, <4>2 DEF AtTurn
    <3>4. QED BY <1>5, <3>2, <3>3
  <2>2. CASE fr.point # "initial"
    <3>1. /\ fr.point = "suspended" /\ fr.value /\ fr.result = "none"
          /\ fr.received < Len(body[e].awaits)
          /\ body[e].awaits[fr.received + 1] = "success"
      BY <1>4, <2>2 DEF AtTurn
    <3>2. CASE fr.received + 1 < Len(body[e].awaits)
      <4>1. re = [fr EXCEPT !.point = "suspended", !.received = fr.received + 1, !.pending = TRUE,
                     !.value = driver = "expected" /\ body[e].awaits[fr.received + 1 + 1] = "success"]
        BY <3>1, <3>2 DEF Resumed
      <4>2. /\ re.point = "suspended" /\ re.received = fr.received + 1 /\ re.pending
            /\ re.result = "none"
        BY <1>2, <3>1, <4>1 DEF FrameType
      <4>3. QED BY <1>5, <3>1, <3>2, <4>2 DEF AtTurn
    <3>3. CASE ~(fr.received + 1 < Len(body[e].awaits))
      <4>1. re = [fr EXCEPT !.point = "final", !.received = fr.received + 1,
                     !.result = body[e].ends]
        BY <3>1, <3>3 DEF Resumed
      <4>2. /\ re.point = "final" /\ re.received = fr.received + 1 /\ re.result = body[e].ends
        BY <1>2, <4>1 DEF FrameType
      <4>3. fr.received + 1 = Len(body[e].awaits)
        BY <1>5, <3>1, <3>3
      <4>4. QED BY <1>5, <3>1, <4>2, <4>3 DEF AtTurn
    <3>4. QED BY <3>2, <3>3
  <2>3. QED BY <2>1, <2>2
<1>7. Hold(e, re, hs) /\ UNCHANGED <<driver, body, task, outcome>>
  BY DEF Resume
<1>8. Frame(e)' = re /\ \A o \in Executions : o # e => Frame(o)' = Frame(o)
  BY <1>2, <1>3, <1>7, HoldFacts
<1>9. outcome' = [outcome EXCEPT ![e] = "none"]
  BY <1>4, <1>7, SameOutcome DEF IInv
<1>10. IInv'
  BY <1>1, <1>2, <1>3, <1>6, <1>7, <1>8, <1>9, HoldPreserves
<1>11. CASE re.received = fr.received
  BY <1>7, <1>8, <1>10, <1>11, StutterRefines
<1>12. CASE /\ fr.received < Len(body[e].awaits) /\ body[e].awaits[fr.received + 1] = "success"
            /\ re.received = fr.received + 1
  <2>1. [o \in Executions |-> Frame(o).received]'
            = [[o \in Executions |-> Frame(o).received] EXCEPT ![e] = fr.received + 1]
    BY <1>5, <1>8, <1>12, ReceivedBy
  <2>2. Contract!Receive(e)
    BY <1>4, <1>7, <1>12, <2>1 DEF Contract!Receive, Contract!Awaiting, Contract!AwaitedStep
  <2>3. QED BY <1>10, <2>2 DEF Contract!ContractNext
<1>13. QED BY <1>6, <1>11, <1>12

(* Rethrow, Complete, DictionaryFails and StepStops are answers.           *)
LEMMA AnswerStep ==
    ASSUME IInv, NEW e \in Executions, NEW t \in {"inspect", "step"}, NEW w,
           NEW kept \in SUBSET {"driver", "continuation", "current"},
           Answer(e, t, w, kept),
           \/ w = "fault"
           \/ /\ Frame(e).received < Len(body[e].awaits)
              /\ w = Awaited(e) /\ w # "success" /\ kept = {}
           \/ /\ Frame(e).received = Len(body[e].awaits) /\ w = body[e].ends
              /\ Frame(e).point = "final"
    PROVE  IInv' /\ Contract!ContractNext
<1> DEFINE fr == Frame(e)
<1>1. /\ turn[e] = t /\ turn' = [turn EXCEPT ![e] = "deliver"]
      /\ outcome' = [outcome EXCEPT ![e] = w]
      /\ Hold(e, fr, kept) /\ UNCHANGED <<driver, body, task>>
  BY DEF Answer, Turn
<1>2. task[e] # None /\ fr \in FrameType /\ fr.point # "unmade"
  BY <1>1, HasFrame
<1>3. /\ Frame(e)' = IF kept = {} THEN [fr EXCEPT !.point = "destroyed"] ELSE fr
      /\ \A o \in Executions : o # e => Frame(o)' = Frame(o)
  BY <1>1, <1>2, HoldFacts
<1>4. /\ Frame(e)'.received = fr.received
      /\ Frame(e)'.point = IF kept = {} THEN "destroyed" ELSE fr.point
  BY <1>2, <1>3 DEF FrameType
<1>5. outcome[e] = "none" /\ fr.received <= Len(body[e].awaits)
  BY <1>1 DEF IInv, AtTurn
<1>6. /\ body[e].awaits \in Seq({"success", "failure", "defect"})
      /\ Len(body[e].awaits) \in Nat /\ body[e].ends \in {"success", "defect"}
      /\ fr.received \in Nat
  BY <1>2, BodyTyped DEF IInv, FrameType
<1>7. w \in {"success", "failure", "defect", "fault"}
  BY <1>6 DEF Awaited
<1>8. AtTurn(Frame(e)', body[e], "deliver", w)
  BY <1>2, <1>4, <1>5, <1>7 DEF AtTurn
<1>9. IInv'
  BY <1>1, <1>2, <1>7, <1>8, HoldPreserves
<1>10. Contract!ContractNext
  BY <1>1, <1>3, <1>4, <1>5, AnswerRefines
<1>11. QED BY <1>9, <1>10

(* What an execution that is inspected or waits for a step may answer.     *)
LEMMA AnswersStep ==
    ASSUME IInv, NEW e \in Executions,
           Rethrow(e) \/ Complete(e) \/ DictionaryFails(e) \/ StepStops(e)
    PROVE  IInv' /\ Contract!ContractNext
<1> DEFINE fr == Frame(e)
<1>1. \A t : turn[e] = t => AtTurn(fr, body[e], t, outcome[e])
  BY DEF IInv
<1>2. body[e].ends \in {"success", "defect"}
  BY BodyTyped DEF IInv
<1>3. holders[e] \ {"driver"} \in SUBSET {"driver", "continuation", "current"}
  BY DEF IInv, TypeOK
<1>4. CASE Rethrow(e)
  <2>1. turn[e] = "inspect" /\ fr.result = "defect"
    BY <1>4 DEF Rethrow, Throw, Answer, Turn
  <2>2. fr.point = "final" /\ body[e].ends = "defect" /\ fr.received = Len(body[e].awaits)
    BY <1>1, <2>1 DEF AtTurn
  <2>3. QED BY <1>3, <1>4, <2>2, AnswerStep DEF Rethrow, Throw
<1>5. CASE Complete(e)
  <2>1. turn[e] = "inspect" /\ fr.result = "success"
    BY <1>5 DEF Complete, Answer, Turn
  <2>2. fr.point = "final" /\ body[e].ends = "success" /\ fr.received = Len(body[e].awaits)
    BY <1>1, <2>1 DEF AtTurn
  <2>3. QED BY <1>5, <2>2, AnswerStep DEF Complete
<1>6. CASE DictionaryFails(e)
  BY <1>3, <1>6, AnswerStep DEF DictionaryFails, Throw
<1>7. CASE StepStops(e)
  <2>1. turn[e] = "step" /\ Answer(e, "step", Awaited(e), {}) /\ Awaited(e) # "success"
    BY <1>7 DEF StepStops, Answer, Turn
  <2>2. fr.received < Len(body[e].awaits)
    BY <1>1, <2>1 DEF AtTurn
  <2>3. QED BY <2>1, <2>2, AnswerStep
<1>8. QED BY <1>4, <1>5, <1>6, <1>7

(* An action that gives the frame to other holders, receives nothing and   *)
(* answers nothing.                                                        *)
LEMMA QuietStep ==
    ASSUME IInv, NEW e \in Executions, turn[e] # "start",
           NEW fr \in FrameType, NEW hs \in SUBSET {"driver", "continuation", "current"},
           Hold(e, fr, hs), UNCHANGED <<driver, body, task, outcome>>,
           fr.point # "unmade", fr.received = Frame(e).received,
           NEW t \in {"resume", "step", "done"}, turn' = [turn EXCEPT ![e] = t],
           AtTurn(Frame(e)', body[e], t, outcome[e])
    PROVE  IInv' /\ UNCHANGED Contract!contractVars
<1>1. task[e] # None
  BY HasFrame
<1>2. /\ Frame(e)' = IF hs = {} THEN [fr EXCEPT !.point = "destroyed"] ELSE fr
      /\ \A o \in Executions : o # e => Frame(o)' = Frame(o)
  BY <1>1, HoldFacts
<1>3. Frame(e)'.received = Frame(e).received
  BY <1>2 DEF FrameType
<1>4. /\ outcome' = [outcome EXCEPT ![e] = outcome[e]]
      /\ outcome[e] \in {"none", "success", "failure", "defect", "fault"}
  BY SameOutcome DEF IInv, TypeOK
<1>5. IInv'
  BY <1>1, <1>4, HoldPreserves
<1>6. QED BY <1>2, <1>3, <1>5, StutterRefines

LEMMA BindStep ==
    ASSUME IInv, NEW e \in Executions, Bind(e)
    PROVE  IInv' /\ UNCHANGED Contract!contractVars
<1> DEFINE fr == [Frame(e) EXCEPT !.pending = FALSE]
           hs == {IF driver = "io" THEN "continuation" ELSE "driver"}
<1>1. /\ turn[e] = "inspect" /\ turn' = [turn EXCEPT ![e] = "step"]
      /\ Frame(e).point = "suspended" /\ Hold(e, fr, hs)
      /\ UNCHANGED <<driver, body, task, outcome>>
  BY DEF Bind, Turn
<1>2. task[e] # None /\ Frame(e) \in FrameType
  BY <1>1, HasFrame
<1>3. /\ fr \in FrameType /\ fr.point = "suspended" /\ ~fr.pending
      /\ fr.received = Frame(e).received /\ fr.result = Frame(e).result
  BY <1>1, <1>2 DEF FrameType
<1>4. AtTurn(fr, body[e], "step", outcome[e])
  BY <1>1, <1>3 DEF IInv, AtTurn
<1>5. Frame(e)' = fr
  BY <1>1, <1>2, <1>3, HoldFacts
<1>6. QED BY <1>1, <1>3, <1>4, <1>5, QuietStep

LEMMA StepSucceedsStep ==
    ASSUME IInv, NEW e \in Executions, StepSucceeds(e)
    PROVE  IInv' /\ UNCHANGED Contract!contractVars
<1> DEFINE fr == [Frame(e) EXCEPT !.value = TRUE]
           hs == {IF driver = "io" THEN "current" ELSE "driver"}
<1>1. /\ turn[e] = "step" /\ turn' = [turn EXCEPT ![e] = "resume"]
      /\ body[e].awaits[Frame(e).received + 1] = "success"
      /\ Hold(e, fr, hs) /\ UNCHANGED <<driver, body, task, outcome>>
  BY DEF StepSucceeds, Turn, Awaited
<1>2. task[e] # None /\ Frame(e) \in FrameType
  BY <1>1, HasFrame
<1>3. /\ fr \in FrameType /\ fr.value /\ fr.point = Frame(e).point
      /\ fr.received = Frame(e).received /\ fr.result = Frame(e).result
  BY <1>2 DEF FrameType
<1>4. AtTurn(fr, body[e], "resume", outcome[e]) /\ fr.point = "suspended"
  BY <1>1, <1>3 DEF IInv, AtTurn
<1>5. Frame(e)' = fr
  BY <1>1, <1>2, <1>3, HoldFacts
<1>6. QED BY <1>1, <1>3, <1>4, <1>5, QuietStep

LEMMA FinalizeStep ==
    ASSUME IInv, NEW e \in Executions, Finalize(e)
    PROVE  IInv' /\ UNCHANGED Contract!contractVars
<1>1. /\ turn[e] = "deliver" /\ turn' = [turn EXCEPT ![e] = "done"]
      /\ Hold(e, Frame(e), {}) /\ UNCHANGED <<driver, body, task, outcome>>
  BY DEF Finalize, Turn
<1>2. task[e] # None /\ Frame(e) \in FrameType /\ Frame(e).point # "unmade"
  BY <1>1, HasFrame
<1>3. Frame(e)' = [Frame(e) EXCEPT !.point = "destroyed"]
  BY <1>1, <1>2, HoldFacts
<1>4. Frame(e)'.point = "destroyed" /\ Frame(e)'.received = Frame(e).received
  BY <1>2, <1>3 DEF FrameType
<1>5. AtTurn(Frame(e)', body[e], "done", outcome[e])
  BY <1>1, <1>4 DEF IInv, AtTurn
<1>6. QED BY <1>1, <1>2, <1>5, QuietStep

-----------------------------------------------------------------------------
(* The specification.                                                      *)

LEMMA InitOK == Init => IInv /\ Contract!ContractInit
<1> SUFFICES ASSUME Init
             PROVE  IInv /\ Contract!ContractInit
  OBVIOUS
<1>1. TypeOK
  BY UnmadeType DEF Init, TypeOK
<1>2. FramesAreOwn
  BY DEF Init, FramesAreOwn
<1>3. \A e \in Executions : Frame(e) = Unmade
  BY DEF Init, Frame
<1>4. \A e \in Executions : AtTurn(Frame(e), body[e], turn[e], outcome[e])
  <2> SUFFICES ASSUME NEW e \in Executions
               PROVE  AtTurn(Frame(e), body[e], turn[e], outcome[e])
    OBVIOUS
  <2>1. turn[e] = "start" /\ outcome[e] = "none"
    BY DEF Init
  <2>2. Frame(e).point = "unmade" /\ Frame(e).received = 0
    BY <1>3 DEF Unmade
  <2>3. Len(body[e].awaits) \in Nat
    BY <1>1, BodyTyped
  <2>4. QED BY <2>1, <2>2, <2>3 DEF AtTurn
<1>5. Contract!ContractInit
  BY <1>3 DEF Init, Contract!ContractInit, Unmade
<1>6. QED BY <1>1, <1>2, <1>4, <1>5 DEF IInv

LEMMA NextOK ==
    IInv /\ [Next]_vars => IInv' /\ [Contract!ContractNext]_(Contract!contractVars)
<1> SUFFICES ASSUME IInv, [Next]_vars
             PROVE  IInv' /\ (Contract!ContractNext \/ UNCHANGED Contract!contractVars)
  OBVIOUS
<1>1. CASE UNCHANGED vars
  BY <1>1 DEF vars, IInv, TypeOK, FramesAreOwn, Frame, Contract!contractVars
<1>2. CASE Next
  <2>1. PICK e \in Executions : Start(e) \/ StartFails(e) \/ Continue(e)
    BY <1>2 DEF Next
  <2>2. CASE Start(e) \/ StartFails(e)
    BY <2>2, StartStep
  <2>3. CASE Resume(e)
    BY <2>3, ResumeStep
  <2>4. CASE Rethrow(e) \/ Complete(e) \/ DictionaryFails(e) \/ StepStops(e)
    BY <2>4, AnswersStep
  <2>5. CASE Bind(e)
    BY <2>5, BindStep
  <2>6. CASE StepSucceeds(e)
    BY <2>6, StepSucceedsStep
  <2>7. CASE Finalize(e)
    BY <2>7, FinalizeStep
  <2>8. QED BY <2>1, <2>2, <2>3, <2>4, <2>5, <2>6, <2>7 DEF Continue
<1>3. QED BY <1>1, <1>2

(* The invariant holds of every behaviour.                                 *)
THEOREM Invariance == Spec => []IInv
<1>1. Init => IInv
  BY InitOK
<1>2. IInv /\ [Next]_vars => IInv'
  BY NextOK
<1>3. QED BY <1>1, <1>2, PTL DEF Spec

(* The drivers of do.hpp implement the contract of a do block: each body   *)
(* receives the values of its steps in order, and its answer is the first  *)
(* step that stops it or its own end.                                      *)
THEOREM DriverRefinesContract == Spec => RefinesContract
<1>1. Init => Contract!ContractInit
  BY InitOK
<1>2. IInv /\ [Next]_vars => [Contract!ContractNext]_(Contract!contractVars)
  BY NextOK
<1>3. QED BY <1>1, <1>2, Invariance, PTL DEF Spec, RefinesContract, Contract!ContractSpec

(* resume_io_do and the loop of Do2<Result> resume a coroutine only where  *)
(* that is defined, and a step writes only into an awaiter that lives.     *)
THEOREM FramesAlwaysReady == Spec => []FramesAreReady
<1>1. IInv => FramesAreReady
  BY DEF IInv, AtTurn, FramesAreReady
<1>2. QED BY <1>1, Invariance, PTL

(* The locals of a body die before what encloses its block runs, unless    *)
(* the dictionary throws, and the frame before the run is over.            *)
THEOREM CleanupAlwaysInOrder == Spec => []CleanupInOrder
<1>1. IInv => CleanupInOrder
  BY DEF IInv, AtTurn, CleanupInOrder
<1>2. QED BY <1>1, Invariance, PTL

-----------------------------------------------------------------------------
(* How many turns an execution has left, at most.                          *)

TurnsOf(fr, b, t) ==
    LET toReceive == Len(b.awaits) - fr.received
    IN  CASE t = "start" -> 3 * toReceive + 4
          [] t = "resume" -> IF fr.point = "initial" THEN 3 * toReceive + 3 ELSE 3 * toReceive
          [] t = "inspect" -> 3 * toReceive + 2
          [] t = "step" -> 3 * toReceive + 1
          [] t = "deliver" -> 1
          [] t = "done" -> 0

TurnsLeft(e) == TurnsOf(Frame(e), body[e], turn[e])

LEMMA TurnsLeftType ==
    ASSUME IInv, NEW e \in Executions
    PROVE  TurnsLeft(e) \in Nat
<1>1. PICK n \in Nat, m \in Nat : n = Len(body[e].awaits) /\ m = Frame(e).received /\ m <= n
  BY BodyTyped, FrameTyped DEF IInv, AtTurn, FrameType
<1>2. turn[e] \in {"start", "resume", "inspect", "step", "deliver", "done"}
  BY DEF IInv, TypeOK
<1>3. PICK d \in Nat : d = Len(body[e].awaits) - Frame(e).received
  BY <1>1
<1>4. TurnsLeft(e) \in {3 * d + 4, 3 * d + 3, 3 * d + 2, 3 * d + 1, 3 * d, 1, 0}
  BY <1>2, <1>3 DEF TurnsLeft, TurnsOf
<1>5. QED BY <1>3, <1>4

(* A step of one execution is no turn of another.                          *)
LEMMA OthersKeepTurns ==
    ASSUME IInv, NEW o \in Executions, Start(o) \/ StartFails(o) \/ Continue(o)
    PROVE  /\ body' = body /\ \E t : turn' = [turn EXCEPT ![o] = t] /\ turn[o] # t
           /\ \A e \in Executions : e # o => Frame(e)' = Frame(e)
<1>1. CASE Start(o)
  <2>1. PICK f \in Frames :
          /\ frames[f].point = "unmade"
          /\ task' = [task EXCEPT ![o] = f]
          /\ frames' = [frames EXCEPT ![f].point = "initial"]
    BY <1>1 DEF Start
  <2>2. /\ turn[o] = "start" /\ turn' = [turn EXCEPT ![o] = "resume"] /\ body' = body
        /\ turn[o] # "resume"
    BY <1>1 DEF Start, Turn
  <2>3. \A e \in Executions : e # o => Frame(e)' = Frame(e)
    BY <2>1, <2>2, TakeFrame
  <2>4. QED BY <2>2, <2>3, Zenon
<1>2. CASE StartFails(o)
  <2>1. PICK f \in Frames :
          /\ frames[f].point = "unmade"
          /\ task' = [task EXCEPT ![o] = f]
          /\ frames' = [frames EXCEPT ![f].point = "destroyed"]
    BY <1>2 DEF StartFails
  <2>2. /\ turn[o] = "start" /\ turn' = [turn EXCEPT ![o] = "deliver"] /\ body' = body
        /\ turn[o] # "deliver"
    BY <1>2 DEF StartFails, Turn
  <2>3. \A e \in Executions : e # o => Frame(e)' = Frame(e)
    BY <2>1, <2>2, TakeFrame
  <2>4. QED BY <2>2, <2>3, Zenon
<1>3. CASE Continue(o)
  <2>1. PICK from \in {"resume", "inspect", "step", "deliver"},
             to \in {"resume", "inspect", "step", "deliver", "done"} :
           Turn(o, from, to) /\ from # to /\ body' = body /\ task' = task
    BY <1>3 DEF Continue, Resume, Rethrow, Complete, DictionaryFails, Throw, Answer, Bind,
                StepSucceeds, StepStops, Finalize
  <2>2. turn[o] # "start"
    BY <2>1 DEF Turn
  <2>3. /\ task[o] # None /\ Frame(o) \in FrameType
        /\ holders[o] \in SUBSET {"driver", "continuation", "current"}
    BY <2>2, HasFrame
  <2>4. PICK fr \in FrameType, hs \in SUBSET {"driver", "continuation", "current"} :
           Hold(o, fr, hs)
    <3>1. Resumed(Frame(o), body[o]) \in FrameType
      BY <2>3, ResumedTyped DEF IInv
    <3>2. /\ [Frame(o) EXCEPT !.pending = FALSE] \in FrameType
          /\ [Frame(o) EXCEPT !.value = TRUE] \in FrameType
      BY <2>3 DEF FrameType
    <3>3. CASE Resume(o)
      BY <2>3, <3>1, <3>3 DEF Resume
    <3>4. CASE Bind(o)
      BY <2>3, <3>2, <3>4 DEF Bind
    <3>5. CASE StepSucceeds(o)
      BY <2>3, <3>2, <3>5 DEF StepSucceeds
    <3>6. CASE Rethrow(o) \/ Complete(o) \/ DictionaryFails(o) \/ StepStops(o) \/ Finalize(o)
      BY <2>3, <3>6 DEF Rethrow, Complete, DictionaryFails, Throw, StepStops, Answer, Finalize
    <3>7. QED BY <1>3, <3>3, <3>4, <3>5, <3>6 DEF Continue
  <2>5. \A e \in Executions : e # o => Frame(e)' = Frame(e)
    BY <2>1, <2>3, <2>4, HoldFacts
  <2>6. QED BY <2>1, <2>5 DEF Turn
<1>4. QED BY <1>1, <1>2, <1>3

(* A turn of an execution, when it is right for the turn after it.         *)
LEMMA TurnTaken ==
    ASSUME IInv, IInv', NEW e \in Executions, Start(e) \/ StartFails(e) \/ Continue(e)
    PROVE  TurnsLeft(e)' < TurnsLeft(e)
<1>1. PICK n \in Nat, m \in Nat :
         /\ n = Len(body[e].awaits) /\ m = Frame(e).received /\ m <= n /\ body' = body
  BY BodyTyped, FrameTyped, OthersKeepTurns DEF IInv, AtTurn, FrameType
<1>2. PICK k : k = Frame(e)'.received
  OBVIOUS
<1>3. AtTurn(Frame(e), body[e], turn[e], outcome[e])
  BY DEF IInv
<1>4. turn \in [Executions -> {"start", "resume", "inspect", "step", "deliver", "done"}]
  BY DEF IInv, TypeOK
<1>5. CASE Start(e)
  <2>1. PICK f \in Frames :
          /\ frames[f].point = "unmade"
          /\ task' = [task EXCEPT ![e] = f]
          /\ frames' = [frames EXCEPT ![f].point = "initial"]
    BY <1>5 DEF Start
  <2>2. turn[e] = "start" /\ turn'[e] = "resume"
    BY <1>4, <1>5 DEF Start, Turn
  <2>3. Frame(e)' = [Unmade EXCEPT !.point = "initial"]
    BY <1>1, <2>1, <2>2, TakeFrame
  <2>4. Frame(e)'.received = 0 /\ Frame(e)'.point = "initial" /\ m = 0
    BY <1>1, <2>2, <2>3 DEF Unmade, IInv, FramesAreOwn, Frame
  <2>5. TurnsLeft(e) = 3 * (n - m) + 4
    BY <1>1, <2>2 DEF TurnsLeft, TurnsOf
  <2>6. TurnsLeft(e)' = 3 * (n - 0) + 3
    BY <1>1, <2>2, <2>4 DEF TurnsLeft, TurnsOf
  <2>7. QED BY <1>1, <2>4, <2>5, <2>6
<1>6. CASE Resume(e)
  <2>1. turn[e] = "resume" /\ turn'[e] = "inspect"
    BY <1>4, <1>6 DEF Resume, Turn
  <2>2. /\ task[e] # None /\ Frame(e) \in FrameType
        /\ holders[e] \cup {"driver"} \in SUBSET {"driver", "continuation", "current"}
    BY <2>1, HasFrame
  <2>3. PICK re \in FrameType : re = Resumed(Frame(e), body[e])
    BY <2>2, ResumedTyped DEF IInv
  <2>4. Frame(e)' = re
    BY <1>6, <2>2, <2>3, HoldFacts DEF Resume
  <2>5. TurnsLeft(e)' = 3 * (n - re.received) + 2
    BY <1>1, <2>1, <2>4 DEF TurnsLeft, TurnsOf
  <2>6. re.received \in Nat
    BY DEF FrameType
  <2>7. CASE Frame(e).point = "initial"
    <3>1. m = 0
      BY <1>1, <1>3, <2>1, <2>7 DEF AtTurn
    <3>2. TurnsLeft(e) = 3 * (n - m) + 3
      BY <1>1, <2>1, <2>7 DEF TurnsLeft, TurnsOf
    <3>3. QED BY <1>1, <2>5, <2>6, <3>1, <3>2
  <2>8. CASE Frame(e).point # "initial"
    <3>1. Frame(e).point = "suspended" /\ Frame(e).value
      BY <1>3, <2>1, <2>8 DEF AtTurn
    <3>2. re.received = m + 1
      BY <1>1, <2>2, <2>3, <3>1 DEF Resumed, FrameType
    <3>3. TurnsLeft(e) = 3 * (n - m)
      BY <1>1, <2>1, <2>8 DEF TurnsLeft, TurnsOf
    <3>4. QED BY <1>1, <2>5, <3>2, <3>3
  <2>9. QED BY <2>7, <2>8
<1>7. CASE Bind(e) \/ StepSucceeds(e)
  <2>1. \/ turn[e] = "inspect" /\ turn'[e] = "step"
        \/ turn[e] = "step" /\ turn'[e] = "resume"
    BY <1>4, <1>7 DEF Bind, StepSucceeds, Turn
  <2>2. task[e] # None /\ Frame(e) \in FrameType
    BY <2>1, HasFrame
  <2>3. PICK fr \in FrameType, hs \in SUBSET {"driver", "continuation", "current"} :
           Hold(e, fr, hs) /\ fr.received = m /\ fr.point = Frame(e).point /\ hs # {}
                           /\ task' = task
    <3>1. /\ [Frame(e) EXCEPT !.pending = FALSE] \in FrameType
          /\ [Frame(e) EXCEPT !.value = TRUE] \in FrameType
          /\ [Frame(e) EXCEPT !.pending = FALSE].received = m
          /\ [Frame(e) EXCEPT !.value = TRUE].received = m
          /\ [Frame(e) EXCEPT !.pending = FALSE].point = Frame(e).point
          /\ [Frame(e) EXCEPT !.value = TRUE].point = Frame(e).point
      BY <1>1, <2>2 DEF FrameType
    <3>2. CASE Bind(e)
      BY <3>1, <3>2 DEF Bind
    <3>3. CASE StepSucceeds(e)
      BY <3>1, <3>3 DEF StepSucceeds
    <3>4. QED BY <1>7, <3>2, <3>3
  <2>4. Frame(e)' = fr
    BY <2>2, <2>3, HoldFacts
  <2>5. turn[e] = "step" => Frame(e).point = "suspended"
    BY <1>3 DEF AtTurn
  <2>6. QED BY <1>1, <2>1, <2>3, <2>4, <2>5 DEF TurnsLeft, TurnsOf
<1>8. CASE \/ StartFails(e) \/ Rethrow(e) \/ Complete(e) \/ DictionaryFails(e) \/ StepStops(e)
  <2>1. turn[e] \in {"start", "inspect", "step"} /\ turn'[e] = "deliver"
    BY <1>4, <1>8 DEF StartFails, Rethrow, Complete, DictionaryFails, StepStops, Throw, Answer, Turn
  <2>2. turn[e] = "step" => m < n
    BY <1>1, <1>3 DEF AtTurn
  <2>3. TurnsLeft(e)' = 1
    BY <2>1 DEF TurnsLeft, TurnsOf
  <2>4. QED BY <1>1, <2>1, <2>2, <2>3 DEF TurnsLeft, TurnsOf
<1>9. CASE Finalize(e)
  <2>1. turn[e] = "deliver" /\ turn'[e] = "done"
    BY <1>4, <1>9 DEF Finalize, Turn
  <2>2. QED BY <2>1 DEF TurnsLeft, TurnsOf
<1>10. QED BY <1>5, <1>6, <1>7, <1>8, <1>9 DEF Continue

(* Each turn of an execution lowers a natural number that its body bounds, *)
(* and the turns of other executions leave that number alone: resume_io_do *)
(* and the loop of Do2<Result> cannot go round for ever.                   *)
THEOREM TurnsRunOut ==
    ASSUME NEW e \in Executions
    PROVE  Spec => /\ [](TurnsLeft(e) \in Nat)
                   /\ [][IF turn'[e] = turn[e] THEN TurnsLeft(e)' = TurnsLeft(e)
                                               ELSE TurnsLeft(e)' < TurnsLeft(e)]_vars
<1>1. IInv => TurnsLeft(e) \in Nat
  BY TurnsLeftType
<1>2. IInv /\ IInv' /\ [Next]_vars =>
         [IF turn'[e] = turn[e] THEN TurnsLeft(e)' = TurnsLeft(e)
                                ELSE TurnsLeft(e)' < TurnsLeft(e)]_vars
  <2> SUFFICES ASSUME IInv, IInv', Next
               PROVE  IF turn'[e] = turn[e] THEN TurnsLeft(e)' = TurnsLeft(e)
                                            ELSE TurnsLeft(e)' < TurnsLeft(e)
    OBVIOUS
  <2>1. PICK o \in Executions : Start(o) \/ StartFails(o) \/ Continue(o)
    BY DEF Next
  <2>2. PICK t : turn' = [turn EXCEPT ![o] = t] /\ turn[o] # t
    BY <2>1, OthersKeepTurns
  <2>3. turn \in [Executions -> {"start", "resume", "inspect", "step", "deliver", "done"}]
    BY DEF IInv, TypeOK
  <2>4. CASE o = e
    BY <2>1, <2>2, <2>3, <2>4, TurnTaken
  <2>5. CASE o # e
    <3>1. turn'[e] = turn[e] /\ body' = body /\ Frame(e)' = Frame(e)
      BY <2>1, <2>2, <2>3, <2>5, OthersKeepTurns
    <3>2. QED BY <3>1 DEF TurnsLeft
  <2>6. QED BY <2>4, <2>5
<1>3. QED BY <1>1, <1>2, Invariance, PTL DEF Spec

=============================================================================
