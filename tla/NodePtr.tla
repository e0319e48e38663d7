------------------------------- MODULE NodePtr -------------------------------
(***************************************************************************)
(* The reference-counted handle to effect nodes (io.hpp:66-117), used by   *)
(* several threads at once: IO values are copied, wrapped by combinators   *)
(* and destroyed in any order, on any thread.  Every atomic operation and  *)
(* every plain write another thread could observe is a step of its own.    *)
(*                                                                         *)
(* A slot is a place that holds a NodePtr or the raw pointer of one that   *)
(* is being destroyed, named after what it sits in: a handle variable, the *)
(* `source` member of a node, or the local of a thread's destructor.       *)
(*                                                                         *)
(* The atomics are modelled as sequentially consistent, which is what      *)
(* acq_rel gives on the one counter: the decrement that reads 1 comes      *)
(* after every other owner's accesses.  A node's instruction (the user's   *)
(* callbacks and whatever they capture) is left out.                       *)
(***************************************************************************)
EXTENDS Naturals, FiniteSets

CONSTANTS
    Threads,    \* threads of the program
    Handles,    \* NodePtr variables of the program
    Owner,      \* the thread each variable belongs to
    Nodes,      \* addresses of nodes, each allocated at most once
    None        \* the null pointer

Slots == Handles \cup Nodes \cup Threads

ASSUME SlotsAssumption ==
    /\ IsFiniteSet(Slots)
    /\ Handles \cap Nodes = {} /\ Handles \cap Threads = {} /\ Nodes \cap Threads = {}
    /\ None \notin Slots
    /\ Owner \in [Handles -> Threads]

VARIABLES
    life,     \* "unallocated", "live" or "freed" for each node
    refs,     \* Node::references
    ptr,      \* what each slot points to and owns a reference to
    pc,       \* what each thread is inside of
    local,    \* the node a thread works on without owning a reference
    from      \* the slot a copy constructor reads

vars == <<life, refs, ptr, pc, local, from>>

Phases == {"idle", "add", "sub", "detach", "delete"}

-----------------------------------------------------------------------------

Init ==
    /\ life = [n \in Nodes |-> "unallocated"]
    /\ refs = [n \in Nodes |-> 0]
    /\ ptr = [s \in Slots |-> None]
    /\ pc = [t \in Threads |-> "idle"]
    /\ local = [t \in Threads |-> None]
    /\ from = [t \in Threads |-> None]

(* A variable may be read by several threads at once but, as for any C++   *)
(* object, not written while one of them reads it.                         *)
Stable(h) == \A t \in Threads : from[t] # h

Own(t, h) == Owner[h] = t /\ ptr[h] # None /\ Stable(h)

(* terminal, defer, suspend: a node with no source, its count being 1.     *)
MakeLeaf(t, to, n) ==
    /\ pc[t] = "idle" /\ Owner[to] = t /\ ptr[to] = None
    /\ life[n] = "unallocated"
    /\ life' = [life EXCEPT ![n] = "live"]
    /\ refs' = [refs EXCEPT ![n] = 1]
    /\ ptr' = [ptr EXCEPT ![to] = n]
    /\ UNCHANGED <<pc, local, from>>

(* Mutant: the argument is copied bit by bit, and stays where it was.      *)
MakeContinueAliasing(t, h, to, n) ==
    /\ pc[t] = "idle" /\ Own(t, h) /\ Owner[to] = t /\ ptr[to] = None
    /\ life[n] = "unallocated"
    /\ life' = [life EXCEPT ![n] = "live"]
    /\ refs' = [refs EXCEPT ![n] = 1]
    /\ ptr' = [ptr EXCEPT ![n] = ptr[h], ![to] = n]
    /\ UNCHANGED <<pc, local, from>>

(* continue_with, once its argument has been copied into h: the argument   *)
(* is moved into the source of the new node.                               *)
MakeContinue(t, h, to, n) ==
    /\ pc[t] = "idle" /\ Own(t, h) /\ Owner[to] = t /\ ptr[to] = None
    /\ life[n] = "unallocated"
    /\ life' = [life EXCEPT ![n] = "live"]
    /\ refs' = [refs EXCEPT ![n] = 1]
    /\ ptr' = [ptr EXCEPT ![h] = None, ![n] = ptr[h], ![to] = n]
    /\ UNCHANGED <<pc, local, from>>

(* The move constructor; the target may be a variable of another thread    *)
(* that the program hands the value over to, outside of any operation.     *)
Move(t, h, to) ==
    /\ pc[t] = "idle" /\ Own(t, h)
    /\ pc[Owner[to]] = "idle" /\ ptr[to] = None
    /\ ptr' = [ptr EXCEPT ![h] = None, ![to] = ptr[h]]
    /\ UNCHANGED <<life, refs, pc, local, from>>

(* operator=, between taking its argument and destroying it: the variable  *)
(* and the parameter swap what they hold.  With an empty variable on one   *)
(* side it is a move.                                                      *)
Assign(t, h, to) ==
    /\ pc[t] = "idle" /\ Own(t, h) /\ Own(t, to) /\ h # to
    /\ ptr' = [ptr EXCEPT ![h] = ptr[to], ![to] = ptr[h]]
    /\ UNCHANGED <<life, refs, pc, local, from>>

(* Mutant: the source of a node is read without holding the node.          *)
CopyReadUnheld(t, s) ==
    /\ pc[t] = "idle" /\ ptr[s] # None
    /\ \E to \in Handles : Owner[to] = t /\ ptr[to] = None
    /\ pc' = [pc EXCEPT ![t] = "add"]
    /\ local' = [local EXCEPT ![t] = ptr[s]]
    /\ from' = [from EXCEPT ![t] = s]
    /\ UNCHANGED <<life, refs, ptr>>

(* The copy constructor reads the pointer: of a variable of any thread, or *)
(* of the source of a node the reading thread holds (evaluate's descent).  *)
CopyRead(t, s) ==
    /\ pc[t] = "idle" /\ ptr[s] # None
    /\ \E to \in Handles : Owner[to] = t /\ ptr[to] = None
    /\ s \in Nodes => \E h \in Handles : Owner[h] = t /\ ptr[h] = s
    /\ pc' = [pc EXCEPT ![t] = "add"]
    /\ local' = [local EXCEPT ![t] = ptr[s]]
    /\ from' = [from EXCEPT ![t] = s]
    /\ UNCHANGED <<life, refs, ptr>>

(* Mutant: the new owner is not counted.                                   *)
CopyUncounted(t, to) ==
    /\ pc[t] = "add" /\ Owner[to] = t /\ ptr[to] = None
    /\ ptr' = [ptr EXCEPT ![to] = local[t]]
    /\ pc' = [pc EXCEPT ![t] = "idle"]
    /\ local' = [local EXCEPT ![t] = None]
    /\ from' = [from EXCEPT ![t] = None]
    /\ UNCHANGED <<life, refs>>

(* ... and counts the new owner with fetch_add.                            *)
CopyAdd(t, to) ==
    /\ pc[t] = "add" /\ Owner[to] = t /\ ptr[to] = None
    /\ refs' = [refs EXCEPT ![local[t]] = @ + 1]
    /\ ptr' = [ptr EXCEPT ![to] = local[t]]
    /\ pc' = [pc EXCEPT ![t] = "idle"]
    /\ local' = [local EXCEPT ![t] = None]
    /\ from' = [from EXCEPT ![t] = None]
    /\ UNCHANGED life

(* A variable's life ends; the destructor takes its pointer.               *)
BeginRelease(t, h) ==
    /\ pc[t] = "idle" /\ Own(t, h)
    /\ pc' = [pc EXCEPT ![t] = "sub"]
    /\ ptr' = [ptr EXCEPT ![h] = None, ![t] = ptr[h]]
    /\ UNCHANGED <<life, refs, local, from>>

(* Mutant: the test is on the new value of the counter, not on the old.    *)
SubTestsNewValue(t) ==
    /\ pc[t] = "sub"
    /\ refs' = [refs EXCEPT ![ptr[t]] = @ - 1]
    /\ ptr' = [ptr EXCEPT ![t] = None]
    /\ IF refs[ptr[t]] - 1 = 1
       THEN pc' = [pc EXCEPT ![t] = "detach"] /\ local' = [local EXCEPT ![t] = ptr[t]]
       ELSE pc' = [pc EXCEPT ![t] = "idle"] /\ UNCHANGED local
    /\ UNCHANGED <<life, from>>

(* The condition of the destructor's loop: fetch_sub and its test.         *)
Sub(t) ==
    /\ pc[t] = "sub"
    /\ refs' = [refs EXCEPT ![ptr[t]] = @ - 1]
    /\ ptr' = [ptr EXCEPT ![t] = None]
    /\ IF refs[ptr[t]] = 1
       THEN pc' = [pc EXCEPT ![t] = "detach"] /\ local' = [local EXCEPT ![t] = ptr[t]]
       ELSE pc' = [pc EXCEPT ![t] = "idle"] /\ UNCHANGED local
    /\ UNCHANGED <<life, from>>

(* Mutant: the source is read, not exchanged.                              *)
DetachByCopy(t) ==
    /\ pc[t] = "detach"
    /\ ptr' = [ptr EXCEPT ![t] = ptr[local[t]]]
    /\ pc' = [pc EXCEPT ![t] = "delete"]
    /\ UNCHANGED <<life, refs, local, from>>

(* The last owner takes the node's edge before the node goes away.         *)
Detach(t) ==
    /\ pc[t] = "detach"
    /\ ptr' = [ptr EXCEPT ![local[t]] = None, ![t] = ptr[local[t]]]
    /\ pc' = [pc EXCEPT ![t] = "delete"]
    /\ UNCHANGED <<life, refs, local, from>>

(* delete, then the loop goes on with the detached source.                 *)
Delete(t) ==
    /\ pc[t] = "delete"
    /\ life' = [life EXCEPT ![local[t]] = "freed"]
    /\ local' = [local EXCEPT ![t] = None]
    /\ pc' = [pc EXCEPT ![t] = IF ptr[t] = None THEN "idle" ELSE "sub"]
    /\ UNCHANGED <<refs, ptr, from>>

-----------------------------------------------------------------------------

Destroy(t) == Sub(t) \/ Detach(t) \/ Delete(t)

Next ==
    \E t \in Threads :
        \/ \E to \in Handles, n \in Nodes : MakeLeaf(t, to, n)
        \/ \E h, to \in Handles, n \in Nodes : MakeContinue(t, h, to, n)
        \/ \E h, to \in Handles : Move(t, h, to) \/ Assign(t, h, to)
        \/ \E s \in Handles \cup Nodes : CopyRead(t, s)
        \/ \E to \in Handles : CopyAdd(t, to)
        \/ \E h \in Handles : BeginRelease(t, h)
        \/ Destroy(t)

(* A destructor that has begun runs to its end; nothing obliges a program  *)
(* to make or drop handles.                                                *)
Spec == Init /\ [][Next]_vars /\ \A t \in Threads : WF_vars(Destroy(t))

-----------------------------------------------------------------------------
(* Properties.                                                             *)

(* Every variable stays in its range; in particular no counter is ever     *)
(* decremented below zero.                                                 *)
TypeOK ==
    /\ life \in [Nodes -> {"unallocated", "live", "freed"}]
    /\ refs \in [Nodes -> Nat]
    /\ ptr \in [Slots -> Nodes \cup {None}]
    /\ pc \in [Threads -> Phases]
    /\ local \in [Threads -> Nodes \cup {None}]
    /\ from \in [Threads -> Handles \cup Nodes \cup {None}]

OwnersOf(n) == {s \in Slots : ptr[s] = n}

(* The counter is the number of owners at every step of every              *)
(* interleaving, the pointers held by destructors in progress included.    *)
CountIsExact == \A n \in Nodes : refs[n] = Cardinality(OwnersOf(n))

(* No owner, and no thread inside a copy or a destructor, ever refers to a *)
(* node that was deleted or never made.                                    *)
NoDangling ==
    /\ \A s \in Slots : ptr[s] # None => life[ptr[s]] = "live"
    /\ \A t \in Threads : local[t] # None => life[local[t]] = "live"

(* The destructor that read 1 is alone with the node: nobody owns it, and  *)
(* no other thread is copying it or deleting it.                           *)
LastOwnerIsAlone ==
    \A t \in Threads : pc[t] \in {"detach", "delete"} =>
        /\ refs[local[t]] = 0
        /\ \A u \in Threads \ {t} : local[u] # local[t]

(* A node has lost its source when it is deleted, so ~Node starts no       *)
(* nested ~NodePtr along the spine: the release of a bind chain is a loop. *)
DeleteFindsNoSource ==
    \A t \in Threads : pc[t] = "delete" => ptr[local[t]] = None

(* A node whose count has dropped to zero is never owned again.            *)
NoResurrection ==
    [][\A n \in Nodes : life[n] # "unallocated" /\ refs[n] = 0 => refs'[n] = 0]_vars

(* A live node without a single owner is deleted in the end: the sources   *)
(* of a spine are reclaimed although only its head was dropped.            *)
UnownedIsReclaimed ==
    \A n \in Nodes :
        (life[n] = "live" /\ refs[n] = 0) ~> (life[n] = "freed")

=============================================================================
