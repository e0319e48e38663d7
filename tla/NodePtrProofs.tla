---------------------------- MODULE NodePtrProofs ----------------------------
(***************************************************************************)
(* NodePtr for any number of threads, handles and nodes: the count is      *)
(* exact, nothing dangles, and the last owner is alone.                    *)
(***************************************************************************)
EXTENDS NodePtr, FiniteSetTheorems, TLAPS

-----------------------------------------------------------------------------
(* What a write to slots does to the owners of a node.                     *)

LEMMA OwnersFinite ==
    ASSUME NEW n
    PROVE  /\ IsFiniteSet(OwnersOf(n))
           /\ Cardinality(OwnersOf(n)) \in Nat
           /\ Cardinality(OwnersOf(n)) = 0 <=> OwnersOf(n) = {}
<1>1. IsFiniteSet(OwnersOf(n))
  <2>1. OwnersOf(n) \subseteq Slots
    BY DEF OwnersOf
  <2>2. QED BY <2>1, SlotsAssumption, FS_Subset
<1>2. QED BY <1>1, FS_CardinalityType, FS_EmptySet

(* Clearing a slot that points to n takes one owner from n.                *)
LEMMA OwnerRemoved ==
    ASSUME NEW n, NEW s \in Slots, ptr[s] = n,
           OwnersOf(n)' = OwnersOf(n) \ {s}
    PROVE  Cardinality(OwnersOf(n)') = Cardinality(OwnersOf(n)) - 1
<1>1. s \in OwnersOf(n)
  BY DEF OwnersOf
<1>2. QED BY <1>1, OwnersFinite, FS_RemoveElement

LEMMA OwnerAdded ==
    ASSUME NEW n, NEW s \in Slots, ptr[s] # n,
           OwnersOf(n)' = OwnersOf(n) \cup {s}
    PROVE  Cardinality(OwnersOf(n)') = Cardinality(OwnersOf(n)) + 1
<1>1. s \notin OwnersOf(n)
  BY DEF OwnersOf
<1>2. QED BY <1>1, OwnersFinite, FS_AddElement

(* An owner that is replaced by another keeps the count.                   *)
LEMMA OwnerReplaced ==
    ASSUME NEW n, NEW s \in OwnersOf(n), NEW r, r \notin OwnersOf(n),
           OwnersOf(n)' = (OwnersOf(n) \ {s}) \cup {r}
    PROVE  Cardinality(OwnersOf(n)') = Cardinality(OwnersOf(n))
<1>1. /\ Cardinality(OwnersOf(n) \ {s}) = Cardinality(OwnersOf(n)) - 1
      /\ IsFiniteSet(OwnersOf(n) \ {s})
  BY OwnersFinite, FS_RemoveElement
<1>2. Cardinality((OwnersOf(n) \ {s}) \cup {r}) = Cardinality(OwnersOf(n) \ {s}) + 1
  BY <1>1, FS_AddElement
<1>3. QED BY <1>1, <1>2, OwnersFinite

(* Moving a pointer from one slot to an empty one keeps every count.       *)
LEMMA OwnerMoved ==
    ASSUME ptr \in [Slots -> Nodes \cup {None}],
           NEW s \in Slots, NEW r \in Slots, s # r, ptr[r] = None,
           ptr' = [ptr EXCEPT ![s] = None, ![r] = ptr[s]],
           NEW n \in Nodes
    PROVE  Cardinality(OwnersOf(n)') = Cardinality(OwnersOf(n))
<1>1. n # None
  BY SlotsAssumption DEF Slots
<1>2. CASE ptr[s] = n
  <2>1. OwnersOf(n)' = (OwnersOf(n) \ {s}) \cup {r}
    BY <1>1, <1>2 DEF OwnersOf
  <2>2. s \in OwnersOf(n) /\ r \notin OwnersOf(n)
    BY <1>1, <1>2 DEF OwnersOf
  <2>3. QED BY <2>1, <2>2, OwnerReplaced
<1>3. CASE ptr[s] # n
  <2>1. OwnersOf(n)' = OwnersOf(n)
    BY <1>1, <1>3 DEF OwnersOf
  <2>2. QED BY <2>1
<1>4. QED BY <1>2, <1>3

(* Swapping the pointers of two slots keeps every count.                   *)
LEMMA OwnersSwapped ==
    ASSUME ptr \in [Slots -> Nodes \cup {None}],
           NEW s \in Slots, NEW r \in Slots, s # r,
           ptr' = [ptr EXCEPT ![s] = ptr[r], ![r] = ptr[s]],
           NEW n \in Nodes
    PROVE  Cardinality(OwnersOf(n)') = Cardinality(OwnersOf(n))
<1>1. CASE ptr[s] = n /\ ptr[r] # n
  <2>1. OwnersOf(n)' = (OwnersOf(n) \ {s}) \cup {r}
    BY <1>1 DEF OwnersOf
  <2>2. s \in OwnersOf(n) /\ r \notin OwnersOf(n)
    BY <1>1 DEF OwnersOf
  <2>3. QED BY <2>1, <2>2, OwnerReplaced
<1>2. CASE ptr[s] # n /\ ptr[r] = n
  <2>1. OwnersOf(n)' = (OwnersOf(n) \ {r}) \cup {s}
    BY <1>2 DEF OwnersOf
  <2>2. r \in OwnersOf(n) /\ s \notin OwnersOf(n)
    BY <1>2 DEF OwnersOf
  <2>3. QED BY <2>1, <2>2, OwnerReplaced
<1>3. CASE ptr[s] = n <=> ptr[r] = n
  <2>1. OwnersOf(n)' = OwnersOf(n)
    BY <1>3 DEF OwnersOf
  <2>2. QED BY <2>1
<1>4. QED BY <1>1, <1>2, <1>3

-----------------------------------------------------------------------------
(* The inductive invariant.                                                *)

(* Pointers lead to live nodes, and only a live node has a source.         *)
PointersAreLive ==
    /\ \A s \in Slots : ptr[s] # None => life[ptr[s]] = "live"
    /\ \A n \in Nodes : life[n] # "live" => ptr[n] = None

(* What a thread's local, its own slot and its count say in each phase.    *)
PhaseOK(t) ==
    /\ pc[t] # "add" => from[t] = None
    /\ pc[t] \in {"idle", "sub"} => local[t] = None
    /\ pc[t] \in {"idle", "add", "detach"} => ptr[t] = None
    /\ pc[t] = "sub" => ptr[t] # None
    /\ pc[t] = "add" =>
          /\ local[t] # None /\ from[t] # None
          /\ ptr[from[t]] = local[t]
          /\ from[t] \in Nodes => \E h \in Handles : Owner[h] = t /\ ptr[h] = from[t]
    /\ pc[t] \in {"detach", "delete"} =>
          local[t] # None /\ life[local[t]] = "live" /\ refs[local[t]] = 0
    /\ pc[t] = "delete" => ptr[local[t]] = None

SoleDeleter ==
    \A t, u \in Threads :
        /\ pc[t] \in {"detach", "delete"} /\ pc[u] \in {"detach", "delete"}
        /\ local[t] = local[u]
        => t = u

IInv ==
    /\ TypeOK
    /\ CountIsExact
    /\ PointersAreLive
    /\ \A t \in Threads : PhaseOK(t)
    /\ SoleDeleter

(* A node whose count is zero is pointed to from nowhere.                  *)
LEMMA ZeroIsUnowned ==
    ASSUME IInv, NEW n \in Nodes, refs[n] = 0, NEW s \in Slots
    PROVE  ptr[s] # n
<1>1. Cardinality(OwnersOf(n)) = 0
  BY DEF IInv, CountIsExact
<1>2. OwnersOf(n) = {}
  BY <1>1, OwnersFinite
<1>3. QED BY <1>2 DEF OwnersOf

(* A pointed-to node has a positive count.                                 *)
LEMMA OwnedIsPositive ==
    ASSUME IInv, NEW s \in Slots, ptr[s] # None
    PROVE  ptr[s] \in Nodes /\ refs[ptr[s]] \in Nat \ {0}
<1>1. ptr[s] \in Nodes /\ refs[ptr[s]] \in Nat
  BY DEF IInv, TypeOK
<1>2. QED BY <1>1, ZeroIsUnowned

(* A node that is not live has no owners and a zero count.                 *)
LEMMA DeadIsUnowned ==
    ASSUME IInv, NEW n \in Nodes, life[n] # "live"
    PROVE  refs[n] = 0 /\ OwnersOf(n) = {} /\ ptr[n] = None /\ \A t \in Threads : local[t] # n
<1>1. OwnersOf(n) = {} /\ ptr[n] = None
  BY SlotsAssumption DEF IInv, PointersAreLive, OwnersOf, Slots
<1>2. Cardinality(OwnersOf(n)) = 0
  BY <1>1, OwnersFinite
<1>3. ASSUME NEW t \in Threads, local[t] = n
      PROVE  FALSE
  <2>1. pc[t] \in {"add", "detach", "delete"}
    BY <1>3, SlotsAssumption DEF IInv, PhaseOK, TypeOK, Phases, Slots
  <2>2. CASE pc[t] = "add"
    <3>1. from[t] \in Slots /\ ptr[from[t]] = n
      BY <1>3, <2>2 DEF IInv, PhaseOK, TypeOK, Slots
    <3>2. QED BY <1>1, <3>1 DEF OwnersOf
  <2>3. CASE pc[t] \in {"detach", "delete"}
    BY <1>3, <2>3 DEF IInv, PhaseOK
  <2>4. QED BY <2>1, <2>2, <2>3
<1>4. QED BY <1>1, <1>2, <1>3 DEF IInv, CountIsExact

LEMMA InitIInv == Init => IInv
<1> SUFFICES ASSUME Init PROVE IInv
  OBVIOUS
<1>1. TypeOK
  BY DEF Init, TypeOK, Phases
<1>2. CountIsExact
  <2>1. ASSUME NEW n \in Nodes
        PROVE  Cardinality(OwnersOf(n)) = 0
    <3>1. OwnersOf(n) = {}
      BY SlotsAssumption DEF Init, OwnersOf, Slots
    <3>2. QED BY <3>1, OwnersFinite
  <2>2. QED BY <2>1 DEF Init, CountIsExact
<1>3. PointersAreLive
  BY DEF Init, PointersAreLive, Slots
<1>4. \A t \in Threads : PhaseOK(t)
  BY DEF Init, PhaseOK, Slots
<1>5. SoleDeleter
  BY DEF Init, SoleDeleter
<1>6. QED BY <1>1, <1>2, <1>3, <1>4, <1>5 DEF IInv

-----------------------------------------------------------------------------
(* Threads that stand still while another one moves.                       *)

Undisturbed(u) ==
    /\ pc'[u] = pc[u] /\ local'[u] = local[u] /\ from'[u] = from[u] /\ ptr'[u] = ptr[u]
    /\ pc[u] = "add" =>
          /\ ptr'[from[u]] = ptr[from[u]]
          /\ from[u] \in Nodes =>
                \A h \in Handles : Owner[h] = u /\ ptr[h] # None => ptr'[h] = ptr[h]
    /\ pc[u] \in {"detach", "delete"} =>
          /\ life'[local[u]] = life[local[u]]
          /\ refs'[local[u]] = refs[local[u]]
          /\ ptr'[local[u]] = ptr[local[u]]

LEMMA UndisturbedPhase ==
    ASSUME IInv, NEW u \in Threads, Undisturbed(u)
    PROVE  PhaseOK(u)'
<1>1. PhaseOK(u)
  BY DEF IInv
<1>2. pc[u] = "add" /\ from[u] \in Nodes =>
          \E h \in Handles : Owner[h] = u /\ ptr'[h] = from[u]
  <2> SUFFICES ASSUME pc[u] = "add", from[u] \in Nodes
               PROVE  \E h \in Handles : Owner[h] = u /\ ptr'[h] = from[u]
    OBVIOUS
  <2>1. PICK h \in Handles : Owner[h] = u /\ ptr[h] = from[u]
    BY <1>1 DEF PhaseOK
  <2>2. from[u] # None
    BY SlotsAssumption DEF Slots
  <2>3. QED BY <2>1, <2>2 DEF Undisturbed
<1>3. QED BY <1>1, <1>2 DEF PhaseOK, Undisturbed

(* A thread that overwrites only its own handles that nobody reads, and    *)
(* sources of nodes without owners, disturbs no other thread.              *)
LEMMA OthersUndisturbed ==
    ASSUME IInv, NEW t \in Threads, NEW u \in Threads, u # t,
           pc'[u] = pc[u], local'[u] = local[u], from'[u] = from[u], ptr'[u] = ptr[u],
           \A s \in Handles \cup Nodes :
               ptr[s] # None /\ ptr'[s] # ptr[s] =>
                   \/ s \in Handles /\ Owner[s] = t /\ Stable(s)
                   \/ s \in Nodes /\ refs[s] = 0,
           pc[u] \in {"detach", "delete"} =>
               /\ life'[local[u]] = life[local[u]]
               /\ refs'[local[u]] = refs[local[u]]
               /\ ptr'[local[u]] = ptr[local[u]]
    PROVE  PhaseOK(u)'
<1>1. PhaseOK(u)
  BY DEF IInv
<1>2. CASE pc[u] = "add"
  <2>1. from[u] \in Handles \cup Nodes /\ from[u] \in Slots /\ ptr[from[u]] # None
    BY <1>1, <1>2 DEF IInv, TypeOK, PhaseOK, Slots
  <2>2. from[u] \in Nodes => refs[from[u]] # 0
    <3> SUFFICES ASSUME from[u] \in Nodes PROVE refs[from[u]] # 0
      OBVIOUS
    <3>1. PICK h \in Handles : ptr[h] = from[u]
      BY <1>1, <1>2 DEF PhaseOK
    <3>2. QED BY <3>1, ZeroIsUnowned DEF Slots
  <2>3. ptr'[from[u]] = ptr[from[u]]
    BY <2>1, <2>2 DEF Stable
  <2>4. \A h \in Handles : Owner[h] = u /\ ptr[h] # None => ptr'[h] = ptr[h]
    BY SlotsAssumption
  <2>5. Undisturbed(u)
    BY <1>2, <2>3, <2>4 DEF Undisturbed
  <2>6. QED BY <2>5, UndisturbedPhase
<1>3. CASE pc[u] # "add"
  <2>1. Undisturbed(u)
    BY <1>3 DEF Undisturbed
  <2>2. QED BY <2>1, UndisturbedPhase
<1>4. QED BY <1>2, <1>3

-----------------------------------------------------------------------------
(* One lemma per operation.                                                *)

LEMMA MakeLeafPreserves ==
    ASSUME IInv, NEW t \in Threads, NEW to \in Handles, NEW n \in Nodes, MakeLeaf(t, to, n)
    PROVE  IInv'
<1>1. /\ pc[t] = "idle" /\ Owner[to] = t /\ ptr[to] = None /\ life[n] = "unallocated"
      /\ life' = [life EXCEPT ![n] = "live"]
      /\ refs' = [refs EXCEPT ![n] = 1]
      /\ ptr' = [ptr EXCEPT ![to] = n]
      /\ pc' = pc /\ local' = local /\ from' = from
  BY DEF MakeLeaf
<1>2. to \in Slots /\ n \in Slots /\ n # None /\ to # n /\ to \notin Threads /\ to \notin Nodes
  BY SlotsAssumption DEF Slots
<1>3. /\ ptr \in [Slots -> Nodes \cup {None}] /\ refs \in [Nodes -> Nat]
      /\ life \in [Nodes -> {"unallocated", "live", "freed"}]
  BY DEF IInv, TypeOK
<1>4. refs[n] = 0 /\ OwnersOf(n) = {} /\ ptr[n] = None /\ \A u \in Threads : local[u] # n
  BY <1>1, DeadIsUnowned
<1>5. TypeOK'
  BY <1>1, <1>2 DEF IInv, TypeOK
<1>6. CountIsExact'
  <2> SUFFICES ASSUME NEW m \in Nodes PROVE refs'[m] = Cardinality(OwnersOf(m)')
    BY DEF CountIsExact, OwnersOf
  <2>1. refs[m] = Cardinality(OwnersOf(m))
    BY DEF IInv, CountIsExact
  <2>2. CASE m = n
    <3>1. OwnersOf(m)' = OwnersOf(m) \cup {to} /\ ptr[to] # m
      BY <1>1, <1>2, <1>3, <2>2 DEF OwnersOf
    <3>2. Cardinality(OwnersOf(m)') = Cardinality(OwnersOf(m)) + 1
      BY <1>2, <3>1, OwnerAdded
    <3>3. QED BY <1>1, <1>3, <1>4, <2>1, <2>2, <3>2
  <2>3. CASE m # n
    <3>1. m # None
      BY SlotsAssumption DEF Slots
    <3>2. OwnersOf(m)' = OwnersOf(m)
      BY <1>1, <1>2, <1>3, <2>3, <3>1 DEF OwnersOf
    <3>3. QED BY <1>1, <1>3, <2>1, <2>3, <3>2
  <2>4. QED BY <2>2, <2>3
<1>7. PointersAreLive'
  BY <1>1, <1>2, <1>3 DEF IInv, PointersAreLive, Slots
<1>8. ASSUME NEW u \in Threads PROVE PhaseOK(u)'
  <2>1. CASE u = t
    BY <1>1, <1>2, <1>3, <2>1 DEF IInv, PhaseOK, Slots
  <2>2. CASE u # t
    <3>1. ptr'[u] = ptr[u] /\ \A s \in Handles \cup Nodes : ptr[s] # None => ptr'[s] = ptr[s]
      BY <1>1, <1>2, <1>3 DEF Slots
    <3>2. pc[u] \in {"detach", "delete"} =>
              /\ local[u] \in Nodes /\ local[u] # n
              /\ life'[local[u]] = life[local[u]]
              /\ refs'[local[u]] = refs[local[u]]
              /\ ptr'[local[u]] = ptr[local[u]]
      BY <1>1, <1>2, <1>3, <1>4 DEF IInv, PhaseOK, TypeOK, Slots
    <3>3. QED BY <1>1, <2>2, <3>1, <3>2, OthersUndisturbed
  <2>3. QED BY <2>1, <2>2
<1>9. SoleDeleter'
  BY <1>1 DEF IInv, SoleDeleter
<1>10. QED BY <1>5, <1>6, <1>7, <1>8, <1>9 DEF IInv

LEMMA MakeContinuePreserves ==
    ASSUME IInv, NEW t \in Threads, NEW h \in Handles, NEW to \in Handles, NEW n \in Nodes,
           MakeContinue(t, h, to, n)
    PROVE  IInv'
<1>1. /\ pc[t] = "idle" /\ Owner[h] = t /\ ptr[h] # None /\ Stable(h)
      /\ Owner[to] = t /\ ptr[to] = None /\ life[n] = "unallocated"
      /\ life' = [life EXCEPT ![n] = "live"]
      /\ refs' = [refs EXCEPT ![n] = 1]
      /\ ptr' = [ptr EXCEPT ![h] = None, ![n] = ptr[h], ![to] = n]
      /\ pc' = pc /\ local' = local /\ from' = from
  BY DEF MakeContinue, Own
<1>2. /\ h \in Slots /\ to \in Slots /\ n \in Slots /\ n # None /\ h # to /\ n # h /\ n # to
      /\ to \notin Threads /\ h \notin Threads /\ n \notin Threads
      /\ to \notin Nodes /\ h \notin Nodes
  BY <1>1, SlotsAssumption DEF Slots
<1>3. /\ ptr \in [Slots -> Nodes \cup {None}] /\ refs \in [Nodes -> Nat]
      /\ life \in [Nodes -> {"unallocated", "live", "freed"}]
      /\ ptr[h] \in Nodes /\ life[ptr[h]] = "live"
  BY <1>1, <1>2 DEF IInv, TypeOK, PointersAreLive
<1>4. refs[n] = 0 /\ OwnersOf(n) = {} /\ ptr[n] = None /\ \A u \in Threads : local[u] # n
  BY <1>1, DeadIsUnowned
<1>5. /\ ptr' \in [Slots -> Nodes \cup {None}]
      /\ ptr'[h] = None /\ ptr'[n] = ptr[h] /\ ptr'[to] = n
      /\ \A s \in Slots : s # h /\ s # n /\ s # to => ptr'[s] = ptr[s]
  BY <1>1, <1>2, <1>3
<1>6. TypeOK'
  BY <1>1, <1>5 DEF IInv, TypeOK
<1>7. CountIsExact'
  <2> SUFFICES ASSUME NEW m \in Nodes PROVE refs'[m] = Cardinality(OwnersOf(m)')
    BY DEF CountIsExact, OwnersOf
  <2>1. refs[m] = Cardinality(OwnersOf(m)) /\ m # None
    BY SlotsAssumption DEF IInv, CountIsExact, Slots
  <2>2. CASE m = n
    <3>1. OwnersOf(m)' = OwnersOf(m) \cup {to} /\ ptr[to] # m
      BY <1>1, <1>2, <1>3, <1>4, <1>5, <2>2 DEF OwnersOf
    <3>2. Cardinality(OwnersOf(m)') = Cardinality(OwnersOf(m)) + 1
      BY <1>2, <3>1, OwnerAdded
    <3>3. refs'[m] = 1 /\ Cardinality(OwnersOf(m)) = 0
      BY <1>1, <1>3, <1>4, <2>1, <2>2
    <3>4. QED BY <3>2, <3>3
  <2>3. CASE m # n /\ m = ptr[h]
    <3>1. OwnersOf(m)' = (OwnersOf(m) \ {h}) \cup {n}
      BY <1>1, <1>2, <1>4, <1>5, <2>1, <2>3 DEF OwnersOf
    <3>2. h \in OwnersOf(m) /\ n \notin OwnersOf(m)
      BY <1>2, <1>4, <2>1, <2>3 DEF OwnersOf
    <3>3. Cardinality(OwnersOf(m)') = Cardinality(OwnersOf(m))
      BY <3>1, <3>2, OwnerReplaced
    <3>4. QED BY <1>1, <1>3, <2>1, <2>3, <3>3
  <2>4. CASE m # n /\ m # ptr[h]
    <3>1. OwnersOf(m)' = OwnersOf(m)
      BY <1>1, <1>2, <1>4, <1>5, <2>1, <2>4 DEF OwnersOf
    <3>2. QED BY <1>1, <1>3, <2>1, <2>4, <3>1
  <2>5. QED BY <2>2, <2>3, <2>4
<1>8. PointersAreLive'
  BY <1>1, <1>2, <1>3, <1>5 DEF IInv, PointersAreLive, Slots
<1>9. ASSUME NEW u \in Threads PROVE PhaseOK(u)'
  <2>1. CASE u = t
    BY <1>1, <1>2, <1>5, <2>1 DEF IInv, PhaseOK, Slots
  <2>2. CASE u # t
    <3>1. ptr'[u] = ptr[u]
      BY <1>2, <1>5 DEF Slots
    <3>2. \A s \in Handles \cup Nodes : ptr[s] # None /\ ptr'[s] # ptr[s] => s = h
      BY <1>1, <1>4, <1>5 DEF Slots
    <3>3. pc[u] \in {"detach", "delete"} =>
              /\ life'[local[u]] = life[local[u]]
              /\ refs'[local[u]] = refs[local[u]]
              /\ ptr'[local[u]] = ptr[local[u]]
      <4>1. pc[u] \in {"detach", "delete"} => local[u] \in Nodes /\ local[u] # n
        BY <1>4 DEF IInv, PhaseOK, TypeOK
      <4>2. QED BY <1>1, <1>2, <1>3, <1>5, <4>1 DEF Slots
    <3>4. QED BY <1>1, <2>2, <3>1, <3>2, <3>3, OthersUndisturbed
  <2>3. QED BY <2>1, <2>2
<1>10. SoleDeleter'
  BY <1>1 DEF IInv, SoleDeleter
<1>11. QED BY <1>6, <1>7, <1>8, <1>9, <1>10 DEF IInv

LEMMA MovePreserves ==
    ASSUME IInv, NEW t \in Threads, NEW h \in Handles, NEW to \in Handles, Move(t, h, to)
    PROVE  IInv'
<1>1. /\ pc[t] = "idle" /\ Owner[h] = t /\ ptr[h] # None /\ Stable(h) /\ ptr[to] = None
      /\ ptr' = [ptr EXCEPT ![h] = None, ![to] = ptr[h]]
      /\ life' = life /\ refs' = refs /\ pc' = pc /\ local' = local /\ from' = from
  BY DEF Move, Own
<1>2. /\ h \in Slots /\ to \in Slots /\ h # to
      /\ to \notin Threads /\ h \notin Threads /\ to \notin Nodes /\ h \notin Nodes
  BY <1>1, SlotsAssumption DEF Slots
<1>3. /\ ptr \in [Slots -> Nodes \cup {None}] /\ ptr[h] \in Nodes /\ life[ptr[h]] = "live"
  BY <1>1, <1>2 DEF IInv, TypeOK, PointersAreLive
<1>4. /\ ptr' \in [Slots -> Nodes \cup {None}]
      /\ ptr'[h] = None /\ ptr'[to] = ptr[h]
      /\ \A s \in Slots : s # h /\ s # to => ptr'[s] = ptr[s]
  BY <1>1, <1>2, <1>3
<1>5. TypeOK'
  BY <1>1, <1>4 DEF IInv, TypeOK
<1>6. CountIsExact'
  <2>1. \A m \in Nodes : Cardinality(OwnersOf(m)') = Cardinality(OwnersOf(m))
    BY <1>1, <1>2, <1>3, OwnerMoved
  <2>2. QED BY <1>1, <2>1 DEF IInv, CountIsExact, OwnersOf
<1>7. PointersAreLive'
  BY <1>1, <1>2, <1>3, <1>4 DEF IInv, PointersAreLive, Slots
<1>8. ASSUME NEW u \in Threads PROVE PhaseOK(u)'
  <2>1. CASE u = t
    BY <1>1, <1>2, <1>4, <2>1 DEF IInv, PhaseOK, Slots
  <2>2. CASE u # t
    <3>1. ptr'[u] = ptr[u]
      BY <1>2, <1>4 DEF Slots
    <3>2. \A s \in Handles \cup Nodes : ptr[s] # None /\ ptr'[s] # ptr[s] => s = h
      BY <1>1, <1>4 DEF Slots
    <3>3. pc[u] \in {"detach", "delete"} => ptr'[local[u]] = ptr[local[u]]
      <4>1. pc[u] \in {"detach", "delete"} => local[u] \in Nodes
        BY DEF IInv, PhaseOK, TypeOK
      <4>2. QED BY <1>2, <1>4, <4>1 DEF Slots
    <3>4. QED BY <1>1, <2>2, <3>1, <3>2, <3>3, OthersUndisturbed
  <2>3. QED BY <2>1, <2>2
<1>9. SoleDeleter'
  BY <1>1 DEF IInv, SoleDeleter
<1>10. QED BY <1>5, <1>6, <1>7, <1>8, <1>9 DEF IInv

LEMMA AssignPreserves ==
    ASSUME IInv, NEW t \in Threads, NEW h \in Handles, NEW to \in Handles, Assign(t, h, to)
    PROVE  IInv'
<1>1. /\ pc[t] = "idle" /\ h # to
      /\ Owner[h] = t /\ ptr[h] # None /\ Stable(h)
      /\ Owner[to] = t /\ ptr[to] # None /\ Stable(to)
      /\ ptr' = [ptr EXCEPT ![h] = ptr[to], ![to] = ptr[h]]
      /\ life' = life /\ refs' = refs /\ pc' = pc /\ local' = local /\ from' = from
  BY DEF Assign, Own
<1>2. /\ h \in Slots /\ to \in Slots
      /\ to \notin Threads /\ h \notin Threads /\ to \notin Nodes /\ h \notin Nodes
  BY SlotsAssumption DEF Slots
<1>3. ptr \in [Slots -> Nodes \cup {None}]
  BY DEF IInv, TypeOK
<1>4. /\ ptr' \in [Slots -> Nodes \cup {None}]
      /\ ptr'[h] = ptr[to] /\ ptr'[to] = ptr[h]
      /\ \A s \in Slots : s # h /\ s # to => ptr'[s] = ptr[s]
  BY <1>1, <1>2, <1>3
<1>5. TypeOK'
  BY <1>1, <1>4 DEF IInv, TypeOK
<1>6. CountIsExact'
  <2>1. \A m \in Nodes : Cardinality(OwnersOf(m)') = Cardinality(OwnersOf(m))
    BY <1>1, <1>2, <1>3, OwnersSwapped
  <2>2. QED BY <1>1, <2>1 DEF IInv, CountIsExact, OwnersOf
<1>7. PointersAreLive'
  BY <1>1, <1>2, <1>4 DEF IInv, PointersAreLive, Slots
<1>8. ASSUME NEW u \in Threads PROVE PhaseOK(u)'
  <2>1. CASE u = t
    BY <1>1, <1>2, <1>4, <2>1 DEF IInv, PhaseOK, Slots
  <2>2. CASE u # t
    <3>1. ptr'[u] = ptr[u]
      BY <1>2, <1>4 DEF Slots
    <3>2. \A s \in Handles \cup Nodes : ptr'[s] # ptr[s] => s = h \/ s = to
      BY <1>4 DEF Slots
    <3>3. pc[u] \in {"detach", "delete"} => ptr'[local[u]] = ptr[local[u]]
      <4>1. pc[u] \in {"detach", "delete"} => local[u] \in Nodes
        BY DEF IInv, PhaseOK, TypeOK
      <4>2. QED BY <1>2, <1>4, <4>1 DEF Slots
    <3>4. QED BY <1>1, <2>2, <3>1, <3>2, <3>3, OthersUndisturbed
  <2>3. QED BY <2>1, <2>2
<1>9. SoleDeleter'
  BY <1>1 DEF IInv, SoleDeleter
<1>10. QED BY <1>5, <1>6, <1>7, <1>8, <1>9 DEF IInv

LEMMA CopyReadPreserves ==
    ASSUME IInv, NEW t \in Threads, NEW s \in Handles \cup Nodes, CopyRead(t, s)
    PROVE  IInv'
<1>1. /\ pc[t] = "idle" /\ ptr[s] # None
      /\ s \in Nodes => \E h \in Handles : Owner[h] = t /\ ptr[h] = s
      /\ pc' = [pc EXCEPT ![t] = "add"]
      /\ local' = [local EXCEPT ![t] = ptr[s]]
      /\ from' = [from EXCEPT ![t] = s]
      /\ life' = life /\ refs' = refs /\ ptr' = ptr
  BY DEF CopyRead
<1>2. s \in Slots /\ s # None /\ ptr[s] \in Nodes
  BY <1>1, SlotsAssumption DEF Slots, IInv, TypeOK
<1>3. TypeOK'
  BY <1>1, <1>2 DEF IInv, TypeOK, Phases
<1>4. CountIsExact' /\ PointersAreLive'
  BY <1>1 DEF IInv, CountIsExact, PointersAreLive, OwnersOf
<1>5. ASSUME NEW u \in Threads PROVE PhaseOK(u)'
  <2>1. CASE u = t
    <3>1. pc'[t] = "add" /\ local'[t] = ptr[s] /\ from'[t] = s
      BY <1>1 DEF IInv, TypeOK
    <3>2. ptr[t] = None
      BY <1>1 DEF IInv, PhaseOK
    <3>3. QED BY <1>1, <1>2, <2>1, <3>1, <3>2 DEF PhaseOK
  <2>2. CASE u # t
    <3>1. pc'[u] = pc[u] /\ local'[u] = local[u] /\ from'[u] = from[u]
      BY <1>1, <2>2 DEF IInv, TypeOK
    <3>2. QED BY <1>1, <2>2, <3>1, OthersUndisturbed
  <2>3. QED BY <2>1, <2>2
<1>6. SoleDeleter'
  BY <1>1 DEF IInv, SoleDeleter, TypeOK
<1>7. QED BY <1>3, <1>4, <1>5, <1>6 DEF IInv

LEMMA CopyAddPreserves ==
    ASSUME IInv, NEW t \in Threads, NEW to \in Handles, CopyAdd(t, to)
    PROVE  IInv'
<1> DEFINE n == local[t]
<1>1. /\ pc[t] = "add" /\ Owner[to] = t /\ ptr[to] = None
      /\ refs' = [refs EXCEPT ![n] = @ + 1]
      /\ ptr' = [ptr EXCEPT ![to] = n]
      /\ pc' = [pc EXCEPT ![t] = "idle"]
      /\ local' = [local EXCEPT ![t] = None]
      /\ from' = [from EXCEPT ![t] = None]
      /\ life' = life
  BY DEF CopyAdd
<1>2. to \in Slots /\ to \notin Threads /\ to \notin Nodes /\ from[t] \in Slots
      /\ n \in Nodes /\ n # None /\ ptr[from[t]] = n /\ ptr[t] = None
  BY <1>1, SlotsAssumption DEF Slots, IInv, TypeOK, PhaseOK
<1>3. refs[n] \in Nat \ {0} /\ life[n] = "live"
  BY <1>2, OwnedIsPositive DEF IInv, PointersAreLive
<1>4. /\ ptr \in [Slots -> Nodes \cup {None}] /\ refs \in [Nodes -> Nat]
      /\ ptr' \in [Slots -> Nodes \cup {None}] /\ refs' \in [Nodes -> Nat]
      /\ ptr'[to] = n /\ \A s \in Slots : s # to => ptr'[s] = ptr[s]
      /\ refs'[n] = refs[n] + 1 /\ \A m \in Nodes : m # n => refs'[m] = refs[m]
  BY <1>1, <1>2 DEF IInv, TypeOK
<1> HIDE DEF n
<1>5. TypeOK'
  BY <1>1, <1>4 DEF IInv, TypeOK, Phases
<1>6. CountIsExact'
  <2> SUFFICES ASSUME NEW m \in Nodes PROVE refs'[m] = Cardinality(OwnersOf(m)')
    BY DEF CountIsExact, OwnersOf
  <2>1. refs[m] = Cardinality(OwnersOf(m)) /\ m # None
    BY SlotsAssumption DEF IInv, CountIsExact, Slots
  <2>2. CASE m = n
    <3>1. OwnersOf(m)' = OwnersOf(m) \cup {to} /\ ptr[to] # m
      BY <1>1, <1>2, <1>4, <2>1, <2>2 DEF OwnersOf
    <3>2. Cardinality(OwnersOf(m)') = Cardinality(OwnersOf(m)) + 1
      BY <1>2, <3>1, OwnerAdded
    <3>3. QED BY <1>4, <2>1, <2>2, <3>2
  <2>3. CASE m # n
    <3>1. OwnersOf(m)' = OwnersOf(m)
      BY <1>1, <1>2, <1>4, <2>1, <2>3 DEF OwnersOf
    <3>2. QED BY <1>4, <2>1, <2>3, <3>1
  <2>4. QED BY <2>2, <2>3
<1>7. PointersAreLive'
  BY <1>1, <1>2, <1>3, <1>4 DEF IInv, PointersAreLive, Slots
<1>8. ASSUME NEW u \in Threads PROVE PhaseOK(u)'
  <2>1. CASE u = t
    <3>1. pc'[t] = "idle" /\ local'[t] = None /\ from'[t] = None /\ ptr'[t] = None
      BY <1>1, <1>2, <1>4 DEF IInv, TypeOK, Slots
    <3>2. QED BY <2>1, <3>1 DEF PhaseOK
  <2>2. CASE u # t
    <3>1. pc'[u] = pc[u] /\ local'[u] = local[u] /\ from'[u] = from[u] /\ ptr'[u] = ptr[u]
      BY <1>1, <1>2, <1>4, <2>2 DEF IInv, TypeOK, Slots
    <3>2. \A s \in Handles \cup Nodes : ptr[s] # None => ptr'[s] = ptr[s]
      BY <1>1, <1>4 DEF Slots
    <3>3. pc[u] \in {"detach", "delete"} =>
              /\ life'[local[u]] = life[local[u]]
              /\ refs'[local[u]] = refs[local[u]]
              /\ ptr'[local[u]] = ptr[local[u]]
      <4>1. pc[u] \in {"detach", "delete"} => local[u] \in Nodes /\ local[u] # n
        BY <1>3 DEF IInv, PhaseOK, TypeOK
      <4>2. QED BY <1>1, <1>2, <1>4, <4>1 DEF Slots
    <3>4. QED BY <2>2, <3>1, <3>2, <3>3, OthersUndisturbed
  <2>3. QED BY <2>1, <2>2
<1>9. SoleDeleter'
  BY <1>1 DEF IInv, SoleDeleter, TypeOK
<1>10. QED BY <1>5, <1>6, <1>7, <1>8, <1>9 DEF IInv

LEMMA BeginReleasePreserves ==
    ASSUME IInv, NEW t \in Threads, NEW h \in Handles, BeginRelease(t, h)
    PROVE  IInv'
<1>1. /\ pc[t] = "idle" /\ Owner[h] = t /\ ptr[h] # None /\ Stable(h)
      /\ pc' = [pc EXCEPT ![t] = "sub"]
      /\ ptr' = [ptr EXCEPT ![h] = None, ![t] = ptr[h]]
      /\ life' = life /\ refs' = refs /\ local' = local /\ from' = from
  BY DEF BeginRelease, Own
<1>2. h \in Slots /\ t \in Slots /\ h # t /\ h \notin Threads /\ h \notin Nodes /\ t \notin Nodes
      /\ t \notin Handles
  BY SlotsAssumption DEF Slots
<1>3. /\ ptr \in [Slots -> Nodes \cup {None}] /\ ptr[h] \in Nodes /\ life[ptr[h]] = "live"
      /\ ptr[t] = None /\ local[t] = None /\ from[t] = None
  BY <1>1, <1>2 DEF IInv, TypeOK, PointersAreLive, PhaseOK
<1>4. /\ ptr' \in [Slots -> Nodes \cup {None}]
      /\ ptr'[h] = None /\ ptr'[t] = ptr[h]
      /\ \A s \in Slots : s # h /\ s # t => ptr'[s] = ptr[s]
  BY <1>1, <1>2, <1>3
<1>5. TypeOK'
  BY <1>1, <1>4 DEF IInv, TypeOK, Phases
<1>6. CountIsExact'
  <2>1. \A m \in Nodes : Cardinality(OwnersOf(m)') = Cardinality(OwnersOf(m))
    BY <1>1, <1>2, <1>3, OwnerMoved
  <2>2. QED BY <1>1, <2>1 DEF IInv, CountIsExact, OwnersOf
<1>7. PointersAreLive'
  BY <1>1, <1>2, <1>3, <1>4 DEF IInv, PointersAreLive, Slots
<1>8. ASSUME NEW u \in Threads PROVE PhaseOK(u)'
  <2>1. CASE u = t
    <3>1. pc'[t] = "sub"
      BY <1>1 DEF IInv, TypeOK
    <3>2. QED BY <1>1, <1>3, <1>4, <2>1, <3>1 DEF PhaseOK
  <2>2. CASE u # t
    <3>1. pc'[u] = pc[u] /\ ptr'[u] = ptr[u]
      BY <1>1, <1>2, <1>4, <2>2 DEF IInv, TypeOK, Slots
    <3>2. \A s \in Handles \cup Nodes : ptr[s] # None /\ ptr'[s] # ptr[s] => s = h
      BY <1>2, <1>4 DEF Slots
    <3>3. pc[u] \in {"detach", "delete"} => ptr'[local[u]] = ptr[local[u]]
      <4>1. pc[u] \in {"detach", "delete"} => local[u] \in Nodes
        BY DEF IInv, PhaseOK, TypeOK
      <4>2. QED BY <1>2, <1>4, <4>1 DEF Slots
    <3>4. QED BY <1>1, <2>2, <3>1, <3>2, <3>3, OthersUndisturbed
  <2>3. QED BY <2>1, <2>2
<1>9. SoleDeleter'
  BY <1>1 DEF IInv, SoleDeleter, TypeOK
<1>10. QED BY <1>5, <1>6, <1>7, <1>8, <1>9 DEF IInv

LEMMA SubPreserves ==
    ASSUME IInv, NEW t \in Threads, Sub(t)
    PROVE  IInv'
<1> DEFINE n == ptr[t]
<1>1. /\ pc[t] = "sub"
      /\ refs' = [refs EXCEPT ![n] = @ - 1]
      /\ ptr' = [ptr EXCEPT ![t] = None]
      /\ \/ refs[n] = 1 /\ pc' = [pc EXCEPT ![t] = "detach"] /\ local' = [local EXCEPT ![t] = n]
         \/ refs[n] # 1 /\ pc' = [pc EXCEPT ![t] = "idle"] /\ local' = local
      /\ life' = life /\ from' = from
  BY DEF Sub
<1>2. t \in Slots /\ t \notin Nodes /\ t \notin Handles /\ n # None
      /\ local[t] = None /\ from[t] = None
  BY <1>1, SlotsAssumption DEF Slots, IInv, PhaseOK
<1>3. n \in Nodes /\ refs[n] \in Nat \ {0} /\ life[n] = "live"
  BY <1>2, OwnedIsPositive DEF IInv, PointersAreLive
<1>4. /\ ptr \in [Slots -> Nodes \cup {None}] /\ refs \in [Nodes -> Nat]
      /\ ptr' \in [Slots -> Nodes \cup {None}] /\ refs' \in [Nodes -> Nat]
      /\ ptr'[t] = None /\ \A s \in Slots : s # t => ptr'[s] = ptr[s]
      /\ refs'[n] = refs[n] - 1 /\ \A m \in Nodes : m # n => refs'[m] = refs[m]
  BY <1>1, <1>2, <1>3 DEF IInv, TypeOK
<1>5. \A u \in Threads : u # t => pc'[u] = pc[u] /\ local'[u] = local[u] /\ ptr'[u] = ptr[u]
  BY <1>1, <1>4 DEF IInv, TypeOK, Slots
<1>6. \A u \in Threads : pc[u] \in {"detach", "delete"} => local[u] \in Nodes /\ local[u] # n
  BY <1>3 DEF IInv, PhaseOK, TypeOK
<1>7. \/ refs[n] = 1 /\ pc'[t] = "detach" /\ local'[t] = n
      \/ refs[n] # 1 /\ pc'[t] = "idle" /\ local'[t] = None
  BY <1>1, <1>2 DEF IInv, TypeOK
<1> HIDE DEF n
<1>8. TypeOK'
  BY <1>1, <1>3, <1>4 DEF IInv, TypeOK, Phases
<1>9. CountIsExact'
  <2> SUFFICES ASSUME NEW m \in Nodes PROVE refs'[m] = Cardinality(OwnersOf(m)')
    BY DEF CountIsExact, OwnersOf
  <2>1. refs[m] = Cardinality(OwnersOf(m)) /\ m # None
    BY SlotsAssumption DEF IInv, CountIsExact, Slots
  <2>2. CASE m = n
    <3>1. OwnersOf(m)' = OwnersOf(m) \ {t} /\ ptr[t] = m
      BY <1>2, <1>4, <2>1, <2>2 DEF OwnersOf, n
    <3>2. Cardinality(OwnersOf(m)') = Cardinality(OwnersOf(m)) - 1
      BY <1>2, <3>1, OwnerRemoved
    <3>3. QED BY <1>4, <2>1, <2>2, <3>2
  <2>3. CASE m # n
    <3>1. OwnersOf(m)' = OwnersOf(m)
      BY <1>2, <1>4, <2>1, <2>3 DEF OwnersOf, n
    <3>2. QED BY <1>4, <2>1, <2>3, <3>1
  <2>4. QED BY <2>2, <2>3
<1>10. PointersAreLive'
  BY <1>1, <1>2, <1>4 DEF IInv, PointersAreLive, Slots
<1>11. ASSUME NEW u \in Threads PROVE PhaseOK(u)'
  <2>1. CASE u = t
    BY <1>1, <1>2, <1>3, <1>4, <1>7, <2>1 DEF PhaseOK
  <2>2. CASE u # t
    <3>1. pc[u] \in {"detach", "delete"} =>
              refs'[local[u]] = refs[local[u]] /\ ptr'[local[u]] = ptr[local[u]]
      BY <1>2, <1>4, <1>6 DEF Slots
    <3>2. \A s \in Handles \cup Nodes : ptr'[s] = ptr[s]
      BY <1>2, <1>4 DEF Slots
    <3>3. QED BY <1>1, <1>5, <2>2, <3>1, <3>2, OthersUndisturbed
  <2>3. QED BY <2>1, <2>2
<1>12. SoleDeleter'
  BY <1>5, <1>6, <1>7 DEF IInv, SoleDeleter
<1>13. QED BY <1>8, <1>9, <1>10, <1>11, <1>12 DEF IInv

LEMMA DetachPreserves ==
    ASSUME IInv, NEW t \in Threads, Detach(t)
    PROVE  IInv'
<1> DEFINE n == local[t]
<1>1. /\ pc[t] = "detach"
      /\ ptr' = [ptr EXCEPT ![n] = None, ![t] = ptr[n]]
      /\ pc' = [pc EXCEPT ![t] = "delete"]
      /\ life' = life /\ refs' = refs /\ local' = local /\ from' = from
  BY DEF Detach
<1>2. n \in Nodes /\ n \in Slots /\ t \in Slots /\ n # t /\ t \notin Nodes /\ t \notin Handles
      /\ n \notin Handles /\ n # None
      /\ ptr[t] = None /\ from[t] = None /\ life[n] = "live" /\ refs[n] = 0
  BY <1>1, SlotsAssumption DEF Slots, IInv, PhaseOK, TypeOK
<1> HIDE DEF n
<1>3. ptr \in [Slots -> Nodes \cup {None}]
  BY DEF IInv, TypeOK
<1>4. /\ ptr' \in [Slots -> Nodes \cup {None}]
      /\ ptr'[n] = None /\ ptr'[t] = ptr[n]
      /\ \A s \in Slots : s # n /\ s # t => ptr'[s] = ptr[s]
  BY <1>1, <1>2, <1>3
<1>5. TypeOK'
  BY <1>1, <1>4 DEF IInv, TypeOK, Phases
<1>6. CountIsExact'
  <2>1. \A m \in Nodes : Cardinality(OwnersOf(m)') = Cardinality(OwnersOf(m))
    BY <1>1, <1>2, <1>3, OwnerMoved
  <2>2. QED BY <1>1, <2>1 DEF IInv, CountIsExact, OwnersOf
<1>7. PointersAreLive'
  BY <1>1, <1>2, <1>4 DEF IInv, PointersAreLive, Slots
<1>8. ASSUME NEW u \in Threads PROVE PhaseOK(u)'
  <2>1. CASE u = t
    <3>1. pc'[t] = "delete" /\ local'[t] = n
      BY <1>1 DEF IInv, TypeOK, n
    <3>2. QED BY <1>1, <1>2, <1>4, <2>1, <3>1 DEF PhaseOK
  <2>2. CASE u # t
    <3>1. pc'[u] = pc[u] /\ ptr'[u] = ptr[u]
      BY <1>1, <1>2, <1>4, <2>2, SlotsAssumption DEF IInv, TypeOK, Slots
    <3>2. \A s \in Handles \cup Nodes : ptr[s] # None /\ ptr'[s] # ptr[s] => s = n
      BY <1>2, <1>4 DEF Slots
    <3>3. pc[u] \in {"detach", "delete"} => ptr'[local[u]] = ptr[local[u]]
      <4>1. pc[u] \in {"detach", "delete"} => local[u] \in Nodes /\ local[u] # n
        BY <1>1, <2>2 DEF IInv, PhaseOK, TypeOK, SoleDeleter, n
      <4>2. QED BY <1>2, <1>4, <4>1 DEF Slots
    <3>4. QED BY <1>1, <1>2, <2>2, <3>1, <3>2, <3>3, OthersUndisturbed
  <2>3. QED BY <2>1, <2>2
<1>9. SoleDeleter'
  BY <1>1 DEF IInv, SoleDeleter, TypeOK
<1>10. QED BY <1>5, <1>6, <1>7, <1>8, <1>9 DEF IInv

LEMMA DeletePreserves ==
    ASSUME IInv, NEW t \in Threads, Delete(t)
    PROVE  IInv'
<1> DEFINE n == local[t]
<1>1. /\ pc[t] = "delete"
      /\ life' = [life EXCEPT ![n] = "freed"]
      /\ local' = [local EXCEPT ![t] = None]
      /\ pc' = [pc EXCEPT ![t] = IF ptr[t] = None THEN "idle" ELSE "sub"]
      /\ refs' = refs /\ ptr' = ptr /\ from' = from
  BY DEF Delete
<1>2. n \in Nodes /\ n # None /\ refs[n] = 0 /\ ptr[n] = None /\ from[t] = None
  BY <1>1, SlotsAssumption DEF Slots, IInv, PhaseOK, TypeOK
<1>3. \A s \in Slots : ptr[s] # n
  BY <1>2, ZeroIsUnowned
<1>4. \A u \in Threads : u # t =>
          /\ pc'[u] = pc[u] /\ local'[u] = local[u]
          /\ pc[u] \in {"detach", "delete"} => local[u] # n
  BY <1>1 DEF IInv, TypeOK, SoleDeleter
<1>5. /\ pc'[t] = IF ptr[t] = None THEN "idle" ELSE "sub"
      /\ local'[t] = None
  BY <1>1 DEF IInv, TypeOK
<1>6. life'[n] = "freed" /\ \A m \in Nodes : m # n => life'[m] = life[m]
  BY <1>1, <1>2 DEF IInv, TypeOK
<1> HIDE DEF n
<1>7. TypeOK'
  BY <1>1 DEF IInv, TypeOK, Phases
<1>8. CountIsExact'
  BY <1>1 DEF IInv, CountIsExact, OwnersOf
<1>9. PointersAreLive'
  BY <1>1, <1>2, <1>3, <1>6 DEF IInv, TypeOK, PointersAreLive
<1>10. ASSUME NEW u \in Threads PROVE PhaseOK(u)'
  <2>1. CASE u = t
    BY <1>1, <1>2, <1>5, <2>1 DEF PhaseOK
  <2>2. CASE u # t
    <3>1. pc[u] \in {"detach", "delete"} => local[u] \in Nodes /\ local[u] # n
      BY <1>4, <2>2 DEF IInv, PhaseOK, TypeOK
    <3>2. QED BY <1>1, <1>4, <1>6, <2>2, <3>1, OthersUndisturbed
  <2>3. QED BY <2>1, <2>2
<1>11. SoleDeleter'
  BY <1>4, <1>5 DEF IInv, SoleDeleter
<1>12. QED BY <1>7, <1>8, <1>9, <1>10, <1>11 DEF IInv

-----------------------------------------------------------------------------
(* The invariant holds.                                                    *)

LEMMA NextIInv == IInv /\ [Next]_vars => IInv'
<1> SUFFICES ASSUME IInv, [Next]_vars PROVE IInv'
  OBVIOUS
<1>1. CASE Next
  <2>1. PICK t \in Threads :
            \/ \E to \in Handles, n \in Nodes : MakeLeaf(t, to, n)
            \/ \E h, to \in Handles, n \in Nodes : MakeContinue(t, h, to, n)
            \/ \E h, to \in Handles : Move(t, h, to) \/ Assign(t, h, to)
            \/ \E s \in Handles \cup Nodes : CopyRead(t, s)
            \/ \E to \in Handles : CopyAdd(t, to)
            \/ \E h \in Handles : BeginRelease(t, h)
            \/ Destroy(t)
    BY <1>1 DEF Next
  <2>2. QED BY <2>1, MakeLeafPreserves, MakeContinuePreserves, MovePreserves,
               AssignPreserves, CopyReadPreserves, CopyAddPreserves, BeginReleasePreserves,
               SubPreserves, DetachPreserves, DeletePreserves DEF Destroy
<1>2. CASE UNCHANGED vars
  BY <1>2 DEF vars, IInv, TypeOK, CountIsExact, OwnersOf, PointersAreLive, PhaseOK, SoleDeleter
<1>3. QED BY <1>1, <1>2

(* Every reachable state satisfies the inductive invariant.                *)
THEOREM Invariance == Spec => []IInv
BY InitIInv, NextIInv, PTL DEF Spec

(* The variables stay in range; a count never goes below zero.             *)
THEOREM TypeCorrect == Spec => []TypeOK
<1>1. IInv => TypeOK
  BY DEF IInv
<1>2. QED BY Invariance, <1>1, PTL

(* The counter of a node is the number of its owners.                      *)
THEOREM ExactCount == Spec => []CountIsExact
<1>1. IInv => CountIsExact
  BY DEF IInv
<1>2. QED BY Invariance, <1>1, PTL

(* Nothing refers to a node that is not live.                              *)
THEOREM MemorySafety == Spec => []NoDangling
<1>1. IInv => NoDangling
  <2> SUFFICES ASSUME IInv, NEW t \in Threads, local[t] # None
               PROVE  life[local[t]] = "live"
    BY DEF IInv, PointersAreLive, NoDangling
  <2>1. local[t] \in Nodes
    BY DEF IInv, TypeOK
  <2>2. QED BY <2>1, DeadIsUnowned
<1>2. QED BY Invariance, <1>1, PTL

(* A destructor that read the last reference has the node for itself.      *)
THEOREM ExclusiveDestruction == Spec => []LastOwnerIsAlone
<1>1. IInv => LastOwnerIsAlone
  <2> SUFFICES ASSUME IInv, NEW t \in Threads, pc[t] \in {"detach", "delete"},
                      NEW u \in Threads \ {t}, local[u] = local[t]
               PROVE  FALSE
    BY DEF IInv, PhaseOK, LastOwnerIsAlone
  <2>1. local[t] \in Nodes /\ refs[local[t]] = 0 /\ local[t] # None
    BY DEF IInv, PhaseOK, TypeOK
  <2>2. pc[u] \in {"add", "detach", "delete"}
    BY <2>1 DEF IInv, PhaseOK, TypeOK, Phases
  <2>3. CASE pc[u] = "add"
    <3>1. from[u] \in Slots /\ ptr[from[u]] = local[t]
      BY <2>3 DEF IInv, PhaseOK, TypeOK, Slots
    <3>2. QED BY <2>1, <3>1, ZeroIsUnowned
  <2>4. CASE pc[u] \in {"detach", "delete"}
    BY <2>4 DEF IInv, SoleDeleter
  <2>5. QED BY <2>2, <2>3, <2>4
<1>2. QED BY Invariance, <1>1, PTL

(* The spine of a bind chain is released by the loop, never by recursion.  *)
THEOREM IterativeRelease == Spec => []DeleteFindsNoSource
<1>1. IInv => DeleteFindsNoSource
  BY DEF IInv, PhaseOK, DeleteFindsNoSource
<1>2. QED BY Invariance, <1>1, PTL

(* A count that has reached zero stays there: no copy can start from a     *)
(* node that is being deleted.                                             *)
THEOREM ZeroIsFinal == Spec => NoResurrection
<1> DEFINE StaysZero == \A n \in Nodes : life[n] # "unallocated" /\ refs[n] = 0 => refs'[n] = 0
<1>1. IInv /\ [Next]_vars => [StaysZero]_vars
  <2> SUFFICES ASSUME IInv, Next, NEW n \in Nodes, life[n] # "unallocated", refs[n] = 0
               PROVE  refs'[n] = 0
    OBVIOUS
  <2>1. refs \in [Nodes -> Nat]
    BY DEF IInv, TypeOK
  <2>2. ASSUME NEW t \in Threads, NEW to \in Handles, CopyAdd(t, to)
        PROVE  local[t] # n
    <3>1. from[t] \in Slots /\ ptr[from[t]] = local[t]
      BY <2>2 DEF CopyAdd, IInv, PhaseOK, TypeOK, Slots
    <3>2. QED BY <3>1, ZeroIsUnowned
  <2>3. ASSUME NEW t \in Threads, Sub(t)
        PROVE  ptr[t] # n
    BY ZeroIsUnowned DEF Slots
  <2>4. QED BY <2>1, <2>2, <2>3
            DEF Next, MakeLeaf, MakeContinue, Move, Assign, CopyRead, CopyAdd, BeginRelease,
                Destroy, Sub, Detach, Delete
<1>2. QED BY Invariance, <1>1, PTL DEF Spec, NoResurrection

=============================================================================
