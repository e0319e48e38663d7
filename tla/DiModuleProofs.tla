--------------------------- MODULE DiModuleProofs ---------------------------
(***************************************************************************)
(* DiModule for any modules, keys and sets and logs of any length: what a  *)
(* module holds is told by the chains of inclusions in the log, and a Set  *)
(* holds each service once.                                                *)
(***************************************************************************)
EXTENDS DiModule, FiniteSetTheorems, WellFoundedInduction, TLAPS

-----------------------------------------------------------------------------
(* Least and greatest places.                                              *)

LEMMA LeastNumber ==
    ASSUME NEW S \in SUBSET Nat, S # {}
    PROVE  \E n \in S : \A m \in S : n <= m
<1>1. PICK x \in S : \A y \in S : ~ (<<y, x>> \in OpToRel(<, Nat))
  BY NatLessThanWellFounded, WFMin
<1>2. \A y \in S : ~ (y < x)
  BY <1>1 DEF OpToRel
<1>3. QED BY <1>2

LEMMA MinFacts ==
    ASSUME NEW S \in SUBSET Nat, S # {}
    PROVE  Min(S) \in S /\ \A m \in S : Min(S) <= m
BY LeastNumber DEF Min

LEMMA MinIs ==
    ASSUME NEW S \in SUBSET Nat, NEW x \in S, \A m \in S : x <= m
    PROVE  Min(S) = x
<1>1. Min(S) \in Nat /\ Min(S) \in S /\ Min(S) <= x
  BY MinFacts
<1>2. x <= Min(S) /\ x \in Nat
  BY <1>1
<1>3. QED BY <1>1, <1>2

LEMMA MaxFacts ==
    ASSUME NEW n \in Nat, NEW S \in SUBSET (1 .. n), S # {}
    PROVE  Max(S) \in S /\ \A m \in S : Max(S) >= m
<1> DEFINE Bounds == {b \in Nat : \A m \in S : b >= m}
<1>1. n \in Bounds
  OBVIOUS
<1>2. PICK b \in Bounds : \A a \in Bounds : b <= a
  BY <1>1, LeastNumber
<1>3. b \in S
  <2>1. SUFFICES ASSUME b \notin S
                 PROVE  FALSE
    OBVIOUS
  <2>2. ASSUME NEW m \in S
        PROVE  b - 1 >= m
    <3>1. b \in Nat /\ m \in Nat /\ b >= m /\ b # m
      BY <1>2, <2>1
    <3>2. QED BY <3>1
  <2>3. b >= 1
    <3>1. PICK m \in S : TRUE
      OBVIOUS
    <3>2. m \in Nat /\ m >= 1 /\ b \in Nat /\ b >= m
      BY <1>2
    <3>3. QED BY <3>2
  <2>4. b - 1 \in Bounds
    BY <1>2, <2>2, <2>3
  <2>5. QED BY <1>2, <2>4
<1>4. \E x \in S : \A m \in S : x >= m
  BY <1>2, <1>3
<1>5. QED BY <1>4 DEF Max

LEMMA MaxIs ==
    ASSUME NEW n \in Nat, NEW S \in SUBSET (1 .. n), NEW x \in S, \A m \in S : x >= m
    PROVE  Max(S) = x
<1>1. Max(S) \in S /\ Max(S) >= x
  <2>1. S # {}
    OBVIOUS
  <2>2. QED BY <2>1, MaxFacts
<1>2. x >= Max(S)
  BY <1>1
<1>3. x \in Nat /\ Max(S) \in Nat
  <2>1. \A m \in S : m \in Nat
    OBVIOUS
  <2>2. QED BY <1>1, <2>1
<1>4. QED BY <1>1, <1>2, <1>3

-----------------------------------------------------------------------------
(* Before orders the sets of places.                                       *)

LEMMA BeforeIsTotal ==
    ASSUME NEW n \in Nat, NEW c \in SUBSET (1 .. n), NEW d \in SUBSET (1 .. n), c # d
    PROVE  Before(c, d) <=> ~ Before(d, c)
<1>1. PICK D : D = (c \cup d) \ (c \cap d)
  OBVIOUS
<1>2. D = (d \cup c) \ (d \cap c)
  BY <1>1
<1>3. Max(D) \in D
  <2>1. D # {} /\ D \in SUBSET (1 .. n)
    BY <1>1
  <2>2. QED BY <2>1, MaxFacts
<1>4. (Before(c, d) <=> Max(D) \in d) /\ (Before(d, c) <=> Max(D) \in c)
  BY <1>1, <1>2, Zenon DEF Before
<1>5. QED BY <1>1, <1>3, <1>4

(* A chain that reaches further comes later.                               *)
LEMMA BeforeFurther ==
    ASSUME NEW n \in Nat, NEW c \in SUBSET (1 .. n), NEW d \in SUBSET (1 .. n)
    PROVE  Before(c, d \cup {n + 1}) /\ c # d \cup {n + 1}
<1>1. PICK D : D = (c \cup (d \cup {n + 1})) \ (c \cap (d \cup {n + 1}))
  OBVIOUS
<1>2. D \in SUBSET (1 .. n + 1) /\ n + 1 \in D /\ n + 1 \notin c
  BY <1>1
<1>3. Max(D) = n + 1
  BY <1>2, MaxIs
<1>4. QED BY <1>1, <1>2, <1>3 DEF Before

(* Inclusion keeps the order.                                              *)
LEMMA BeforeExtended ==
    ASSUME NEW n \in Nat, NEW c \in SUBSET (1 .. n), NEW d \in SUBSET (1 .. n),
           c # d, Before(c, d)
    PROVE  Before(c \cup {n + 1}, d \cup {n + 1}) /\ c \cup {n + 1} # d \cup {n + 1}
<1>1. n + 1 \notin c /\ n + 1 \notin d
  OBVIOUS
<1>2. PICK D : D = (c \cup d) \ (c \cap d)
  OBVIOUS
<1>3. D = ((c \cup {n + 1}) \cup (d \cup {n + 1})) \ ((c \cup {n + 1}) \cap (d \cup {n + 1}))
  BY <1>1, <1>2
<1>4. Max(D) \in d
  BY <1>2, Zenon DEF Before
<1>5. Before(c \cup {n + 1}, d \cup {n + 1})
  BY <1>3, <1>4, Zenon DEF Before
<1>6. QED BY <1>1, <1>5

-----------------------------------------------------------------------------
(* Chains in order.                                                        *)

InOrder(cs, chains) ==
    /\ cs \in Seq(chains)
    /\ \A c \in chains : \E i \in 1 .. Len(cs) : cs[i] = c
    /\ \A i, j \in 1 .. Len(cs) : i < j => cs[i] # cs[j] /\ Before(cs[i], cs[j])

LEMMA SortedConcat ==
    ASSUME NEW chains, NEW more, NEW cs, InOrder(cs, chains), NEW ds, InOrder(ds, more),
           \A c \in chains, d \in more : c # d /\ Before(c, d)
    PROVE  InOrder(cs \o ds, chains \cup more)
<1>1. cs \in Seq(chains) /\ ds \in Seq(more)
  BY DEF InOrder
<1>2. cs \in Seq(chains \cup more) /\ ds \in Seq(chains \cup more)
  BY <1>1
<1>3. PICK es \in Seq(chains \cup more) : es = cs \o ds
  <2>1. cs \o ds \in Seq(chains \cup more)
    BY <1>2
  <2>2. QED BY <2>1
<1>4. /\ Len(es) = Len(cs) + Len(ds) /\ Len(cs) \in Nat /\ Len(ds) \in Nat
      /\ \A i \in 1 .. Len(cs) : es[i] = cs[i]
      /\ \A i \in Len(cs) + 1 .. Len(es) : i - Len(cs) \in 1 .. Len(ds) /\ es[i] = ds[i - Len(cs)]
      /\ \A i \in 1 .. Len(ds) : Len(cs) + i \in 1 .. Len(es) /\ es[Len(cs) + i] = ds[i]
  BY <1>2, <1>3
<1>5. ASSUME NEW c \in chains \cup more
      PROVE  \E i \in 1 .. Len(es) : es[i] = c
  <2>1. CASE c \in chains
    <3>1. PICK i \in 1 .. Len(cs) : cs[i] = c
      BY <2>1 DEF InOrder
    <3>2. i \in 1 .. Len(es) /\ es[i] = c
      BY <1>4, <3>1
    <3>3. QED BY <3>2
  <2>2. CASE c \in more
    <3>1. PICK i \in 1 .. Len(ds) : ds[i] = c
      BY <2>2 DEF InOrder
    <3>2. Len(cs) + i \in 1 .. Len(es) /\ es[Len(cs) + i] = c
      BY <1>4, <3>1
    <3>3. QED BY <3>2
  <2>3. QED BY <2>1, <2>2
<1>6. ASSUME NEW i \in 1 .. Len(es), NEW j \in 1 .. Len(es), i < j
      PROVE  es[i] # es[j] /\ Before(es[i], es[j])
  <2>1. CASE j <= Len(cs)
    <3>1. i \in 1 .. Len(cs) /\ j \in 1 .. Len(cs) /\ es[i] = cs[i] /\ es[j] = cs[j]
      BY <1>4, <1>6, <2>1
    <3>2. QED BY <1>6, <3>1 DEF InOrder
  <2>2. CASE i <= Len(cs) /\ ~ j <= Len(cs)
    <3>1. /\ i \in 1 .. Len(cs) /\ j - Len(cs) \in 1 .. Len(ds)
          /\ es[i] = cs[i] /\ es[j] = ds[j - Len(cs)]
      BY <1>4, <2>2
    <3>2. cs[i] \in chains /\ ds[j - Len(cs)] \in more
      BY <1>1, <3>1
    <3>3. QED BY <3>1, <3>2
  <2>3. CASE ~ i <= Len(cs)
    <3>0. i \in Len(cs) + 1 .. Len(es) /\ j \in Len(cs) + 1 .. Len(es)
      BY <1>4, <1>6, <2>3
    <3>1. PICK k \in 1 .. Len(ds) : k = i - Len(cs)
      <4>1. i - Len(cs) \in 1 .. Len(ds)
        BY <1>4, <3>0
      <4>2. QED BY <4>1
    <3>2. PICK l \in 1 .. Len(ds) : l = j - Len(cs)
      <4>1. j - Len(cs) \in 1 .. Len(ds)
        BY <1>4, <3>0
      <4>2. QED BY <4>1
    <3>3. k < l /\ es[i] = ds[k] /\ es[j] = ds[l]
      BY <1>4, <1>6, <3>0, <3>1, <3>2
    <3>4. ds[k] # ds[l] /\ Before(ds[k], ds[l])
      BY <3>3 DEF InOrder
    <3>5. QED BY <3>3, <3>4
  <2>4. QED BY <1>4, <1>6, <2>1, <2>2, <2>3
<1>7. QED BY <1>3, <1>5, <1>6 DEF InOrder

LEMMA SortedExtended ==
    ASSUME NEW n \in Nat, NEW chains \in SUBSET (SUBSET (1 .. n)), NEW cs, InOrder(cs, chains)
    PROVE  InOrder([i \in 1 .. Len(cs) |-> cs[i] \cup {n + 1}], {c \cup {n + 1} : c \in chains})
<1>1. cs \in Seq(chains) /\ Len(cs) \in Nat /\ \A i \in 1 .. Len(cs) : cs[i] \in chains
  BY DEF InOrder
<1>2. PICK ds : ds = [i \in 1 .. Len(cs) |-> cs[i] \cup {n + 1}]
  OBVIOUS
<1>3. PICK more : more = {c \cup {n + 1} : c \in chains}
  OBVIOUS
<1>4. ds \in Seq(more) /\ Len(ds) = Len(cs) /\ \A i \in 1 .. Len(cs) : ds[i] = cs[i] \cup {n + 1}
  BY <1>1, <1>2, <1>3
<1>5. ASSUME NEW d \in more
      PROVE  \E i \in 1 .. Len(ds) : ds[i] = d
  <2>1. PICK c \in chains : d = c \cup {n + 1}
    BY <1>3
  <2>2. PICK i \in 1 .. Len(cs) : cs[i] = c
    BY DEF InOrder
  <2>3. QED BY <1>4, <2>1, <2>2
<1>6. ASSUME NEW i \in 1 .. Len(ds), NEW j \in 1 .. Len(ds), i < j
      PROVE  ds[i] # ds[j] /\ Before(ds[i], ds[j])
  <2>1. i \in 1 .. Len(cs) /\ j \in 1 .. Len(cs)
    BY <1>4
  <2>2. cs[i] # cs[j] /\ Before(cs[i], cs[j])
    BY <1>6, <2>1 DEF InOrder
  <2>3. PICK c \in SUBSET (1 .. n) : c = cs[i]
    BY <1>1, <2>1
  <2>4. PICK d \in SUBSET (1 .. n) : d = cs[j]
    BY <1>1, <2>1
  <2>5. Before(c \cup {n + 1}, d \cup {n + 1}) /\ c \cup {n + 1} # d \cup {n + 1}
    BY <2>2, <2>3, <2>4, BeforeExtended
  <2>6. ds[i] = c \cup {n + 1} /\ ds[j] = d \cup {n + 1}
    BY <1>4, <2>1, <2>3, <2>4
  <2>7. QED BY <2>5, <2>6
<1>7. InOrder(ds, more)
  BY <1>4, <1>5, <1>6 DEF InOrder
<1>8. QED BY <1>2, <1>3, <1>7

(* The number of chains before one is its place.                           *)
LEMMA SortedRanks ==
    ASSUME NEW n \in Nat, NEW chains \in SUBSET (SUBSET (1 .. n)), NEW cs, InOrder(cs, chains)
    PROVE  /\ Cardinality(chains) = Len(cs)
           /\ \A i \in 1 .. Len(cs) :
                 Cardinality({d \in chains \ {cs[i]} : Before(d, cs[i])}) = i - 1
<1>1. cs \in Seq(chains) /\ Len(cs) \in Nat /\ \A i \in 1 .. Len(cs) : cs[i] \in chains
  BY DEF InOrder
<1>2. ASSUME NEW i \in 1 .. Len(cs), NEW j \in 1 .. Len(cs), i # j
      PROVE  cs[i] # cs[j]
  <2>1. CASE i < j
    BY <2>1 DEF InOrder
  <2>2. CASE j < i
    BY <2>2 DEF InOrder
  <2>3. QED BY <1>1, <1>2, <2>1, <2>2
<1>3. ASSUME NEW m \in Nat, m <= Len(cs), NEW S, S = {cs[i] : i \in 1 .. m}
      PROVE  Cardinality(S) = m
  <2>1. PICK f : f = [i \in 1 .. m |-> cs[i]]
    OBVIOUS
  <2>2. f \in [1 .. m -> S]
    BY <1>3, <2>1
  <2>3. \A i, j \in 1 .. m : f[i] = f[j] => i = j
    BY <1>2, <1>3, <2>1
  <2>4. \A d \in S : \E i \in 1 .. m : f[i] = d
    BY <1>3, <2>1
  <2>5. f \in Bijection(1 .. m, S)
    BY <2>2, <2>3, <2>4 DEF Bijection, Injection, Surjection, IsInjective
  <2>6. QED BY <2>5, FS_CountingElements DEF ExistsBijection
<1>4. chains = {cs[i] : i \in 1 .. Len(cs)}
  BY <1>1 DEF InOrder
<1>5. ASSUME NEW i \in 1 .. Len(cs)
      PROVE  Cardinality({d \in chains \ {cs[i]} : Before(d, cs[i])}) = i - 1
  <2>1. ASSUME NEW j \in 1 .. Len(cs), j # i
        PROVE  Before(cs[j], cs[i]) <=> j < i
    <3>1. CASE j < i
      BY <3>1 DEF InOrder
    <3>2. CASE i < j
      <4>1. Before(cs[i], cs[j]) /\ cs[i] # cs[j]
        BY <3>2 DEF InOrder
      <4>2. cs[i] \in SUBSET (1 .. n) /\ cs[j] \in SUBSET (1 .. n)
        BY <1>1
      <4>3. ~ Before(cs[j], cs[i])
        BY <4>1, <4>2, BeforeIsTotal
      <4>4. QED BY <3>2, <4>3
    <3>3. QED BY <2>1, <3>1, <3>2
  <2>2. PICK S : S = {d \in chains \ {cs[i]} : Before(d, cs[i])}
    OBVIOUS
  <2>3. ASSUME NEW d \in S
        PROVE  d \in {cs[j] : j \in 1 .. i - 1}
    <3>1. PICK j \in 1 .. Len(cs) : d = cs[j]
      BY <1>4, <2>2
    <3>2. j # i /\ Before(cs[j], cs[i])
      BY <2>2, <3>1
    <3>3. j \in 1 .. i - 1
      BY <2>1, <3>2
    <3>4. QED BY <3>1, <3>3
  <2>4. ASSUME NEW j \in 1 .. i - 1
        PROVE  cs[j] \in S
    <3>1. j \in 1 .. Len(cs) /\ j # i /\ j < i
      OBVIOUS
    <3>2. Before(cs[j], cs[i]) /\ cs[j] # cs[i] /\ cs[j] \in chains
      BY <1>1, <1>2, <2>1, <3>1
    <3>3. QED BY <2>2, <3>2
  <2>5. S = {cs[j] : j \in 1 .. i - 1}
    BY <2>3, <2>4
  <2>6. i - 1 \in Nat /\ i - 1 <= Len(cs)
    OBVIOUS
  <2>7. Cardinality(S) = i - 1
    BY <1>3, <2>5, <2>6
  <2>8. QED BY <2>2, <2>7
<1>6. Cardinality(chains) = Len(cs)
  BY <1>1, <1>3, <1>4
<1>7. QED BY <1>5, <1>6

(* Registrations answers the first place of each chain, in order.          *)
LEMMA RegistrationsInOrder ==
    ASSUME NEW n \in Nat, NEW chains \in SUBSET (SUBSET (1 .. n)), NEW cs, InOrder(cs, chains)
    PROVE  Registrations(chains) = [i \in 1 .. Len(cs) |-> Min(cs[i])]
<1>1. /\ Cardinality(chains) = Len(cs)
      /\ \A i \in 1 .. Len(cs) :
            Cardinality({d \in chains \ {cs[i]} : Before(d, cs[i])}) = i - 1
  BY SortedRanks
<1>2. ASSUME NEW i \in 1 .. Len(cs)
      PROVE  (CHOOSE c \in chains : Cardinality({d \in chains \ {c} : Before(d, c)}) = i - 1) = cs[i]
  <2>1. cs[i] \in chains /\ Cardinality({d \in chains \ {cs[i]} : Before(d, cs[i])}) = i - 1
    BY <1>1 DEF InOrder
  <2>2. ASSUME NEW c \in chains, Cardinality({d \in chains \ {c} : Before(d, c)}) = i - 1
        PROVE  c = cs[i]
    <3>1. PICK j \in 1 .. Len(cs) : cs[j] = c
      BY DEF InOrder
    <3>2. Cardinality({d \in chains \ {c} : Before(d, c)}) = j - 1
      BY <1>1, <3>1
    <3>3. j = i
      BY <2>2, <3>2
    <3>4. QED BY <3>1, <3>3
  <2>3. QED BY <2>1, <2>2
<1>3. \A i \in 1 .. Len(cs) :
         Min(CHOOSE c \in chains : Cardinality({d \in chains \ {c} : Before(d, c)}) = i - 1)
            = Min(cs[i])
  BY <1>2, Zenon
<1>4. QED BY <1>1, <1>3, Zenon DEF Registrations

-----------------------------------------------------------------------------
(* The chains of a log L, and how they grow with it.                       *)

LinkedAt(L, c, t) ==
    L[NextPlace(c, t)].op = "include" /\ L[NextPlace(c, t)].subject = L[t].module

IsChain(L, c, m) ==
    /\ c # {}
    /\ L[Min(c)].op # "include"
    /\ L[Max(c)].module = m
    /\ \A t \in c \ {Max(c)} : LinkedAt(L, c, t)

LEMMA ChainFacts ==
    ASSUME NEW n \in Nat, NEW c \in SUBSET (1 .. n), c # {}
    PROVE  /\ Min(c) \in c /\ Max(c) \in c /\ Min(c) \in 1 .. n /\ Max(c) \in 1 .. n
           /\ \A t \in c \ {Max(c)} : NextPlace(c, t) \in c /\ NextPlace(c, t) \in 1 .. n
<1>1. Min(c) \in c /\ Max(c) \in c
  <2>1. c \in SUBSET Nat
    OBVIOUS
  <2>2. QED BY <2>1, MinFacts, MaxFacts
<1>2. ASSUME NEW t \in c \ {Max(c)}
      PROVE  NextPlace(c, t) \in c
  <2>1. PICK later : later = {u \in c : u > t}
    OBVIOUS
  <2>2. Max(c) > t
    <3>1. Max(c) >= t
      BY MaxFacts
    <3>2. Max(c) \in Nat /\ t \in Nat
      <4>1. \A u \in c : u \in Nat
        OBVIOUS
      <4>2. QED BY <1>1, <4>1
    <3>3. QED BY <3>1, <3>2
  <2>3. later # {} /\ later \in SUBSET Nat
    <3>1. Max(c) \in later
      BY <1>1, <2>1, <2>2
    <3>2. \A u \in later : u \in 1 .. n /\ u \in Nat
      BY <2>1
    <3>3. QED BY <3>1, <3>2
  <2>4. Min(later) \in later
    BY <2>3, MinFacts
  <2>5. QED BY <2>1, <2>4, Zenon DEF NextPlace
<1>3. QED BY <1>1, <1>2

(* What was a chain is one still.                                          *)
LEMMA ChainKept ==
    ASSUME NEW n \in Nat, NEW c \in SUBSET (1 .. n), NEW L, NEW L2,
           \A t \in 1 .. n : L2[t] = L[t], NEW m
    PROVE  IsChain(L2, c, m) <=> IsChain(L, c, m)
<1>1. SUFFICES ASSUME c # {}
               PROVE  IsChain(L2, c, m) <=> IsChain(L, c, m)
  BY DEF IsChain
<1>2. L2[Min(c)] = L[Min(c)] /\ L2[Max(c)] = L[Max(c)]
  BY <1>1, ChainFacts
<1>3. ASSUME NEW t \in c \ {Max(c)}
      PROVE  LinkedAt(L2, c, t) <=> LinkedAt(L, c, t)
  <2>1. NextPlace(c, t) \in 1 .. n /\ t \in 1 .. n
    BY <1>1, ChainFacts
  <2>2. QED BY <2>1 DEF LinkedAt
<1>4. QED BY <1>2, <1>3, Zenon DEF IsChain

LEMMA ChainOfOne ==
    ASSUME NEW n \in Nat, NEW L2, NEW m
    PROVE  /\ IsChain(L2, {n + 1}, m) <=> L2[n + 1].op # "include" /\ L2[n + 1].module = m
           /\ Min({n + 1}) = n + 1
<1>1. Min({n + 1}) = n + 1
  BY MinIs
<1>2. Max({n + 1}) = n + 1
  BY MaxIs
<1>3. QED BY <1>1, <1>2 DEF IsChain

(* A longer chain is one into the module that was included.                *)
LEMMA ChainOfMore ==
    ASSUME NEW n \in Nat, NEW d \in SUBSET (1 .. n), d # {}, NEW L, NEW L2,
           \A t \in 1 .. n : L2[t] = L[t], NEW m
    PROVE  /\ IsChain(L2, d \cup {n + 1}, m) <=>
                 /\ L2[n + 1].op = "include" /\ L2[n + 1].module = m
                 /\ IsChain(L, d, L2[n + 1].subject)
           /\ Min(d \cup {n + 1}) = Min(d)
<1>1. PICK c : c = d \cup {n + 1}
  OBVIOUS
<1>2. c \in SUBSET (1 .. n + 1) /\ c \in SUBSET Nat /\ n + 1 \in c /\ n + 1 \notin d
  BY <1>1
<1>3. Max(c) = n + 1
  BY <1>2, MaxIs
<1>4. /\ Min(d) \in d /\ Min(d) \in 1 .. n /\ Max(d) \in d /\ Max(d) \in 1 .. n
      /\ \A t \in d : Min(d) <= t /\ Max(d) >= t
  <2>1. d \in SUBSET Nat
    OBVIOUS
  <2>2. QED BY <2>1, ChainFacts, MinFacts, MaxFacts
<1>5. Min(c) = Min(d)
  <2>1. Min(d) \in c
    BY <1>1, <1>4
  <2>2. ASSUME NEW t \in c
        PROVE  Min(d) <= t
    BY <1>1, <1>4
  <2>3. QED BY <1>2, <2>1, <2>2, MinIs
<1>6. NextPlace(c, Max(d)) = n + 1
  <2>1. PICK x \in 1 .. n : x = Max(d)
    BY <1>4
  <2>2. {u \in c : u > x} = {n + 1}
    <3>1. ASSUME NEW u \in c
          PROVE  u > x <=> u = n + 1
      <4>1. CASE u \in d
        BY <1>4, <2>1, <4>1
      <4>2. CASE u = n + 1
        BY <2>1, <4>2
      <4>3. QED BY <1>1, <4>1, <4>2
    <3>2. QED BY <1>2, <3>1
  <2>3. QED BY <2>1, <2>2, ChainOfOne, Zenon DEF NextPlace
<1>7. ASSUME NEW t \in d \ {Max(d)}
      PROVE  NextPlace(c, t) = NextPlace(d, t)
  <2>1. PICK later : later = {u \in d : u > t}
    OBVIOUS
  <2>2. t \in 1 .. n /\ {u \in c : u > t} = later \cup {n + 1}
    BY <1>1, <2>1
  <2>3. later \in SUBSET (1 .. n) /\ later \in SUBSET Nat /\ Max(d) \in later
    <3>1. Max(d) > t
      BY <1>4, <2>2
    <3>2. Max(d) \in later
      BY <1>4, <2>1, <3>1
    <3>3. \A u \in later : u \in 1 .. n /\ u \in Nat
      BY <2>1
    <3>4. QED BY <3>2, <3>3
  <2>4. Min(later) \in later /\ Min(later) \in 1 .. n /\ \A u \in later : Min(later) <= u
    BY <2>3, MinFacts
  <2>5. Min(later \cup {n + 1}) = Min(later)
    <3>1. later \cup {n + 1} \in SUBSET Nat /\ Min(later) \in later \cup {n + 1}
      BY <2>3, <2>4
    <3>2. \A u \in later \cup {n + 1} : Min(later) <= u
      BY <2>4
    <3>3. QED BY <3>1, <3>2, MinIs
  <2>6. QED BY <2>1, <2>2, <2>5, Zenon DEF NextPlace
<1>8. ASSUME NEW t \in d \ {Max(d)}
      PROVE  LinkedAt(L2, c, t) <=> LinkedAt(L, d, t)
  <2>1. NextPlace(d, t) \in 1 .. n /\ t \in 1 .. n
    BY ChainFacts
  <2>2. QED BY <1>7, <2>1 DEF LinkedAt
<1>9. LinkedAt(L2, c, Max(d)) <=>
         L2[n + 1].op = "include" /\ L2[n + 1].subject = L[Max(d)].module
  BY <1>4, <1>6 DEF LinkedAt
<1>10. (\A t \in c \ {Max(c)} : LinkedAt(L2, c, t)) <=>
          LinkedAt(L2, c, Max(d)) /\ \A t \in d \ {Max(d)} : LinkedAt(L2, c, t)
  <2>1. c \ {Max(c)} = (d \ {Max(d)}) \cup {Max(d)}
    BY <1>1, <1>2, <1>3, <1>4
  <2>2. QED BY <2>1
<1>11. L2[Min(c)] = L[Min(d)]
  BY <1>4, <1>5
<1>12. IsChain(L2, c, m) <=>
          /\ L[Min(d)].op # "include" /\ L2[n + 1].module = m
          /\ L2[n + 1].op = "include" /\ L2[n + 1].subject = L[Max(d)].module
          /\ \A t \in d \ {Max(d)} : LinkedAt(L, d, t)
  BY <1>2, <1>3, <1>8, <1>9, <1>10, <1>11 DEF IsChain
<1>13. QED BY <1>1, <1>5, <1>12 DEF IsChain

(* L2 is L with one operation more.                                        *)
OneLonger(L, L2) ==
    /\ Len(L) \in Nat /\ Len(L2) = Len(L) + 1
    /\ \A t \in 1 .. Len(L) : L2[t] = L[t]

(* The chains of log L into m that start at one of these places.           *)
ChainsFrom(L, m, starts) == {c \in SUBSET (1 .. Len(L)) : IsChain(L, c, m) /\ Min(c) \in starts}

(* How the chains into m grow: new has the chains of old, and further ones *)
(* that end in n + 1: an included one, or one that starts there.           *)
Grow(n, old, included, new, includes, starting) ==
    /\ \A c \in SUBSET (1 .. n) : c \in new <=> c \in old
    /\ \A c \in new :
          \/ c \in SUBSET (1 .. n)
          \/ c = {n + 1}
          \/ \E d \in SUBSET (1 .. n) : d # {} /\ c = d \cup {n + 1}
    /\ {n + 1} \in new <=> starting
    /\ \A d \in SUBSET (1 .. n) : d # {} => (d \cup {n + 1} \in new <=> includes /\ d \in included)

LEMMA ChainsGrow ==
    ASSUME NEW L, NEW L2, OneLonger(L, L2), NEW m, NEW starts,
           NEW starts2, \A t \in 1 .. Len(L) : t \in starts2 <=> t \in starts
    PROVE  Grow(Len(L), ChainsFrom(L, m, starts),
                ChainsFrom(L, L2[Len(L2)].subject, starts), ChainsFrom(L2, m, starts2),
                L2[Len(L2)].op = "include" /\ L2[Len(L2)].module = m,
                /\ L2[Len(L2)].op # "include" /\ L2[Len(L2)].module = m
                /\ Len(L2) \in starts2)
<1>1. PICK n \in Nat : n = Len(L) /\ Len(L2) = n + 1
  BY DEF OneLonger
<1>2. \A t \in 1 .. n : L2[t] = L[t]
  BY <1>1 DEF OneLonger
<1>3. ASSUME NEW c \in SUBSET (1 .. n)
      PROVE  c \in ChainsFrom(L2, m, starts2) <=> c \in ChainsFrom(L, m, starts)
  <2>1. IsChain(L2, c, m) <=> IsChain(L, c, m)
    BY <1>2, ChainKept
  <2>2. c # {} => (Min(c) \in starts2 <=> Min(c) \in starts)
    <3>1. c # {} => Min(c) \in 1 .. n
      BY ChainFacts
    <3>2. QED BY <1>1, <3>1
  <2>3. c \in SUBSET (1 .. n + 1) /\ (IsChain(L, c, m) => c # {})
    BY DEF IsChain
  <2>4. QED BY <1>1, <2>1, <2>2, <2>3 DEF ChainsFrom
<1>4. ASSUME NEW c \in ChainsFrom(L2, m, starts2)
      PROVE  \/ c \in SUBSET (1 .. n)
             \/ c = {n + 1}
             \/ \E d \in SUBSET (1 .. n) : d # {} /\ c = d \cup {n + 1}
  <2>1. c \in SUBSET (1 .. n + 1)
    BY <1>1 DEF ChainsFrom
  <2>2. CASE n + 1 \notin c
    BY <2>1, <2>2
  <2>3. CASE n + 1 \in c
    <3>1. c \ {n + 1} \in SUBSET (1 .. n) /\ c = (c \ {n + 1}) \cup {n + 1}
      BY <2>1, <2>3
    <3>2. QED BY <3>1
  <2>4. QED BY <2>2, <2>3
<1>5. {n + 1} \in ChainsFrom(L2, m, starts2) <=>
         L2[n + 1].op # "include" /\ L2[n + 1].module = m /\ n + 1 \in starts2
  <2>1. {n + 1} \in SUBSET (1 .. n + 1)
    OBVIOUS
  <2>2. QED BY <1>1, <2>1, ChainOfOne DEF ChainsFrom
<1>6. ASSUME NEW d \in SUBSET (1 .. n), d # {}
      PROVE  d \cup {n + 1} \in ChainsFrom(L2, m, starts2) <=>
                /\ L2[n + 1].op = "include" /\ L2[n + 1].module = m
                /\ d \in ChainsFrom(L, L2[n + 1].subject, starts)
  <2>1. d \cup {n + 1} \in SUBSET (1 .. n + 1)
    OBVIOUS
  <2>2. Min(d) \in starts2 <=> Min(d) \in starts
    BY <1>1, <1>6, ChainFacts
  <2>3. /\ IsChain(L2, d \cup {n + 1}, m) <=>
              /\ L2[n + 1].op = "include" /\ L2[n + 1].module = m
              /\ IsChain(L, d, L2[n + 1].subject)
        /\ Min(d \cup {n + 1}) = Min(d)
    BY <1>2, <1>6, ChainOfMore
  <2>4. QED BY <1>1, <2>1, <2>2, <2>3 DEF ChainsFrom
<1>7. QED BY <1>1, <1>3, <1>4, <1>5, <1>6 DEF Grow

LEMMA ChainsType ==
    ASSUME NEW L, NEW m, NEW starts
    PROVE  /\ ChainsFrom(L, m, starts) \in SUBSET (SUBSET (1 .. Len(L)))
           /\ \A c \in ChainsFrom(L, m, starts) : c # {} /\ Min(c) \in starts
BY DEF ChainsFrom, IsChain

-----------------------------------------------------------------------------
(* What a module holds: the places in the log its registrations come from. *)

Holds(L, m, starts, places) ==
    \E cs : /\ InOrder(cs, ChainsFrom(L, m, starts))
            /\ places = [i \in 1 .. Len(cs) |-> Min(cs[i])]

LEMMA HoldsFacts ==
    ASSUME NEW L, Len(L) \in Nat, NEW m, NEW starts, NEW places, Holds(L, m, starts, places)
    PROVE  /\ places \in Seq(starts)
           /\ places = Registrations(ChainsFrom(L, m, starts))
           /\ \A c \in ChainsFrom(L, m, starts) : \E i \in 1 .. Len(places) : Min(c) = places[i]
           /\ \A i \in 1 .. Len(places) : \E c \in ChainsFrom(L, m, starts) : places[i] = Min(c)
<1>1. PICK C : C = ChainsFrom(L, m, starts)
  OBVIOUS
<1>2. PICK cs : InOrder(cs, C) /\ places = [i \in 1 .. Len(cs) |-> Min(cs[i])]
  BY <1>1 DEF Holds
<1>3. /\ cs \in Seq(C) /\ \A i \in 1 .. Len(cs) : cs[i] \in C
      /\ \A c \in C : \E i \in 1 .. Len(cs) : cs[i] = c
  BY <1>2 DEF InOrder
<1>4. C \in SUBSET (SUBSET (1 .. Len(L))) /\ \A c \in C : Min(c) \in starts
  BY <1>1, ChainsType
<1>5. places \in Seq(starts) /\ Len(places) = Len(cs)
  BY <1>2, <1>3, <1>4
<1>6. places = Registrations(C)
  BY <1>2, <1>4, RegistrationsInOrder
<1>7. ASSUME NEW c \in C
      PROVE  \E i \in 1 .. Len(places) : Min(c) = places[i]
  BY <1>2, <1>3, <1>5
<1>8. ASSUME NEW i \in 1 .. Len(places)
      PROVE  \E c \in C : places[i] = Min(c)
  BY <1>2, <1>3, <1>5
<1>9. QED BY <1>1, <1>5, <1>6, <1>7, <1>8

(* An operation on another module, or one that is not asked for.           *)
LEMMA HoldsStill ==
    ASSUME NEW L, NEW L2, OneLonger(L, L2), NEW m, NEW starts,
           NEW starts2, \A t \in 1 .. Len(L) : t \in starts2 <=> t \in starts,
           \/ L2[Len(L2)].module # m
           \/ L2[Len(L2)].op # "include" /\ Len(L2) \notin starts2,
           NEW places, Holds(L, m, starts, places)
    PROVE  Holds(L2, m, starts2, places)
<1>1. PICK included : Grow(Len(L), ChainsFrom(L, m, starts), included,
                           ChainsFrom(L2, m, starts2), FALSE, FALSE)
  <2>1. ~ (L2[Len(L2)].op = "include" /\ L2[Len(L2)].module = m)
    OBVIOUS
  <2>2. ~ (/\ L2[Len(L2)].op # "include" /\ L2[Len(L2)].module = m
           /\ Len(L2) \in starts2)
    OBVIOUS
  <2>3. QED BY <2>1, <2>2, ChainsGrow
<1>2. ChainsFrom(L, m, starts) \in SUBSET (SUBSET (1 .. Len(L)))
  BY ChainsType
<1>3. ChainsFrom(L2, m, starts2) = ChainsFrom(L, m, starts)
  <2>1. ASSUME NEW c \in ChainsFrom(L2, m, starts2)
        PROVE  c \in SUBSET (1 .. Len(L))
    <3>1. CASE c = {Len(L) + 1}
      BY <1>1, <3>1, Zenon DEF Grow
    <3>2. ~ \E d \in SUBSET (1 .. Len(L)) : d # {} /\ c = d \cup {Len(L) + 1}
      BY <1>1 DEF Grow
    <3>3. QED BY <1>1, <3>1, <3>2, Zenon DEF Grow
  <2>2. QED BY <1>1, <1>2, <2>1 DEF Grow
<1>4. QED BY <1>3 DEF Holds

(* A registration with m itself.                                           *)
LEMMA HoldsOneMore ==
    ASSUME NEW L, NEW L2, OneLonger(L, L2), NEW m, NEW starts,
           NEW starts2, \A t \in 1 .. Len(L) : t \in starts2 <=> t \in starts,
           L2[Len(L2)].module = m, L2[Len(L2)].op # "include", Len(L2) \in starts2,
           NEW places, Holds(L, m, starts, places)
    PROVE  Holds(L2, m, starts2, Append(places, Len(L2)))
<1>1. PICK C : C = ChainsFrom(L, m, starts)
  OBVIOUS
<1>2. PICK cs : InOrder(cs, C) /\ places = [i \in 1 .. Len(cs) |-> Min(cs[i])]
  BY <1>1 DEF Holds
<1>3. PICK n \in Nat : n = Len(L) /\ Len(L2) = n + 1
  BY DEF OneLonger
<1>4. C \in SUBSET (SUBSET (1 .. n))
  BY <1>1, <1>3, ChainsType
<1>5. ChainsFrom(L2, m, starts2) = C \cup {{n + 1}}
  <2>1. PICK included : Grow(Len(L), ChainsFrom(L, m, starts), included,
                             ChainsFrom(L2, m, starts2), FALSE, TRUE)
    BY ChainsGrow
  <2>2. Grow(n, C, included, ChainsFrom(L2, m, starts2), FALSE, TRUE)
    BY <1>1, <1>3, <2>1
  <2>3. ASSUME NEW c \in ChainsFrom(L2, m, starts2)
        PROVE  c \in SUBSET (1 .. n) \/ c = {n + 1}
    BY <2>2 DEF Grow
  <2>4. {n + 1} \in ChainsFrom(L2, m, starts2)
    BY <2>2 DEF Grow
  <2>5. \A c \in SUBSET (1 .. n) : c \in ChainsFrom(L2, m, starts2) <=> c \in C
    BY <2>2 DEF Grow
  <2>6. ASSUME NEW c
        PROVE  c \in ChainsFrom(L2, m, starts2) <=> c \in C \/ c = {n + 1}
    <3>1. CASE c \in ChainsFrom(L2, m, starts2)
      BY <2>3, <2>5, <3>1
    <3>2. CASE c \in C
      BY <1>4, <2>5, <3>2
    <3>3. CASE c = {n + 1}
      BY <2>4, <3>3
    <3>4. QED BY <3>1, <3>2, <3>3
  <2>7. QED BY <2>6, Zenon
<1>6. InOrder(<<{n + 1}>>, {{n + 1}})
  <2>1. <<{n + 1}>> \in Seq({{n + 1}}) /\ Len(<<{n + 1}>>) = 1
    OBVIOUS
  <2>2. QED BY <2>1 DEF InOrder
<1>7. \A c \in C, d \in {{n + 1}} : c # d /\ Before(c, d)
  <2>1. ASSUME NEW c \in C
        PROVE  Before(c, {} \cup {n + 1}) /\ c # {} \cup {n + 1}
    BY <1>4, BeforeFurther
  <2>2. {} \cup {n + 1} = {n + 1}
    OBVIOUS
  <2>3. QED BY <2>1, <2>2
<1>8. PICK ds : ds = cs \o <<{n + 1}>>
  OBVIOUS
<1>9. InOrder(ds, C \cup {{n + 1}})
  BY <1>2, <1>6, <1>7, <1>8, SortedConcat
<1>10. Append(places, n + 1) = [i \in 1 .. Len(ds) |-> Min(ds[i])]
  <2>1. cs \in Seq(C) /\ Len(cs) \in Nat
    BY <1>2 DEF InOrder
  <2>2. /\ Len(ds) = Len(cs) + 1 /\ \A i \in 1 .. Len(cs) : ds[i] = cs[i]
        /\ ds[Len(cs) + 1] = {n + 1}
    <3>1. cs \in Seq(C \cup {{n + 1}})
      BY <2>1
    <3>2. QED BY <1>8, <3>1
  <2>3. Min(ds[Len(cs) + 1]) = n + 1
    BY <2>2, ChainOfOne
  <2>4. PICK S : S = {Min(c) : c \in C} \cup {n + 1}
    OBVIOUS
  <2>5. places \in Seq(S) /\ Len(places) = Len(cs)
    BY <1>2, <2>1, <2>4
  <2>6. PICK longer \in Seq(S) : longer = Append(places, n + 1)
    <3>1. Append(places, n + 1) \in Seq(S)
      BY <2>4, <2>5
    <3>2. QED BY <3>1
  <2>7. /\ Len(longer) = Len(ds) /\ \A i \in 1 .. Len(cs) : longer[i] = places[i]
        /\ longer[Len(cs) + 1] = n + 1
    BY <2>2, <2>4, <2>5, <2>6
  <2>8. ASSUME NEW i \in 1 .. Len(ds)
        PROVE  longer[i] = Min(ds[i])
    <3>1. CASE i \in 1 .. Len(cs)
      <4>1. longer[i] = places[i] /\ ds[i] = cs[i]
        BY <2>2, <2>7, <3>1
      <4>2. places[i] = Min(cs[i])
        BY <1>2, <3>1
      <4>3. QED BY <4>1, <4>2
    <3>2. CASE i = Len(cs) + 1
      BY <2>3, <2>7, <3>2, Zenon
    <3>3. i \in 1 .. Len(cs) \/ i = Len(cs) + 1
      BY <2>1, <2>2
    <3>4. QED BY <3>1, <3>2, <3>3
  <2>9. longer = [i \in 1 .. Len(ds) |-> Min(ds[i])]
    BY <2>7, <2>8
  <2>10. QED BY <2>6, <2>9
<1>11. QED BY <1>3, <1>5, <1>9, <1>10 DEF Holds

(* An inclusion into m: what the other module held comes after.            *)
LEMMA HoldsIncluded ==
    ASSUME NEW L, NEW L2, OneLonger(L, L2), NEW m, NEW starts,
           NEW starts2, \A t \in 1 .. Len(L) : t \in starts2 <=> t \in starts,
           L2[Len(L2)].module = m, L2[Len(L2)].op = "include",
           NEW places, Holds(L, m, starts, places),
           NEW others, Holds(L, L2[Len(L2)].subject, starts, others)
    PROVE  Holds(L2, m, starts2, places \o others)
<1>1. PICK C : C = ChainsFrom(L, m, starts)
  OBVIOUS
<1>2. PICK D : D = ChainsFrom(L, L2[Len(L2)].subject, starts)
  OBVIOUS
<1>3. PICK cs : InOrder(cs, C) /\ places = [i \in 1 .. Len(cs) |-> Min(cs[i])]
  BY <1>1 DEF Holds
<1>4. PICK ds : InOrder(ds, D) /\ others = [i \in 1 .. Len(ds) |-> Min(ds[i])]
  BY <1>2 DEF Holds
<1>5. PICK n \in Nat : n = Len(L) /\ Len(L2) = n + 1
  BY DEF OneLonger
<1>6. /\ C \in SUBSET (SUBSET (1 .. n)) /\ D \in SUBSET (SUBSET (1 .. n))
      /\ \A d \in D : d # {}
  BY <1>1, <1>2, <1>5, ChainsType
<1>7. PICK more : more = {d \cup {n + 1} : d \in D}
  OBVIOUS
<1>8. ChainsFrom(L2, m, starts2) = C \cup more
  <2>1. Grow(n, C, D, ChainsFrom(L2, m, starts2), TRUE, FALSE)
    BY <1>1, <1>2, <1>5, ChainsGrow
  <2>2. ASSUME NEW c \in ChainsFrom(L2, m, starts2)
        PROVE  c \in C \cup more
    <3>1. CASE c \in SUBSET (1 .. n)
      BY <2>1, <3>1 DEF Grow
    <3>2. CASE \E d \in SUBSET (1 .. n) : d # {} /\ c = d \cup {n + 1}
      <4>1. PICK d \in SUBSET (1 .. n) : d # {} /\ c = d \cup {n + 1}
        BY <3>2
      <4>2. d \in D
        BY <2>1, <4>1 DEF Grow
      <4>3. QED BY <1>7, <4>1, <4>2
    <3>3. c # {n + 1}
      BY <2>1 DEF Grow
    <3>4. QED BY <2>1, <3>1, <3>2, <3>3 DEF Grow
  <2>3. ASSUME NEW c \in C
        PROVE  c \in ChainsFrom(L2, m, starts2)
    BY <1>6, <2>1 DEF Grow
  <2>4. ASSUME NEW d \in D
        PROVE  d \cup {n + 1} \in ChainsFrom(L2, m, starts2)
    BY <1>6, <2>1 DEF Grow
  <2>5. QED BY <1>7, <2>2, <2>3, <2>4
<1>9. PICK es : es = [i \in 1 .. Len(ds) |-> ds[i] \cup {n + 1}]
  OBVIOUS
<1>10. InOrder(es, more)
  BY <1>4, <1>6, <1>7, <1>9, SortedExtended
<1>11. \A c \in C, d \in more : c # d /\ Before(c, d)
  <2>1. ASSUME NEW c \in C, NEW d \in D
        PROVE  Before(c, d \cup {n + 1}) /\ c # d \cup {n + 1}
    BY <1>6, BeforeFurther
  <2>2. QED BY <1>7, <2>1
<1>12. PICK fs : fs = cs \o es
  OBVIOUS
<1>13. InOrder(fs, C \cup more)
  BY <1>3, <1>10, <1>11, <1>12, SortedConcat
<1>14. places \o others = [i \in 1 .. Len(fs) |-> Min(fs[i])]
  <2>1. cs \in Seq(C) /\ es \in Seq(more) /\ ds \in Seq(D)
    BY <1>3, <1>4, <1>10 DEF InOrder
  <2>2. cs \in Seq(C \cup more) /\ es \in Seq(C \cup more)
    BY <2>1
  <2>3. PICK N : N = Nat \cup {Min(c) : c \in C \cup D}
    OBVIOUS
  <2>4. places \in Seq(N) /\ others \in Seq(N) /\ Len(places) = Len(cs) /\ Len(others) = Len(ds)
    BY <1>3, <1>4, <2>1, <2>3
  <2>5. Len(es) = Len(ds) /\ Len(cs) \in Nat /\ Len(ds) \in Nat
    BY <1>9, <2>1
  <2>6. /\ Len(fs) = Len(cs) + Len(ds)
        /\ \A i \in 1 .. Len(cs) : fs[i] = cs[i]
        /\ \A i \in 1 .. Len(ds) : fs[Len(cs) + i] = es[i]
        /\ \A i \in 1 .. Len(fs) :
              i \in 1 .. Len(cs) \/ \E j \in 1 .. Len(ds) : i = Len(cs) + j
    <3>1. fs \in Seq(C \cup more)
      BY <1>12, <2>2
    <3>2. /\ Len(fs) = Len(cs) + Len(es) /\ Len(cs) \in Nat /\ Len(es) \in Nat
          /\ \A i \in 1 .. Len(cs) : fs[i] = cs[i]
          /\ \A i \in 1 .. Len(es) : fs[Len(cs) + i] = es[i]
      BY <1>12, <2>2, <3>1
    <3>3. ASSUME NEW i \in 1 .. Len(fs), i \notin 1 .. Len(cs)
          PROVE  \E j \in 1 .. Len(es) : i = Len(cs) + j
      <4>1. i - Len(cs) \in 1 .. Len(es) /\ i = Len(cs) + (i - Len(cs))
        BY <3>2, <3>3
      <4>2. QED BY <4>1
    <3>4. QED BY <2>5, <3>2, <3>3, Zenon
  <2>7. PICK both \in Seq(N) :
           /\ both = places \o others /\ Len(both) = Len(cs) + Len(ds)
           /\ \A i \in 1 .. Len(cs) : both[i] = places[i]
           /\ \A i \in 1 .. Len(ds) : both[Len(cs) + i] = others[i]
    <3>1. PICK u : u = places \o others
      OBVIOUS
    <3>2. /\ u \in Seq(N) /\ Len(u) = Len(places) + Len(others)
          /\ \A i \in 1 .. Len(places) : u[i] = places[i]
          /\ \A i \in 1 .. Len(others) : u[Len(places) + i] = others[i]
      <4>1. places \in Seq(N) /\ others \in Seq(N)
        BY <2>4
      <4>2. u \in Seq(N)
        BY <3>1, <4>1
      <4>3. QED BY <3>1, <4>1, <4>2
    <3>3. Len(places) = Len(cs) /\ Len(others) = Len(ds)
      BY <2>4
    <3>4. QED BY <3>1, <3>2, <3>3, Zenon
  <2>8. \A i \in 1 .. Len(ds) : Min(es[i]) = Min(ds[i])
    <3>1. ASSUME NEW d \in D
          PROVE  Min(d \cup {n + 1}) = Min(d)
      <4>1. d \in SUBSET (1 .. n) /\ d # {}
        BY <1>6
      <4>2. \A t \in 1 .. n : L[t] = L[t]
        OBVIOUS
      <4>3. QED BY <4>1, <4>2, ChainOfMore, Zenon
    <3>2. \A i \in 1 .. Len(ds) : ds[i] \in D /\ es[i] = ds[i] \cup {n + 1}
      BY <1>9, <2>1
    <3>3. QED BY <3>1, <3>2, Zenon
  <2>9. ASSUME NEW i \in 1 .. Len(fs)
        PROVE  both[i] = Min(fs[i])
    <3>1. CASE i \in 1 .. Len(cs)
      BY <1>3, <2>6, <2>7, <3>1
    <3>2. CASE \E j \in 1 .. Len(ds) : i = Len(cs) + j
      <4>1. PICK j \in 1 .. Len(ds) : i = Len(cs) + j
        BY <3>2
      <4>2. both[i] = others[j] /\ fs[i] = es[j]
        BY <2>6, <2>7, <4>1
      <4>3. others[j] = Min(ds[j])
        BY <1>4
      <4>4. QED BY <2>8, <4>2, <4>3
    <3>3. QED BY <2>6, <3>1, <3>2
  <2>10. both = [i \in 1 .. Len(fs) |-> Min(fs[i])]
    <3>1. Len(both) = Len(fs)
      BY <2>6, <2>7
    <3>2. both \in Seq(N)
      BY <2>7
    <3>3. QED BY <2>9, <3>1, <3>2
  <2>11. QED BY <2>7, <2>10
<1>15. QED BY <1>8, <1>13, <1>14 DEF Holds

-----------------------------------------------------------------------------
(* What the operations at these places registered.                         *)

Along(f, places) == [i \in 1 .. Len(places) |-> f[places[i]]]

LEMMA AlongStill ==
    ASSUME NEW n \in Nat, NEW S \in SUBSET (1 .. n), NEW places \in Seq(S), NEW f, NEW g,
           \A t \in 1 .. n : g[t] = f[t]
    PROVE  Along(g, places) = Along(f, places)
<1>1. \A i \in 1 .. Len(places) : g[places[i]] = f[places[i]]
  <2>1. ASSUME NEW i \in 1 .. Len(places)
        PROVE  places[i] \in 1 .. n
    <3>1. places[i] \in S
      OBVIOUS
    <3>2. QED BY <3>1
  <2>2. QED BY <2>1
<1>2. QED BY <1>1 DEF Along

LEMMA AlongAppend ==
    ASSUME NEW S, NEW places \in Seq(S), NEW t \in S, NEW f
    PROVE  Along(f, Append(places, t)) = Append(Along(f, places), f[t])
<1>1. PICK longer \in Seq(S) : longer = Append(places, t)
  <2>1. Append(places, t) \in Seq(S)
    OBVIOUS
  <2>2. QED BY <2>1
<1>2. /\ Len(longer) = Len(places) + 1 /\ Len(places) \in Nat
      /\ \A i \in 1 .. Len(places) : longer[i] = places[i]
      /\ longer[Len(places) + 1] = t
  BY <1>1
<1>3. PICK along : along = Along(f, places)
  OBVIOUS
<1>4. PICK V : V = {f[u] : u \in S}
  OBVIOUS
<1>5. along \in Seq(V) /\ Len(along) = Len(places)
  <2>1. along = [i \in 1 .. Len(places) |-> f[places[i]]]
    BY <1>3 DEF Along
  <2>2. \A i \in 1 .. Len(places) : f[places[i]] \in V
    BY <1>4
  <2>3. QED BY <1>2, <2>1, <2>2
<1>6. PICK b \in Seq(V) : b = Append(along, f[t])
  <2>1. f[t] \in V
    BY <1>4
  <2>2. Append(along, f[t]) \in Seq(V)
    BY <1>5, <2>1
  <2>3. QED BY <2>2
<1>7. /\ Len(b) = Len(places) + 1
      /\ \A i \in 1 .. Len(places) : b[i] = along[i]
      /\ b[Len(places) + 1] = f[t]
  BY <1>5, <1>6
<1>8. \A i \in 1 .. Len(places) : along[i] = f[places[i]]
  BY <1>3 DEF Along
<1>9. ASSUME NEW i \in 1 .. Len(longer)
      PROVE  b[i] = f[longer[i]]
  BY <1>2, <1>7, <1>8
<1>10. b = [i \in 1 .. Len(longer) |-> f[longer[i]]]
  BY <1>2, <1>7, <1>9
<1>11. QED BY <1>1, <1>3, <1>6, <1>10 DEF Along

LEMMA AlongConcat ==
    ASSUME NEW S, NEW places \in Seq(S), NEW others \in Seq(S), NEW f
    PROVE  Along(f, places \o others) = Along(f, places) \o Along(f, others)
<1>1. PICK both \in Seq(S) : both = places \o others
  <2>1. places \o others \in Seq(S)
    OBVIOUS
  <2>2. QED BY <2>1
<1>2. /\ Len(both) = Len(places) + Len(others) /\ Len(places) \in Nat /\ Len(others) \in Nat
      /\ \A i \in 1 .. Len(places) : both[i] = places[i]
      /\ \A i \in 1 .. Len(others) : both[Len(places) + i] = others[i]
  BY <1>1
<1>3. PICK V : V = {f[u] : u \in S}
  OBVIOUS
<1>4. PICK a \in Seq(V) : /\ a = Along(f, places) /\ Len(a) = Len(places)
                          /\ \A i \in 1 .. Len(places) : a[i] = f[places[i]]
  <2>1. \A i \in 1 .. Len(places) : f[places[i]] \in V
    BY <1>3
  <2>2. PICK v : v = [i \in 1 .. Len(places) |-> f[places[i]]]
    OBVIOUS
  <2>3. v \in Seq(V) /\ Len(v) = Len(places) /\ \A i \in 1 .. Len(places) : v[i] = f[places[i]]
    BY <1>2, <2>1, <2>2
  <2>4. v = Along(f, places)
    BY <2>2 DEF Along
  <2>5. QED BY <2>3, <2>4
<1>5. PICK b \in Seq(V) : /\ b = Along(f, others) /\ Len(b) = Len(others)
                          /\ \A i \in 1 .. Len(others) : b[i] = f[others[i]]
  <2>1. \A i \in 1 .. Len(others) : f[others[i]] \in V
    BY <1>3
  <2>2. PICK v : v = [i \in 1 .. Len(others) |-> f[others[i]]]
    OBVIOUS
  <2>3. v \in Seq(V) /\ Len(v) = Len(others) /\ \A i \in 1 .. Len(others) : v[i] = f[others[i]]
    BY <1>2, <2>1, <2>2
  <2>4. v = Along(f, others)
    BY <2>2 DEF Along
  <2>5. QED BY <2>3, <2>4
<1>6. PICK c \in Seq(V) : c = a \o b
  <2>1. a \o b \in Seq(V)
    OBVIOUS
  <2>2. QED BY <2>1
<1>7. /\ Len(c) = Len(a) + Len(b)
      /\ \A i \in 1 .. Len(a) : c[i] = a[i]
      /\ \A i \in 1 .. Len(b) : c[Len(a) + i] = b[i]
  BY <1>6
<1>8. ASSUME NEW i \in 1 .. Len(both)
      PROVE  c[i] = f[both[i]]
  <2>1. CASE i \in 1 .. Len(places)
    <3>1. c[i] = a[i]
      BY <1>4, <1>7, <2>1
    <3>2. QED BY <1>2, <1>4, <2>1, <3>1
  <2>2. CASE i \notin 1 .. Len(places)
    <3>1. PICK j \in 1 .. Len(others) : i = Len(places) + j
      <4>1. i - Len(places) \in 1 .. Len(others) /\ i = Len(places) + (i - Len(places))
        BY <1>2, <2>2
      <4>2. QED BY <4>1
    <3>2. c[i] = b[j]
      BY <1>4, <1>5, <1>7, <3>1
    <3>3. both[i] = others[j]
      BY <1>2, <3>1
    <3>4. QED BY <1>5, <3>2, <3>3
  <2>3. QED BY <2>1, <2>2
<1>9. Len(c) = Len(both)
  BY <1>2, <1>4, <1>5, <1>7
<1>10. c = [i \in 1 .. Len(both) |-> f[both[i]]]
  BY <1>8, <1>9
<1>11. QED BY <1>1, <1>4, <1>5, <1>6, <1>10 DEF Along

-----------------------------------------------------------------------------
(* Set<T>: the constructor's loop.                                         *)

(* f lists what is kept after each of the first n elements.                *)
IsKept(f, n, elements) ==
    f = [k \in 0 .. n |-> IF k = 0 THEN <<>> ELSE KeepOnce(f[k - 1], elements[k])]

LEMMA KeptExists ==
    ASSUME NEW elements, NEW n \in Nat
    PROVE  \E f : IsKept(f, n, elements)
<1> DEFINE Bad == {k \in Nat : ~ \E f : IsKept(f, k, elements)}
<1>1. SUFFICES ASSUME Bad # {}
               PROVE  FALSE
  OBVIOUS
<1>2. PICK k \in Bad : \A m \in Bad : k <= m
  BY <1>1, LeastNumber
<1>3. CASE k = 0
  <2>1. IsKept([j \in 0 .. 0 |-> <<>>], 0, elements)
    BY DEF IsKept
  <2>2. QED BY <1>2, <1>3, <2>1
<1>4. CASE k # 0
  <2>1. k - 1 \in Nat /\ k - 1 \notin Bad /\ k \in Nat
    BY <1>2, <1>4
  <2>2. PICK g : IsKept(g, k - 1, elements)
    BY <2>1
  <2> DEFINE f == [j \in 0 .. k |-> IF j = k THEN KeepOnce(g[k - 1], elements[k]) ELSE g[j]]
  <2>3. ASSUME NEW j \in 0 .. k
        PROVE  f[j] = IF j = 0 THEN <<>> ELSE KeepOnce(f[j - 1], elements[j])
    <3>1. \A i \in 0 .. k - 1 : g[i] = IF i = 0 THEN <<>> ELSE KeepOnce(g[i - 1], elements[i])
      BY <2>2 DEF IsKept
    <3>2. CASE j = k
      <4>1. f[k] = KeepOnce(g[k - 1], elements[k]) /\ f[k - 1] = g[k - 1]
        BY <2>1
      <4>2. QED BY <1>4, <3>2, <4>1
    <3>3. CASE j # k
      <4>1. j \in 0 .. k - 1 /\ f[j] = g[j] /\ (j # 0 => f[j - 1] = g[j - 1])
        BY <2>1, <3>3
      <4>2. QED BY <3>1, <4>1
    <3>4. QED BY <3>2, <3>3
  <2>4. IsKept(f, k, elements)
    BY <2>3 DEF IsKept
  <2>5. QED BY <1>2, <2>4
<1>5. QED BY <1>3, <1>4

LEMMA DistinctIsKept ==
    ASSUME NEW elements, Len(elements) \in Nat
    PROVE  \E f : IsKept(f, Len(elements), elements) /\ Distinct(elements) = f[Len(elements)]
<1> DEFINE f == CHOOSE x : IsKept(x, Len(elements), elements)
<1>1. IsKept(f, Len(elements), elements)
  BY KeptExists
<1>2. Distinct(elements) = f[Len(elements)]
  BY Zenon DEF Distinct, IsKept
<1>3. QED BY <1>1, <1>2

FirstOf(elements, o) == Min({i \in DOMAIN elements : elements[i] = o})

(* What is kept of the first k elements.                                   *)
KeptOf(kept, k, elements, S) ==
    /\ kept \in Seq(S)
    /\ \A i \in 1 .. k : \E j \in 1 .. Len(kept) : kept[j] = elements[i]
    /\ \A j \in 1 .. Len(kept) : \E i \in 1 .. k : kept[j] = elements[i]
    /\ \A i, j \in 1 .. Len(kept) : i < j =>
          FirstOf(elements, kept[i]) < FirstOf(elements, kept[j])

LEMMA KeepingOneMore ==
    ASSUME NEW S, NEW elements \in Seq(S), NEW k \in 1 .. Len(elements), NEW kept,
           KeptOf(kept, k - 1, elements, S)
    PROVE  KeptOf(KeepOnce(kept, elements[k]), k, elements, S)
<1>1. kept \in Seq(S) /\ Len(kept) \in Nat /\ Len(elements) \in Nat /\ k \in Nat
  BY DEF KeptOf
<1>2. PICK o \in S : o = elements[k]
  OBVIOUS
<1>3. CASE Contains(kept, o)
  <2>1. PICK j \in 1 .. Len(kept) : kept[j] = o
    BY <1>3 DEF Contains
  <2>2. \A i \in 1 .. k : \E l \in 1 .. Len(kept) : kept[l] = elements[i]
    <3>1. ASSUME NEW i \in 1 .. k
          PROVE  i \in 1 .. k - 1 \/ i = k
      BY <1>1
    <3>2. QED BY <1>2, <2>1, <3>1 DEF KeptOf
  <2>3. \A l \in 1 .. Len(kept) : \E i \in 1 .. k : kept[l] = elements[i]
    <3>1. \A i \in 1 .. k - 1 : i \in 1 .. k
      BY <1>1
    <3>2. QED BY <3>1 DEF KeptOf
  <2>4. KeptOf(kept, k, elements, S)
    BY <2>2, <2>3 DEF KeptOf
  <2>5. QED BY <1>2, <1>3, <2>4 DEF KeepOnce
<1>4. CASE ~ Contains(kept, o)
  <2>1. PICK longer \in Seq(S) : longer = Append(kept, o)
    <3>1. Append(kept, o) \in Seq(S)
      BY <1>1
    <3>2. QED BY <3>1
  <2>2. /\ Len(longer) = Len(kept) + 1 /\ longer[Len(kept) + 1] = o
        /\ \A j \in 1 .. Len(kept) : longer[j] = kept[j]
    BY <1>1, <2>1
  <2>3. \A i \in 1 .. k - 1 : elements[i] # o
    BY <1>4 DEF Contains, KeptOf
  <2>4. FirstOf(elements, o) = k
    <3>1. PICK places : places = {i \in DOMAIN elements : elements[i] = o}
      OBVIOUS
    <3>2. \A i \in places : i \in 1 .. Len(elements) /\ elements[i] = o
      BY <3>1
    <3>3. k \in places
      BY <1>2, <3>1
    <3>4. ASSUME NEW i \in places
          PROVE  i \in Nat /\ k <= i
      <4>1. i \in 1 .. Len(elements) /\ i \notin 1 .. k - 1
        BY <2>3, <3>2
      <4>2. QED BY <1>1, <4>1
    <3>5. places \in SUBSET Nat
      BY <3>4
    <3>6. QED BY <3>1, <3>3, <3>4, <3>5, MinIs DEF FirstOf
  <2>5. ASSUME NEW i \in 1 .. k - 1
        PROVE  FirstOf(elements, elements[i]) < k
    <3>1. PICK places : places = {j \in DOMAIN elements : elements[j] = elements[i]}
      OBVIOUS
    <3>2. \A j \in places : j \in Nat
      BY <1>1, <3>1
    <3>3. i \in places
      BY <1>1, <3>1
    <3>4. Min(places) <= i /\ Min(places) \in Nat
      <4>1. places \in SUBSET Nat /\ places # {}
        BY <3>2, <3>3
      <4>2. QED BY <3>3, <4>1, MinFacts
    <3>5. FirstOf(elements, elements[i]) = Min(places)
      BY <3>1 DEF FirstOf
    <3>6. QED BY <1>1, <3>4, <3>5
  <2>6. ASSUME NEW i \in 1 .. k
        PROVE  \E j \in 1 .. Len(longer) : longer[j] = elements[i]
    <3>1. CASE i = k
      BY <1>1, <1>2, <2>2, <3>1
    <3>2. CASE i # k
      <4>1. i \in 1 .. k - 1
        BY <1>1, <3>2
      <4>2. PICK j \in 1 .. Len(kept) : kept[j] = elements[i]
        BY <4>1 DEF KeptOf
      <4>3. j \in 1 .. Len(longer) /\ longer[j] = elements[i]
        BY <1>1, <2>2, <4>2
      <4>4. QED BY <4>3
    <3>3. QED BY <3>1, <3>2
  <2>7. ASSUME NEW j \in 1 .. Len(longer)
        PROVE  \E i \in 1 .. k : longer[j] = elements[i]
    <3>1. CASE j = Len(kept) + 1
      BY <1>1, <1>2, <2>2, <3>1
    <3>2. CASE j # Len(kept) + 1
      <4>1. j \in 1 .. Len(kept)
        BY <1>1, <2>2, <3>2
      <4>2. PICK i \in 1 .. k - 1 : kept[j] = elements[i]
        BY <4>1 DEF KeptOf
      <4>3. i \in 1 .. k /\ longer[j] = elements[i]
        BY <1>1, <2>2, <4>1, <4>2
      <4>4. QED BY <4>3
    <3>3. QED BY <3>1, <3>2
  <2>8. ASSUME NEW i \in 1 .. Len(longer), NEW j \in 1 .. Len(longer), i < j
        PROVE  FirstOf(elements, longer[i]) < FirstOf(elements, longer[j])
    <3>1. i \in 1 .. Len(kept)
      BY <1>1, <2>2, <2>8
    <3>2. CASE j = Len(kept) + 1
      <4>1. PICK l \in 1 .. k - 1 : kept[i] = elements[l]
        BY <3>1 DEF KeptOf
      <4>2. longer[i] = elements[l] /\ longer[j] = o
        BY <2>2, <3>1, <3>2, <4>1
      <4>3. QED BY <2>4, <2>5, <4>2
    <3>3. CASE j # Len(kept) + 1
      <4>1. j \in 1 .. Len(kept)
        BY <1>1, <2>2, <3>3
      <4>2. longer[i] = kept[i] /\ longer[j] = kept[j]
        BY <2>2, <3>1, <4>1
      <4>3. QED BY <2>8, <3>1, <4>1, <4>2 DEF KeptOf
    <3>4. QED BY <3>2, <3>3
  <2>9. KeptOf(longer, k, elements, S)
    BY <2>6, <2>7, <2>8 DEF KeptOf
  <2>10. QED BY <1>2, <1>4, <2>1, <2>9 DEF KeepOnce
<1>5. QED BY <1>3, <1>4

LEMMA DistinctFacts ==
    ASSUME NEW S, NEW elements \in Seq(S)
    PROVE  KeptOf(Distinct(elements), Len(elements), elements, S)
<1>1. PICK n \in Nat : n = Len(elements)
  OBVIOUS
<1>2. PICK f : IsKept(f, n, elements) /\ Distinct(elements) = f[n]
  BY <1>1, DistinctIsKept
<1>3. \A k \in 0 .. n : f[k] = IF k = 0 THEN <<>> ELSE KeepOnce(f[k - 1], elements[k])
  BY <1>2 DEF IsKept
<1> DEFINE Bad == {k \in 0 .. n : ~ KeptOf(f[k], k, elements, S)}
<1>4. SUFFICES ASSUME Bad # {}
               PROVE  FALSE
  BY <1>1, <1>2
<1>5. PICK k \in Bad : \A m \in Bad : k <= m
  <2>1. Bad \in SUBSET Nat
    BY <1>1
  <2>2. QED BY <1>4, <2>1, LeastNumber
<1>6. CASE k = 0
  <2>1. f[k] = <<>>
    BY <1>3, <1>6
  <2>2. KeptOf(<<>>, 0, elements, S)
    BY DEF KeptOf
  <2>3. QED BY <1>5, <1>6, <2>1, <2>2
<1>7. CASE k # 0
  <2>1. k \in 1 .. n /\ k - 1 \in 0 .. n /\ k - 1 \notin Bad
    BY <1>5, <1>7
  <2>2. KeptOf(f[k - 1], k - 1, elements, S)
    BY <2>1
  <2>3. KeptOf(KeepOnce(f[k - 1], elements[k]), k, elements, S)
    BY <1>1, <2>1, <2>2, KeepingOneMore
  <2>4. f[k] = KeepOnce(f[k - 1], elements[k])
    BY <1>3, <2>1
  <2>5. QED BY <1>5, <2>3, <2>4
<1>8. QED BY <1>6, <1>7

-----------------------------------------------------------------------------
(* What a module holds as the log grows: held lists what f tells of the    *)
(* registrations that start at these places.                               *)

Fits(L, held, m, starts, f) ==
    \E places : Holds(L, m, starts, places) /\ held = Along(f, places)

LEMMA FitsStill ==
    ASSUME NEW L, NEW L2, OneLonger(L, L2), NEW m, NEW starts \in SUBSET (1 .. Len(L)),
           NEW starts2, \A t \in 1 .. Len(L) : t \in starts2 <=> t \in starts,
           NEW f, NEW f2, \A t \in 1 .. Len(L) : f2[t] = f[t],
           \/ L2[Len(L2)].module # m
           \/ L2[Len(L2)].op # "include" /\ Len(L2) \notin starts2,
           NEW held, Fits(L, held, m, starts, f)
    PROVE  Fits(L2, held, m, starts2, f2)
<1>1. PICK places : Holds(L, m, starts, places) /\ held = Along(f, places)
  BY DEF Fits
<1>2. Len(L) \in Nat
  BY DEF OneLonger
<1>3. places \in Seq(starts)
  BY <1>1, <1>2, HoldsFacts
<1>4. Along(f2, places) = Along(f, places)
  BY <1>2, <1>3, AlongStill
<1>5. Holds(L2, m, starts2, places)
  BY <1>1, HoldsStill
<1>6. QED BY <1>1, <1>4, <1>5 DEF Fits

LEMMA FitsOneMore ==
    ASSUME NEW L, NEW L2, OneLonger(L, L2), NEW m, NEW starts \in SUBSET (1 .. Len(L)),
           NEW starts2, \A t \in 1 .. Len(L) : t \in starts2 <=> t \in starts,
           NEW f, NEW f2, \A t \in 1 .. Len(L) : f2[t] = f[t],
           L2[Len(L2)].module = m, L2[Len(L2)].op # "include", Len(L2) \in starts2,
           NEW held, Fits(L, held, m, starts, f)
    PROVE  Fits(L2, Append(held, f2[Len(L2)]), m, starts2, f2)
<1>1. PICK places : Holds(L, m, starts, places) /\ held = Along(f, places)
  BY DEF Fits
<1>2. Len(L) \in Nat
  BY DEF OneLonger
<1>3. places \in Seq(starts)
  BY <1>1, <1>2, HoldsFacts
<1>4. Along(f2, places) = held
  BY <1>1, <1>2, <1>3, AlongStill
<1>5. Along(f2, Append(places, Len(L2))) = Append(held, f2[Len(L2)])
  <2>1. PICK S : S = starts \cup {Len(L2)}
    OBVIOUS
  <2>2. places \in Seq(S) /\ Len(L2) \in S
    BY <1>3, <2>1
  <2>3. QED BY <1>4, <2>2, AlongAppend
<1>6. Holds(L2, m, starts2, Append(places, Len(L2)))
  BY <1>1, HoldsOneMore
<1>7. QED BY <1>5, <1>6 DEF Fits

LEMMA FitsIncluded ==
    ASSUME NEW L, NEW L2, OneLonger(L, L2), NEW m, NEW starts \in SUBSET (1 .. Len(L)),
           NEW starts2, \A t \in 1 .. Len(L) : t \in starts2 <=> t \in starts,
           NEW f, NEW f2, \A t \in 1 .. Len(L) : f2[t] = f[t],
           L2[Len(L2)].module = m, L2[Len(L2)].op = "include",
           NEW held, Fits(L, held, m, starts, f),
           NEW other, Fits(L, other, L2[Len(L2)].subject, starts, f)
    PROVE  Fits(L2, held \o other, m, starts2, f2)
<1>1. PICK places : Holds(L, m, starts, places) /\ held = Along(f, places)
  BY DEF Fits
<1>2. PICK others : Holds(L, L2[Len(L2)].subject, starts, others) /\ other = Along(f, others)
  BY DEF Fits
<1>3. Len(L) \in Nat
  BY DEF OneLonger
<1>4. places \in Seq(starts) /\ others \in Seq(starts)
  BY <1>1, <1>2, <1>3, HoldsFacts
<1>5. Along(f2, places) = held /\ Along(f2, others) = other
  BY <1>1, <1>2, <1>3, <1>4, AlongStill
<1>6. Along(f2, places \o others) = held \o other
  BY <1>4, <1>5, AlongConcat
<1>7. Holds(L2, m, starts2, places \o others)
  BY <1>1, <1>2, HoldsIncluded
<1>8. QED BY <1>6, <1>7 DEF Fits

-----------------------------------------------------------------------------
(* The inductive invariant.                                                *)

Entries ==
    [op : {"provide", "set", "add", "include"}, module : Modules,
     subject : Keys \cup {<<s>> : s \in SetKeys} \cup SetKeys \X Keys \cup Modules]

Provided(L) == {t \in 1 .. Len(L) : L[t].op = "provide"}

Declared(L) == {t \in 1 .. Len(L) : L[t].op \in {"set", "add"}}

Added(L, s) == {t \in 1 .. Len(L) : L[t].op = "add" /\ L[t].subject[1] = s}

Bound(L) == [t \in 1 .. Len(L) |-> [key |-> L[t].subject, provider |-> t]]

Named(L) == [t \in 1 .. Len(L) |-> L[t].subject[1]]

Contributed(L) == [t \in 1 .. Len(L) |-> L[t].subject[2]]

TypeOK ==
    /\ log \in Seq(Entries)
    /\ DOMAIN bindings = Modules /\ DOMAIN sets = Modules
    /\ \A m \in Modules : DOMAIN sets[m] \subseteq SetKeys

HeldInv ==
    \A m \in Modules :
        /\ Fits(log, bindings[m], m, Provided(log), Bound(log))
        /\ \E names : /\ Fits(log, names, m, Declared(log), Named(log))
                      /\ DOMAIN sets[m] = ToSet(names)
        /\ \A s \in SetKeys : Fits(log, Emplaced(m, s), m, Added(log, s), Contributed(log))

Inv == TypeOK /\ HeldInv

(* L2 is the log L with operation e.                                       *)
Extended(L, e, L2) ==
    /\ L \in Seq(Entries) /\ e \in Entries /\ L2 \in Seq(Entries)
    /\ L2 = Append(L, e)

LEMMA LogGrows ==
    ASSUME NEW L, NEW e, NEW L2, Extended(L, e, L2)
    PROVE  /\ OneLonger(L, L2) /\ L2[Len(L2)] = e
           /\ Len(L2) \in 1 .. Len(L2) /\ Len(L2) \notin 1 .. Len(L)
           /\ \A t \in 1 .. Len(L) : t \in 1 .. Len(L2) /\ L2[t] = L[t]
<1>1. L \in Seq(Entries) /\ e \in Entries /\ L2 \in Seq(Entries) /\ L2 = Append(L, e)
  BY DEF Extended
<1>2. /\ Len(L) \in Nat /\ Len(L2) = Len(L) + 1 /\ L2[Len(L2)] = e
      /\ \A t \in 1 .. Len(L) : L2[t] = L[t]
  BY <1>1
<1>3. OneLonger(L, L2)
  BY <1>2 DEF OneLonger
<1>4. QED BY <1>2, <1>3

(* The places of a kind of operation, and what they tell, stay.            *)
SamePlaces(L, starts, starts2, f, f2) ==
    /\ starts \in SUBSET (1 .. Len(L))
    /\ \A t \in 1 .. Len(L) : t \in starts2 <=> t \in starts
    /\ \A t \in 1 .. Len(L) : f2[t] = f[t]

LEMMA PlacesGrow ==
    ASSUME NEW L, NEW e, NEW L2, Extended(L, e, L2)
    PROVE  /\ SamePlaces(L, Provided(L), Provided(L2), Bound(L), Bound(L2))
           /\ SamePlaces(L, Declared(L), Declared(L2), Named(L), Named(L2))
           /\ \A s : SamePlaces(L, Added(L, s), Added(L2, s), Contributed(L), Contributed(L2))
<1>1. \A t \in 1 .. Len(L) : t \in 1 .. Len(L2) /\ L2[t] = L[t]
  BY LogGrows
<1>2. SamePlaces(L, Provided(L), Provided(L2), Bound(L), Bound(L2))
  BY <1>1 DEF SamePlaces, Provided, Bound
<1>3. SamePlaces(L, Declared(L), Declared(L2), Named(L), Named(L2))
  BY <1>1 DEF SamePlaces, Declared, Named
<1>4. ASSUME NEW s
      PROVE  SamePlaces(L, Added(L, s), Added(L2, s), Contributed(L), Contributed(L2))
  BY <1>1 DEF SamePlaces, Added, Contributed
<1>5. QED BY <1>2, <1>3, <1>4

LEMMA NewPlace ==
    ASSUME NEW L, NEW e, NEW L2, Extended(L, e, L2)
    PROVE  /\ Len(L2) \in Provided(L2) <=> e.op = "provide"
           /\ Len(L2) \in Declared(L2) <=> e.op \in {"set", "add"}
           /\ \A s : Len(L2) \in Added(L2, s) <=> e.op = "add" /\ e.subject[1] = s
           /\ Bound(L2)[Len(L2)] = [key |-> e.subject, provider |-> Len(L2)]
           /\ Named(L2)[Len(L2)] = e.subject[1]
           /\ Contributed(L2)[Len(L2)] = e.subject[2]
<1>1. Len(L2) \in 1 .. Len(L2) /\ L2[Len(L2)] = e
  BY LogGrows
<1>2. /\ Len(L2) \in Provided(L2) <=> e.op = "provide"
      /\ Len(L2) \in Declared(L2) <=> e.op \in {"set", "add"}
      /\ \A s : Len(L2) \in Added(L2, s) <=> e.op = "add" /\ e.subject[1] = s
  BY <1>1 DEF Provided, Declared, Added
<1>3. /\ Bound(L2)[Len(L2)] = [key |-> e.subject, provider |-> Len(L2)]
      /\ Named(L2)[Len(L2)] = e.subject[1]
      /\ Contributed(L2)[Len(L2)] = e.subject[2]
  BY <1>1 DEF Bound, Named, Contributed
<1>4. QED BY <1>2, <1>3

LEMMA NothingHeld ==
    ASSUME NEW m, NEW starts, NEW f
    PROVE  Fits(<<>>, <<>>, m, starts, f)
<1>1. ChainsFrom(<<>>, m, starts) = {}
  BY DEF ChainsFrom, IsChain
<1>2. InOrder(<<>>, {}) /\ <<>> = [i \in 1 .. Len(<<>>) |-> Min(<<>>[i])]
  BY DEF InOrder
<1>3. Holds(<<>>, m, starts, <<>>)
  BY <1>1, <1>2 DEF Holds
<1>4. <<>> = Along(f, <<>>)
  BY DEF Along
<1>5. QED BY <1>3, <1>4 DEF Fits

LEMMA InitInv == Init => Inv
<1> SUFFICES ASSUME Init
             PROVE  Inv
  OBVIOUS
<1>1. log = <<>> /\ bindings = [m \in Modules |-> <<>>] /\ sets = [m \in Modules |-> <<>>]
  BY DEF Init
<1>2. DOMAIN <<>> = {} /\ ToSet(<<>>) = {} /\ <<>> \in Seq(Entries)
  BY DEF ToSet
<1>3. TypeOK
  BY <1>1, <1>2 DEF TypeOK
<1>4. ASSUME NEW m \in Modules
      PROVE  /\ Fits(log, bindings[m], m, Provided(log), Bound(log))
             /\ Fits(log, <<>>, m, Declared(log), Named(log)) /\ DOMAIN sets[m] = ToSet(<<>>)
             /\ \A s \in SetKeys : Fits(log, Emplaced(m, s), m, Added(log, s), Contributed(log))
  <2>1. bindings[m] = <<>> /\ DOMAIN sets[m] = {}
    BY <1>1, <1>2
  <2>2. \A s \in SetKeys : Emplaced(m, s) = <<>>
    BY <2>1 DEF Emplaced
  <2>3. QED BY <1>1, <1>2, <2>1, <2>2, NothingHeld
<1>5. QED BY <1>3, <1>4 DEF Inv, HeldInv

-----------------------------------------------------------------------------
(* The steps.                                                              *)

FitsBindings(L, held, m) == Fits(L, held, m, Provided(L), Bound(L))

FitsNames(L, names, m) == Fits(L, names, m, Declared(L), Named(L))

FitsSources(L, sources, m, s) == Fits(L, sources, m, Added(L, s), Contributed(L))

LEMMA HeldStill ==
    ASSUME NEW L, NEW e, NEW L2, Extended(L, e, L2), NEW m
    PROVE  /\ e.module # m \/ e.op \notin {"include", "provide"} =>
                 \A held : FitsBindings(L, held, m) => FitsBindings(L2, held, m)
           /\ e.module # m \/ e.op \notin {"include", "set", "add"} =>
                 \A names : FitsNames(L, names, m) => FitsNames(L2, names, m)
           /\ \A s : e.module # m \/ e.op \notin {"include", "add"} \/ (e.op = "add" /\ e.subject[1] # s) =>
                 \A sources : FitsSources(L, sources, m, s) => FitsSources(L2, sources, m, s)
<1>1. OneLonger(L, L2) /\ L2[Len(L2)] = e
  BY LogGrows
<1>2. ASSUME NEW starts, NEW starts2, NEW f, NEW f2, SamePlaces(L, starts, starts2, f, f2),
             e.module # m \/ (e.op # "include" /\ Len(L2) \notin starts2),
             NEW held, Fits(L, held, m, starts, f)
      PROVE  Fits(L2, held, m, starts2, f2)
  BY <1>1, <1>2, FitsStill DEF SamePlaces
<1>3. ASSUME e.module # m \/ e.op \notin {"include", "provide"},
             NEW held, FitsBindings(L, held, m)
      PROVE  FitsBindings(L2, held, m)
  <2>1. e.module # m \/ (e.op # "include" /\ Len(L2) \notin Provided(L2))
    BY <1>3, NewPlace
  <2>2. QED BY <1>2, <1>3, <2>1, PlacesGrow DEF FitsBindings
<1>4. ASSUME e.module # m \/ e.op \notin {"include", "set", "add"},
             NEW names, FitsNames(L, names, m)
      PROVE  FitsNames(L2, names, m)
  <2>1. e.module # m \/ (e.op # "include" /\ Len(L2) \notin Declared(L2))
    BY <1>4, NewPlace
  <2>2. QED BY <1>2, <1>4, <2>1, PlacesGrow DEF FitsNames
<1>5. ASSUME NEW s, e.module # m \/ e.op \notin {"include", "add"} \/ (e.op = "add" /\ e.subject[1] # s),
             NEW sources, FitsSources(L, sources, m, s)
      PROVE  FitsSources(L2, sources, m, s)
  <2>1. e.module # m \/ (e.op # "include" /\ Len(L2) \notin Added(L2, s))
    BY <1>5, NewPlace
  <2>2. QED BY <1>2, <1>5, <2>1, PlacesGrow DEF FitsSources
<1>6. QED BY <1>3, <1>4, <1>5

LEMMA HeldOneMore ==
    ASSUME NEW L, NEW e, NEW L2, Extended(L, e, L2)
    PROVE  /\ e.op = "provide" =>
                 \A held : FitsBindings(L, held, e.module) =>
                    FitsBindings(L2, Append(held, [key |-> e.subject, provider |-> Len(L2)]), e.module)
           /\ e.op \in {"set", "add"} =>
                 \A names : FitsNames(L, names, e.module) =>
                    FitsNames(L2, Append(names, e.subject[1]), e.module)
           /\ e.op = "add" =>
                 \A sources : FitsSources(L, sources, e.module, e.subject[1]) =>
                    FitsSources(L2, Append(sources, e.subject[2]), e.module, e.subject[1])
<1>1. OneLonger(L, L2) /\ L2[Len(L2)].module = e.module /\ L2[Len(L2)].op = e.op
  BY LogGrows
<1>2. ASSUME NEW starts, NEW starts2, NEW f, NEW f2, SamePlaces(L, starts, starts2, f, f2),
             e.op # "include", Len(L2) \in starts2, NEW held, Fits(L, held, e.module, starts, f)
      PROVE  Fits(L2, Append(held, f2[Len(L2)]), e.module, starts2, f2)
  BY <1>1, <1>2, FitsOneMore DEF SamePlaces
<1>3. ASSUME e.op = "provide", NEW held, FitsBindings(L, held, e.module)
      PROVE  FitsBindings(L2, Append(held, [key |-> e.subject, provider |-> Len(L2)]), e.module)
  <2>1. Len(L2) \in Provided(L2) /\ e.op # "include"
    BY <1>3, NewPlace
  <2>2. Fits(L2, Append(held, Bound(L2)[Len(L2)]), e.module, Provided(L2), Bound(L2))
    BY <1>2, <1>3, <2>1, PlacesGrow DEF FitsBindings
  <2>3. Bound(L2)[Len(L2)] = [key |-> e.subject, provider |-> Len(L2)]
    BY NewPlace
  <2>4. QED BY <2>2, <2>3, Zenon DEF FitsBindings
<1>4. ASSUME e.op \in {"set", "add"}, NEW names, FitsNames(L, names, e.module)
      PROVE  FitsNames(L2, Append(names, e.subject[1]), e.module)
  <2>1. Len(L2) \in Declared(L2) /\ e.op # "include"
    BY <1>4, NewPlace
  <2>2. Fits(L2, Append(names, Named(L2)[Len(L2)]), e.module, Declared(L2), Named(L2))
    BY <1>2, <1>4, <2>1, PlacesGrow DEF FitsNames
  <2>3. Named(L2)[Len(L2)] = e.subject[1]
    BY NewPlace
  <2>4. QED BY <2>2, <2>3, Zenon DEF FitsNames
<1>5. ASSUME e.op = "add", NEW sources, FitsSources(L, sources, e.module, e.subject[1])
      PROVE  FitsSources(L2, Append(sources, e.subject[2]), e.module, e.subject[1])
  <2>1. PICK s : s = e.subject[1]
    OBVIOUS
  <2>2. Len(L2) \in Added(L2, s) /\ e.op # "include"
    BY <1>5, <2>1, NewPlace
  <2>3. Fits(L2, Append(sources, Contributed(L2)[Len(L2)]), e.module, Added(L2, s), Contributed(L2))
    BY <1>2, <1>5, <2>1, <2>2, PlacesGrow DEF FitsSources
  <2>4. Contributed(L2)[Len(L2)] = e.subject[2]
    BY NewPlace
  <2>5. QED BY <2>1, <2>3, <2>4, Zenon DEF FitsSources
<1>6. QED BY <1>3, <1>4, <1>5

LEMMA HeldIncluded ==
    ASSUME NEW L, NEW e, NEW L2, Extended(L, e, L2), e.op = "include"
    PROVE  /\ \A held, other :
                 FitsBindings(L, held, e.module) /\ FitsBindings(L, other, e.subject) =>
                    FitsBindings(L2, held \o other, e.module)
           /\ \A names, other :
                 FitsNames(L, names, e.module) /\ FitsNames(L, other, e.subject) =>
                    FitsNames(L2, names \o other, e.module)
           /\ \A s, sources, other :
                 FitsSources(L, sources, e.module, s) /\ FitsSources(L, other, e.subject, s) =>
                    FitsSources(L2, sources \o other, e.module, s)
<1>1. /\ OneLonger(L, L2) /\ L2[Len(L2)].module = e.module /\ L2[Len(L2)].op = "include"
      /\ L2[Len(L2)].subject = e.subject
  BY LogGrows
<1>2. ASSUME NEW starts, NEW starts2, NEW f, NEW f2, SamePlaces(L, starts, starts2, f, f2),
             NEW held, Fits(L, held, e.module, starts, f),
             NEW other, Fits(L, other, e.subject, starts, f)
      PROVE  Fits(L2, held \o other, e.module, starts2, f2)
  BY <1>1, <1>2, FitsIncluded DEF SamePlaces
<1>3. QED BY <1>2, PlacesGrow DEF FitsBindings, FitsNames, FitsSources

LEMMA FitsType ==
    ASSUME NEW L \in Seq(Entries), NEW held, NEW m, NEW starts, NEW f, Fits(L, held, m, starts, f)
    PROVE  held \in Seq({f[t] : t \in starts})
<1>1. PICK places : Holds(L, m, starts, places) /\ held = Along(f, places)
  BY DEF Fits
<1>2. Len(L) \in Nat
  OBVIOUS
<1>3. places \in Seq(starts)
  BY <1>1, <1>2, HoldsFacts
<1>4. \A i \in 1 .. Len(places) : f[places[i]] \in {f[t] : t \in starts}
  BY <1>3
<1>5. QED BY <1>1, <1>3, <1>4 DEF Along

(* What a logged operation says of the log.                                *)
LEMMA LoggedFacts ==
    ASSUME TypeOK, NEW op, NEW m, NEW subject,
           [op |-> op, module |-> m, subject |-> subject] \in Entries, Logged(op, m, subject)
    PROVE  Extended(log, [op |-> op, module |-> m, subject |-> subject], log')
<1>1. log \in Seq(Entries) /\ log' = Append(log, [op |-> op, module |-> m, subject |-> subject])
  BY DEF TypeOK, Logged
<1>2. Append(log, [op |-> op, module |-> m, subject |-> subject]) \in Seq(Entries)
  BY <1>1
<1>3. QED BY <1>1, <1>2, Zenon DEF Extended

(* The contributions that f, the sets of all modules, has.                 *)
SourcesIn(f, o, z) == IF z \in DOMAIN f[o] THEN f[o][z] ELSE <<>>

LEMMA ProvideInv ==
    ASSUME Inv, NEW m \in Modules, NEW k \in Keys, ProvideEffect(m, k)
    PROVE  Inv'
<1>1. TypeOK /\ HeldInv
  BY DEF Inv
<1>2. PICK e : e = [op |-> "provide", module |-> m, subject |-> k]
  OBVIOUS
<1>3. e \in Entries /\ e.op = "provide" /\ e.module = m /\ e.subject = k
  BY <1>2 DEF Entries
<1>4. PICK L : L = log
  OBVIOUS
<1>5. PICK L2 : L2 = log'
  OBVIOUS
<1>6. Extended(L, e, L2)
  BY <1>1, <1>2, <1>3, <1>4, <1>5, LoggedFacts DEF ProvideEffect
<1>7. L \in Seq(Entries) /\ L2 \in Seq(Entries) /\ Len(L2) = Len(L) + 1
  BY <1>6, LogGrows DEF Extended, OneLonger
<1>8. /\ bindings' = [bindings EXCEPT ![m] = Append(@, [key |-> k, provider |-> Len(L) + 1])]
      /\ sets' = sets
  BY <1>4 DEF ProvideEffect
<1>9. TypeOK'
  BY <1>1, <1>5, <1>7, <1>8 DEF TypeOK
<1>10. ASSUME NEW o \in Modules
       PROVE  FitsBindings(L2, bindings'[o], o)
  <2>1. FitsBindings(L, bindings[o], o)
    BY <1>1, <1>4 DEF HeldInv, FitsBindings
  <2>2. CASE o = m
    <3>1. bindings'[o] = Append(bindings[o], [key |-> e.subject, provider |-> Len(L2)])
      BY <1>1, <1>3, <1>7, <1>8, <2>2 DEF TypeOK
    <3>2. QED BY <1>3, <1>6, <2>1, <2>2, <3>1, HeldOneMore
  <2>3. CASE o # m
    <3>1. bindings'[o] = bindings[o]
      BY <1>1, <1>8, <2>3 DEF TypeOK
    <3>2. QED BY <1>3, <1>6, <2>1, <2>3, <3>1, HeldStill
  <2>4. QED BY <2>2, <2>3
<1>11. ASSUME NEW o \in Modules
       PROVE  \E names : FitsNames(L2, names, o) /\ DOMAIN sets'[o] = ToSet(names)
  <2>1. PICK names : FitsNames(L, names, o) /\ DOMAIN sets[o] = ToSet(names)
    BY <1>1, <1>4 DEF HeldInv, FitsNames
  <2>2. FitsNames(L2, names, o)
    BY <1>3, <1>6, <2>1, HeldStill
  <2>3. QED BY <1>8, <2>1, <2>2
<1>12. ASSUME NEW o \in Modules, NEW s \in SetKeys
       PROVE  FitsSources(L2, Emplaced(o, s)', o, s)
  <2>1. FitsSources(L, Emplaced(o, s), o, s)
    BY <1>1, <1>4 DEF HeldInv, FitsSources
  <2>2. Emplaced(o, s)' = Emplaced(o, s)
    BY <1>8 DEF Emplaced
  <2>3. QED BY <1>3, <1>6, <2>1, <2>2, HeldStill
<1>13. HeldInv'
  BY <1>5, <1>10, <1>11, <1>12 DEF HeldInv, FitsBindings, FitsNames, FitsSources
<1>14. QED BY <1>9, <1>13 DEF Inv

LEMMA ToSetGrows ==
    ASSUME NEW S, NEW names \in Seq(S), NEW T, NEW others \in Seq(T), NEW x
    PROVE  /\ ToSet(Append(names, x)) = ToSet(names) \cup {x}
           /\ ToSet(names \o others) = ToSet(names) \cup ToSet(others)
<1>1. PICK U : U = S \cup T \cup {x}
  OBVIOUS
<1>2. names \in Seq(U) /\ others \in Seq(U) /\ x \in U
  BY <1>1
<1>3. PICK longer \in Seq(U) : longer = Append(names, x)
  <2>1. Append(names, x) \in Seq(U)
    BY <1>2
  <2>2. QED BY <2>1
<1>4. PICK both \in Seq(U) : both = names \o others
  <2>1. names \o others \in Seq(U)
    BY <1>2
  <2>2. QED BY <2>1
<1>5. /\ Len(longer) = Len(names) + 1 /\ Len(names) \in Nat
      /\ longer[Len(names) + 1] = x
      /\ \A i \in 1 .. Len(names) : longer[i] = names[i]
  BY <1>2, <1>3
<1>6. /\ Len(both) = Len(names) + Len(others) /\ Len(others) \in Nat
      /\ \A i \in 1 .. Len(names) : both[i] = names[i]
      /\ \A i \in 1 .. Len(others) : both[Len(names) + i] = others[i]
  BY <1>2, <1>4
<1>7. \A s \in Seq(U) : ToSet(s) = {s[i] : i \in 1 .. Len(s)}
  BY DEF ToSet
<1>8. \A i \in 1 .. Len(longer) : i \in 1 .. Len(names) \/ i = Len(names) + 1
  BY <1>5
<1>9. \A i \in 1 .. Len(names) : i \in 1 .. Len(longer)
  BY <1>5
<1>10. {longer[i] : i \in 1 .. Len(longer)} = {names[i] : i \in 1 .. Len(names)} \cup {x}
  <2>1. ASSUME NEW i \in 1 .. Len(longer)
        PROVE  longer[i] \in {names[j] : j \in 1 .. Len(names)} \cup {x}
    BY <1>5, <1>8
  <2>2. x \in {longer[i] : i \in 1 .. Len(longer)}
    BY <1>5
  <2>3. ASSUME NEW i \in 1 .. Len(names)
        PROVE  names[i] \in {longer[j] : j \in 1 .. Len(longer)}
    BY <1>5, <1>9
  <2>4. QED BY <2>1, <2>2, <2>3
<1>11. {both[i] : i \in 1 .. Len(both)} =
          {names[i] : i \in 1 .. Len(names)} \cup {others[i] : i \in 1 .. Len(others)}
  <2>1. ASSUME NEW i \in 1 .. Len(both)
        PROVE  both[i] \in {names[j] : j \in 1 .. Len(names)} \cup {others[j] : j \in 1 .. Len(others)}
    <3>1. CASE i \in 1 .. Len(names)
      BY <1>6, <3>1
    <3>2. CASE i \notin 1 .. Len(names)
      <4>1. i - Len(names) \in 1 .. Len(others) /\ i = Len(names) + (i - Len(names))
        BY <1>5, <1>6, <3>2
      <4>2. PICK j \in 1 .. Len(others) : i = Len(names) + j
        BY <4>1
      <4>3. QED BY <1>6, <4>2
    <3>3. QED BY <3>1, <3>2
  <2>2. ASSUME NEW i \in 1 .. Len(names)
        PROVE  names[i] \in {both[j] : j \in 1 .. Len(both)}
    <3>1. i \in 1 .. Len(both) /\ both[i] = names[i]
      BY <1>5, <1>6
    <3>2. QED BY <3>1
  <2>3. ASSUME NEW i \in 1 .. Len(others)
        PROVE  others[i] \in {both[j] : j \in 1 .. Len(both)}
    <3>1. Len(names) + i \in 1 .. Len(both) /\ both[Len(names) + i] = others[i]
      BY <1>5, <1>6
    <3>2. QED BY <3>1
  <2>4. QED BY <2>1, <2>2, <2>3
<1>12. /\ ToSet(longer) = {longer[i] : i \in 1 .. Len(longer)}
       /\ ToSet(both) = {both[i] : i \in 1 .. Len(both)}
       /\ ToSet(names) = {names[i] : i \in 1 .. Len(names)}
       /\ ToSet(others) = {others[i] : i \in 1 .. Len(others)}
  BY <1>2, <1>7
<1>13. QED BY <1>3, <1>4, <1>10, <1>11, <1>12

(* Declaring a set and adding to one: both name it.                        *)
LEMMA DeclareInv ==
    ASSUME Inv, NEW m \in Modules, NEW s \in SetKeys, NEW sources, NEW e \in Entries,
           e.module = m, e.subject[1] = s, UNCHANGED bindings, Put(m, s, sources),
           Extended(log, e, log'),
           \/ e.op = "set" /\ sources = Emplaced(m, s)
           \/ e.op = "add" /\ sources = Append(Emplaced(m, s), e.subject[2])
    PROVE  Inv'
<1>1. TypeOK /\ HeldInv
  BY DEF Inv
<1>2. PICK L : L = log
  OBVIOUS
<1>3. PICK L2 : L2 = log'
  OBVIOUS
<1>4. Extended(L, e, L2)
  BY <1>2, <1>3
<1>5. L2 \in Seq(Entries)
  BY <1>4 DEF Extended
<1>6. /\ DOMAIN sets' = Modules
      /\ \A o \in Modules :
            DOMAIN sets'[o] = IF o = m THEN DOMAIN sets[m] \cup {s} ELSE DOMAIN sets[o]
      /\ \A o \in Modules, z \in SetKeys :
            SourcesIn(sets', o, z) = IF o = m /\ z = s THEN sources ELSE SourcesIn(sets, o, z)
  <2>1. PICK now : now = [z \in DOMAIN sets[m] \cup {s} |-> IF z = s THEN sources ELSE sets[m][z]]
    OBVIOUS
  <2>2. sets' = [sets EXCEPT ![m] = now]
    BY <2>1 DEF Put
  <2>3. DOMAIN sets = Modules
    BY <1>1 DEF TypeOK
  <2>4. DOMAIN sets' = Modules /\ sets'[m] = now /\ \A o \in Modules : o # m => sets'[o] = sets[o]
    BY <2>2, <2>3
  <2>5. \A o \in Modules :
           DOMAIN sets'[o] = IF o = m THEN DOMAIN sets[m] \cup {s} ELSE DOMAIN sets[o]
    BY <2>1, <2>4
  <2>6. ASSUME NEW o \in Modules, NEW z \in SetKeys
        PROVE  SourcesIn(sets', o, z) = IF o = m /\ z = s THEN sources ELSE SourcesIn(sets, o, z)
    <3>1. CASE o # m
      BY <2>4, <3>1 DEF SourcesIn
    <3>2. CASE o = m
      BY <2>1, <2>4, <3>2 DEF SourcesIn
    <3>3. QED BY <3>1, <3>2
  <2>7. QED BY <2>4, <2>5, <2>6
<1>7. TypeOK'
  BY <1>1, <1>3, <1>5, <1>6 DEF TypeOK
<1>8. ASSUME NEW o \in Modules
      PROVE  FitsBindings(L2, bindings'[o], o)
  <2>1. FitsBindings(L, bindings[o], o)
    BY <1>1, <1>2 DEF HeldInv, FitsBindings
  <2>2. e.op \notin {"include", "provide"}
    OBVIOUS
  <2>3. QED BY <1>4, <2>1, <2>2, HeldStill
<1>9. ASSUME NEW o \in Modules
      PROVE  \E names : FitsNames(L2, names, o) /\ DOMAIN sets'[o] = ToSet(names)
  <2>1. PICK names : FitsNames(L, names, o) /\ DOMAIN sets[o] = ToSet(names)
    BY <1>1, <1>2 DEF HeldInv, FitsNames
  <2>2. CASE o = m
    <3>1. FitsNames(L2, Append(names, s), o)
      BY <1>4, <2>1, <2>2, HeldOneMore
    <3>2. names \in Seq({Named(L)[t] : t \in Declared(L)})
      BY <1>4, <2>1, FitsType DEF FitsNames, Extended
    <3>3. ToSet(Append(names, s)) = ToSet(names) \cup {s}
      BY <3>2, ToSetGrows
    <3>4. QED BY <1>6, <2>1, <2>2, <3>1, <3>3
  <2>3. CASE o # m
    <3>1. FitsNames(L2, names, o)
      BY <1>4, <2>1, <2>3, HeldStill
    <3>2. QED BY <1>6, <2>1, <2>3, <3>1
  <2>4. QED BY <2>2, <2>3
<1>10. ASSUME NEW o \in Modules, NEW z \in SetKeys
       PROVE  FitsSources(L2, Emplaced(o, z)', o, z)
  <2>1. FitsSources(L, Emplaced(o, z), o, z)
    BY <1>1, <1>2 DEF HeldInv, FitsSources
  <2>2. CASE o = m /\ z = s /\ e.op = "add"
    <3>1. Emplaced(o, z)' = Append(Emplaced(o, z), e.subject[2])
      BY <1>6, <2>2 DEF Emplaced, SourcesIn
    <3>2. QED BY <1>4, <2>1, <2>2, <3>1, HeldOneMore
  <2>3. CASE ~ (o = m /\ z = s /\ e.op = "add")
    <3>1. Emplaced(o, z)' = Emplaced(o, z)
      <4>1. SourcesIn(sets', o, z) = SourcesIn(sets, o, z)
        <5>1. CASE o = m /\ z = s
          BY <1>6, <2>3, <5>1 DEF Emplaced, SourcesIn
        <5>2. CASE ~ (o = m /\ z = s)
          BY <1>6, <5>2
        <5>3. QED BY <5>1, <5>2
      <4>2. QED BY <4>1 DEF Emplaced, SourcesIn
    <3>2. \/ e.module # o \/ e.op \notin {"include", "add"}
          \/ e.op = "add" /\ e.subject[1] # z
      BY <2>3
    <3>3. FitsSources(L2, Emplaced(o, z), o, z)
      BY <1>4, <2>1, <3>2, HeldStill
    <3>4. QED BY <3>1, <3>3
  <2>4. QED BY <2>2, <2>3
<1>11. HeldInv'
  BY <1>3, <1>8, <1>9, <1>10 DEF HeldInv, FitsBindings, FitsNames, FitsSources
<1>12. QED BY <1>7, <1>11 DEF Inv

LEMMA IncludeInv ==
    ASSUME Inv, NEW m \in Modules, NEW other \in Modules, Include(m, other)
    PROVE  Inv'
<1>1. TypeOK /\ HeldInv
  BY DEF Inv
<1>2. PICK e : e = [op |-> "include", module |-> m, subject |-> other]
  OBVIOUS
<1>3. e \in Entries /\ e.op = "include" /\ e.module = m /\ e.subject = other
  BY <1>2 DEF Entries
<1>4. PICK L : L = log
  OBVIOUS
<1>5. PICK L2 : L2 = log'
  OBVIOUS
<1>6. Extended(L, e, L2)
  BY <1>1, <1>2, <1>3, <1>4, <1>5, LoggedFacts DEF Include
<1>7. L \in Seq(Entries) /\ L2 \in Seq(Entries)
  BY <1>6 DEF Extended
<1>8. /\ DOMAIN bindings' = Modules /\ bindings'[m] = bindings[m] \o bindings[other]
      /\ \A o \in Modules : o # m => bindings'[o] = bindings[o]
  BY <1>1 DEF TypeOK, Include
<1>9. /\ DOMAIN sets' = Modules /\ sets'[m] = Merged(m, other)
      /\ \A o \in Modules : o # m => sets'[o] = sets[o]
  BY <1>1 DEF TypeOK, Include
<1>10. DOMAIN sets'[m] = DOMAIN sets[m] \cup DOMAIN sets[other]
  BY <1>9 DEF Merged
<1>11. TypeOK'
  BY <1>1, <1>5, <1>7, <1>8, <1>9, <1>10 DEF TypeOK
<1>12. ASSUME NEW o \in Modules
       PROVE  FitsBindings(L2, bindings'[o], o)
  <2>1. FitsBindings(L, bindings[o], o) /\ FitsBindings(L, bindings[other], other)
    BY <1>1, <1>4 DEF HeldInv, FitsBindings
  <2>2. CASE o = m
    <3>1. FitsBindings(L2, bindings[o] \o bindings[other], o)
      BY <1>3, <1>6, <2>1, <2>2, HeldIncluded
    <3>2. QED BY <1>8, <2>2, <3>1
  <2>3. CASE o # m
    <3>1. FitsBindings(L2, bindings[o], o)
      BY <1>3, <1>6, <2>1, <2>3, HeldStill
    <3>2. QED BY <1>8, <2>3, <3>1
  <2>4. QED BY <2>2, <2>3
<1>13. ASSUME NEW o \in Modules
       PROVE  \E names : FitsNames(L2, names, o) /\ DOMAIN sets'[o] = ToSet(names)
  <2>1. PICK names : FitsNames(L, names, o) /\ DOMAIN sets[o] = ToSet(names)
    BY <1>1, <1>4 DEF HeldInv, FitsNames
  <2>2. PICK more : FitsNames(L, more, other) /\ DOMAIN sets[other] = ToSet(more)
    BY <1>1, <1>4 DEF HeldInv, FitsNames
  <2>3. CASE o = m
    <3>1. FitsNames(L2, names \o more, o)
      BY <1>3, <1>6, <2>1, <2>2, <2>3, HeldIncluded
    <3>2. PICK S : names \in Seq(S) /\ more \in Seq(S)
      <4>1. /\ names \in Seq({Named(L)[t] : t \in Declared(L)})
            /\ more \in Seq({Named(L)[t] : t \in Declared(L)})
        BY <1>7, <2>1, <2>2, FitsType DEF FitsNames
      <4>2. QED BY <4>1
    <3>3. ToSet(names \o more) = ToSet(names) \cup ToSet(more)
      BY <3>2, ToSetGrows
    <3>4. QED BY <1>10, <2>1, <2>2, <2>3, <3>1, <3>3
  <2>4. CASE o # m
    <3>1. FitsNames(L2, names, o)
      BY <1>3, <1>6, <2>1, <2>4, HeldStill
    <3>2. QED BY <1>9, <2>1, <2>4, <3>1
  <2>5. QED BY <2>3, <2>4
<1>14. ASSUME NEW o \in Modules, NEW s \in SetKeys
       PROVE  FitsSources(L2, Emplaced(o, s)', o, s)
  <2>1. FitsSources(L, Emplaced(o, s), o, s) /\ FitsSources(L, Emplaced(other, s), other, s)
    BY <1>1, <1>4 DEF HeldInv, FitsSources
  <2>2. CASE o = m
    <3>1. Emplaced(o, s)' = Emplaced(o, s) \o Emplaced(other, s)
      <4>1. CASE s \in DOMAIN sets[m] \cup DOMAIN sets[other]
        BY <1>9, <2>2, <4>1 DEF Merged, Emplaced
      <4>2. CASE s \notin DOMAIN sets[m] \cup DOMAIN sets[other]
        <5>1. Emplaced(o, s)' = <<>> /\ Emplaced(o, s) = <<>> /\ Emplaced(other, s) = <<>>
          BY <1>10, <2>2, <4>2 DEF Emplaced
        <5>2. <<>> \o <<>> = <<>>
          OBVIOUS
        <5>3. QED BY <5>1, <5>2
      <4>3. QED BY <4>1, <4>2
    <3>2. FitsSources(L2, Emplaced(o, s) \o Emplaced(other, s), o, s)
      BY <1>3, <1>6, <2>1, <2>2, HeldIncluded
    <3>3. QED BY <3>1, <3>2
  <2>3. CASE o # m
    <3>1. Emplaced(o, s)' = Emplaced(o, s)
      BY <1>9, <2>3 DEF Emplaced
    <3>2. FitsSources(L2, Emplaced(o, s), o, s)
      BY <1>3, <1>6, <2>1, <2>3, HeldStill
    <3>3. QED BY <3>1, <3>2
  <2>4. QED BY <2>2, <2>3
<1>15. HeldInv'
  BY <1>5, <1>12, <1>13, <1>14 DEF HeldInv, FitsBindings, FitsNames, FitsSources
<1>16. QED BY <1>11, <1>15 DEF Inv

LEMMA NextInv ==
    ASSUME Inv, [Next]_vars
    PROVE  Inv'
<1>1. TypeOK
  BY DEF Inv
<1>2. CASE UNCHANGED vars
  BY <1>2 DEF vars, Inv, TypeOK, HeldInv, Emplaced
<1>3. ASSUME NEW m \in Modules, NEW k \in Keys, ProvideEffect(m, k)
      PROVE  Inv'
  BY <1>3, ProvideInv
<1>4. ASSUME NEW m \in Modules, NEW s \in SetKeys, DeclareSet(m, s)
      PROVE  Inv'
  <2>1. PICK e : e = [op |-> "set", module |-> m, subject |-> <<s>>]
    OBVIOUS
  <2>2. e \in Entries /\ e.op = "set" /\ e.module = m /\ e.subject[1] = s
    BY <2>1 DEF Entries
  <2>3. Logged("set", m, <<s>>) /\ UNCHANGED bindings
    BY <1>4 DEF DeclareSet
  <2>4. Extended(log, e, log')
    BY <1>1, <2>1, <2>2, <2>3, LoggedFacts
  <2>5. PICK sources : sources = Emplaced(m, s)
    OBVIOUS
  <2>6. Put(m, s, sources)
    BY <1>4, <2>5 DEF DeclareSet
  <2>7. QED BY <2>2, <2>3, <2>4, <2>5, <2>6, DeclareInv
<1>5. ASSUME NEW m \in Modules, NEW s \in SetKeys, NEW k \in Keys, Add(m, s, k)
      PROVE  Inv'
  <2>1. PICK e : e = [op |-> "add", module |-> m, subject |-> <<s, k>>]
    OBVIOUS
  <2>2. /\ e \in Entries /\ e.op = "add" /\ e.module = m
        /\ e.subject[1] = s /\ e.subject[2] = k
    BY <2>1 DEF Entries
  <2>3. Logged("add", m, <<s, k>>) /\ UNCHANGED bindings
    BY <1>5 DEF Add
  <2>4. Extended(log, e, log')
    BY <1>1, <2>1, <2>2, <2>3, LoggedFacts
  <2>5. PICK sources : sources = Append(Emplaced(m, s), k)
    OBVIOUS
  <2>6. Put(m, s, sources)
    BY <1>5, <2>5 DEF Add
  <2>7. QED BY <2>2, <2>3, <2>4, <2>5, <2>6, DeclareInv
<1>6. ASSUME NEW m \in Modules, NEW other \in Modules, Include(m, other)
      PROVE  Inv'
  BY <1>6, IncludeInv
<1>7. QED BY <1>2, <1>3, <1>4, <1>5, <1>6 DEF Next

(* What every module holds, at every point of every log, is what the       *)
(* chains into it tell.                                                    *)
THEOREM ModulesHoldTheirChains == Spec => []Inv
<1>1. Init => Inv
  BY InitInv
<1>2. Inv /\ [Next]_vars => Inv'
  BY NextInv
<1>3. QED BY <1>1, <1>2, PTL DEF Spec

-----------------------------------------------------------------------------
(* What the chains tell is what the properties say.                        *)

LEMMA ChainsOfKinds ==
    ASSUME TypeOK, NEW m
    PROVE  /\ Of(m, "provide") = ChainsFrom(log, m, Provided(log))
           /\ Of(m, "set") \cup Of(m, "add") = ChainsFrom(log, m, Declared(log))
           /\ \A s : AddsTo(m, s) = ChainsFrom(log, m, Added(log, s))
<1>1. PICK n \in Nat : n = Len(log) /\ DOMAIN log = 1 .. n
  BY DEF TypeOK
<1>2. \A c \in SUBSET (1 .. n) : c # {} => Min(c) \in 1 .. n
  <2>1. ASSUME NEW c \in SUBSET (1 .. n), c # {}
        PROVE  Min(c) \in 1 .. n
    <3>1. c \in SUBSET Nat
      OBVIOUS
    <3>2. QED BY <2>1, <3>1, MinFacts
  <2>2. QED BY <2>1
<1>3. \A c : c \in ChainsInto(m) <=> c \in SUBSET (1 .. n) /\ IsChain(log, c, m)
  <2>1. ASSUME NEW c \in SUBSET (1 .. n), c # {}
        PROVE  c \in ChainsInto(m) <=> IsChain(log, c, m)
    <3>1. c \in (SUBSET DOMAIN log) \ {{}}
      BY <1>1, <2>1
    <3>2. QED BY <2>1, <3>1, Zenon DEF ChainsInto, IsChain, LinkedAt
  <2>2. ASSUME NEW c \in ChainsInto(m)
        PROVE  c \in SUBSET (1 .. n) /\ c # {}
    <3>1. c \in (SUBSET DOMAIN log) \ {{}}
      BY DEF ChainsInto
    <3>2. QED BY <1>1, <3>1
  <2>3. QED BY <2>1, <2>2 DEF IsChain
<1>4. \A c : c \in ChainsInto(m) => Min(c) \in 1 .. n
  BY <1>2, <1>3 DEF IsChain
<1>5. Of(m, "provide") = ChainsFrom(log, m, Provided(log))
  BY <1>1, <1>3, <1>4 DEF Of, ChainsFrom, Provided
<1>6. Of(m, "set") \cup Of(m, "add") = ChainsFrom(log, m, Declared(log))
  BY <1>1, <1>3, <1>4 DEF Of, ChainsFrom, Declared
<1>7. ASSUME NEW s
      PROVE  AddsTo(m, s) = ChainsFrom(log, m, Added(log, s))
  BY <1>1, <1>3, <1>4 DEF AddsTo, Of, ChainsFrom, Added
<1>8. QED BY <1>5, <1>6, <1>7

LEMMA SourcesInOrder ==
    ASSUME Inv, NEW m \in Modules, NEW s \in DOMAIN sets[m]
    PROVE  LET adds == Registrations(AddsTo(m, s))
           IN  /\ adds \in Seq(1 .. Len(log))
               /\ sets[m][s] = [i \in DOMAIN adds |-> log[adds[i]].subject[2]]
<1>1. TypeOK /\ HeldInv
  BY DEF Inv
<1>2. s \in SetKeys /\ Emplaced(m, s) = sets[m][s] /\ Len(log) \in Nat
  BY <1>1 DEF TypeOK, Emplaced
<1>3. PICK places : /\ Holds(log, m, Added(log, s), places)
                    /\ sets[m][s] = Along(Contributed(log), places)
  BY <1>1, <1>2 DEF HeldInv, Fits
<1>4. AddsTo(m, s) = ChainsFrom(log, m, Added(log, s))
  BY <1>1, ChainsOfKinds
<1>5. places \in Seq(Added(log, s)) /\ places = Registrations(AddsTo(m, s))
  BY <1>2, <1>3, <1>4, HoldsFacts
<1>6. places \in Seq(1 .. Len(log)) /\ DOMAIN places = 1 .. Len(places)
  BY <1>5 DEF Added
<1>7. Along(Contributed(log), places) = [i \in DOMAIN places |-> log[places[i]].subject[2]]
  BY <1>6 DEF Along, Contributed
<1>8. QED BY <1>3, <1>5, <1>6, <1>7, Zenon

LEMMA InvInOrder ==
    ASSUME Inv, NEW m \in Modules
    PROVE  /\ bindings[m] = LET provided == Registrations(Of(m, "provide"))
                            IN  [i \in DOMAIN provided |->
                                    [key |-> log[provided[i]].subject, provider |-> provided[i]]]
           /\ DOMAIN sets[m] = {log[Min(c)].subject[1] : c \in Of(m, "set") \cup Of(m, "add")}
           /\ \A s \in DOMAIN sets[m] :
                 LET adds == Registrations(AddsTo(m, s))
                 IN  sets[m][s] = [i \in DOMAIN adds |-> log[adds[i]].subject[2]]
<1>1. TypeOK /\ HeldInv
  BY DEF Inv
<1>2. Len(log) \in Nat
  BY <1>1 DEF TypeOK
<1>3. bindings[m] = LET provided == Registrations(Of(m, "provide"))
                    IN  [i \in DOMAIN provided |->
                            [key |-> log[provided[i]].subject, provider |-> provided[i]]]
  <2>1. PICK places : /\ Holds(log, m, Provided(log), places)
                      /\ bindings[m] = Along(Bound(log), places)
    BY <1>1 DEF HeldInv, Fits
  <2>2. /\ places \in Seq(Provided(log))
        /\ places = Registrations(Of(m, "provide"))
    BY <1>1, <1>2, <2>1, HoldsFacts, ChainsOfKinds
  <2>3. /\ DOMAIN places = 1 .. Len(places)
        /\ \A i \in 1 .. Len(places) : places[i] \in 1 .. Len(log)
    BY <2>2 DEF Provided
  <2>4. Along(Bound(log), places) =
           [i \in DOMAIN places |-> [key |-> log[places[i]].subject, provider |-> places[i]]]
    BY <2>3 DEF Along, Bound
  <2>5. QED BY <2>1, <2>2, <2>4, Zenon
<1>4. DOMAIN sets[m] = {log[Min(c)].subject[1] : c \in Of(m, "set") \cup Of(m, "add")}
  <2>1. PICK names : /\ Fits(log, names, m, Declared(log), Named(log))
                     /\ DOMAIN sets[m] = ToSet(names)
    BY <1>1 DEF HeldInv
  <2>2. PICK places : /\ Holds(log, m, Declared(log), places)
                      /\ names = Along(Named(log), places)
    BY <2>1 DEF Fits
  <2>3. PICK C : C = Of(m, "set") \cup Of(m, "add")
    OBVIOUS
  <2>4. /\ places \in Seq(Declared(log))
        /\ \A c \in C : \E i \in 1 .. Len(places) : Min(c) = places[i]
        /\ \A i \in 1 .. Len(places) : \E c \in C : places[i] = Min(c)
    <3>1. C = ChainsFrom(log, m, Declared(log))
      BY <1>1, <2>3, ChainsOfKinds
    <3>2. Holds(log, m, Declared(log), places)
      BY <2>2
    <3>3. /\ places \in Seq(Declared(log))
          /\ \A c \in ChainsFrom(log, m, Declared(log)) :
                \E i \in 1 .. Len(places) : Min(c) = places[i]
          /\ \A i \in 1 .. Len(places) :
                \E c \in ChainsFrom(log, m, Declared(log)) : places[i] = Min(c)
      BY <1>2, <3>2, HoldsFacts
    <3>4. QED BY <3>1, <3>3
  <2>5. \A i \in 1 .. Len(places) : places[i] \in 1 .. Len(log)
    BY <2>4 DEF Declared
  <2>6. names = [i \in 1 .. Len(places) |-> log[places[i]].subject[1]]
    BY <2>2, <2>5 DEF Along, Named
  <2>7. ToSet(names) = {log[places[i]].subject[1] : i \in 1 .. Len(places)}
    BY <2>6 DEF ToSet
  <2>8. ASSUME NEW x
        PROVE  x \in ToSet(names) <=> x \in {log[Min(c)].subject[1] : c \in C}
    <3>1. ASSUME NEW i \in 1 .. Len(places), x = log[places[i]].subject[1]
          PROVE  x \in {log[Min(c)].subject[1] : c \in C}
      <4>1. PICK c \in C : places[i] = Min(c)
        BY <2>4
      <4>2. QED BY <3>1, <4>1
    <3>2. ASSUME NEW c \in C, x = log[Min(c)].subject[1]
          PROVE  x \in ToSet(names)
      <4>1. PICK i \in 1 .. Len(places) : Min(c) = places[i]
        BY <2>4
      <4>2. QED BY <2>7, <3>2, <4>1
    <3>3. QED BY <2>7, <3>1, <3>2
  <2>9. QED BY <2>1, <2>3, <2>8
<1>5. ASSUME NEW s \in DOMAIN sets[m]
      PROVE  LET adds == Registrations(AddsTo(m, s))
             IN  sets[m][s] = [i \in DOMAIN adds |-> log[adds[i]].subject[2]]
  BY SourcesInOrder
<1>6. QED BY <1>3, <1>4, <1>5, Zenon

(* A module holds each registration once for every chain of inclusions     *)
(* that brought it there, in the order of the outermost calls: provide_    *)
(* effect, set, add_set_element and include only ever keep it so.          *)
THEOREM RegistrationsKeepOrder == Spec => []RegisteredInOrder
<1>1. Inv => RegisteredInOrder
  BY InvInOrder, Zenon DEF RegisteredInOrder
<1>2. QED BY <1>1, ModulesHoldTheirChains, PTL

LEMMA InvEachOnce ==
    ASSUME Inv, NEW m \in Modules, NEW s \in DOMAIN sets[m]
    PROVE  LET adds == Registrations(AddsTo(m, s))
               added == [i \in DOMAIN adds |-> object[log[adds[i]].subject[2]]]
               First(o) == Min({i \in DOMAIN added : added[i] = o})
               values == Assembled(m, s)
           IN  /\ ToSet(values) = ToSet(added)
               /\ \A i, j \in DOMAIN values : i < j => First(values[i]) < First(values[j])
<1> DEFINE adds == Registrations(AddsTo(m, s))
           added == [i \in DOMAIN adds |-> object[log[adds[i]].subject[2]]]
           values == Assembled(m, s)
<1>2. /\ adds \in Seq(1 .. Len(log))
      /\ sets[m][s] = [i \in DOMAIN adds |-> log[adds[i]].subject[2]]
  BY SourcesInOrder
<1>3. added = [i \in DOMAIN adds |-> object[log[adds[i]].subject[2]]]
  OBVIOUS
<1>6. values = Assembled(m, s)
  OBVIOUS
<1> HIDE DEF adds, added, values
<1>4. [i \in DOMAIN sets[m][s] |-> object[sets[m][s][i]]] = added
  BY <1>2, <1>3
<1>5. PICK S : added \in Seq(S)
  <2>1. PICK n \in Nat : DOMAIN adds = 1 .. n
    BY <1>2
  <2>2. PICK T : T = {added[i] : i \in 1 .. n}
    OBVIOUS
  <2>3. added \in Seq(T)
    BY <1>3, <2>1, <2>2
  <2>4. QED BY <2>3
<1>7. KeptOf(values, Len(added), added, S)
  BY <1>4, <1>5, <1>6, DistinctFacts, Zenon DEF Assembled
<1>8. /\ DOMAIN values = 1 .. Len(values) /\ DOMAIN added = 1 .. Len(added)
      /\ ToSet(values) = {values[i] : i \in DOMAIN values}
      /\ ToSet(added) = {added[i] : i \in DOMAIN added}
  BY <1>5, <1>7 DEF KeptOf, ToSet
<1>9. ToSet(values) = ToSet(added)
  BY <1>7, <1>8 DEF KeptOf
<1>10. ASSUME NEW i \in DOMAIN values, NEW j \in DOMAIN values, i < j
       PROVE  /\ Min({k \in DOMAIN added : added[k] = values[i]})
                    < Min({k \in DOMAIN added : added[k] = values[j]})
  <2>1. FirstOf(added, values[i]) < FirstOf(added, values[j])
    BY <1>7, <1>8, <1>10 DEF KeptOf
  <2>2. QED BY <2>1, Zenon DEF FirstOf
<1> USE DEF adds, added, values
<1>11. QED BY <1>9, <1>10, Zenon

(* However often a contribution arrives, the Set assembled from it has its *)
(* service once, where its first contribution is (Set's constructor).      *)
THEOREM SetsAreDistinct == Spec => []SetsHoldEachOnce
<1>1. Inv => SetsHoldEachOnce
  BY InvEachOnce, Zenon DEF SetsHoldEachOnce
<1>2. QED BY <1>1, ModulesHoldTheirChains, PTL

=============================================================================
