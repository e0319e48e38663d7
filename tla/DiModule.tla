------------------------------ MODULE DiModule ------------------------------
(***************************************************************************)
(* Registration (di.hpp): the operations that fill the modules a planner   *)
(* is given, inclusion among them, and the Set that a graph assembles from *)
(* a set's contributions.                                                  *)
(*                                                                         *)
(* A provider is the place in the log of the call that registered it.      *)
(* provide, bind, instance and alias all register through provide_effect.  *)
(* Tags are carried along and left out; the module is taken as all active. *)
(***************************************************************************)
EXTENDS SequencesExt

CONSTANTS
    Modules,    \* Module objects
    Keys,       \* keys of services
    SetKeys,    \* keys of sets
    Objects,    \* services; two keys name one when one is an alias
    MaxOps      \* bound on the operations of a behaviour

VARIABLES
    bindings,   \* bindings_ of each module
    sets,       \* sets_ of each module: the sources of each set
    object,     \* the service each key will resolve to
    log         \* the operations so far, in order

vars == <<bindings, sets, object, log>>

Init ==
    /\ bindings = [m \in Modules |-> <<>>]
    /\ sets = [m \in Modules |-> <<>>]
    /\ object \in [Keys -> Objects]
    /\ log = <<>>

Logged(op, m, subject) ==
    /\ Len(log) < MaxOps
    /\ log' = Append(log, [op |-> op, module |-> m, subject |-> subject])
    /\ UNCHANGED object

ProvideEffect(m, k) ==
    /\ Logged("provide", m, k)
    /\ bindings' = [bindings EXCEPT ![m] = Append(@, [key |-> k, provider |-> Len(log) + 1])]
    /\ UNCHANGED sets

(* The contributions registered so far; try_emplace leaves them as they are.*)
Emplaced(m, s) == IF s \in DOMAIN sets[m] THEN sets[m][s] ELSE <<>>

Put(m, s, sources) ==
    sets' = [sets EXCEPT ![m] =
                [z \in DOMAIN @ \cup {s} |-> IF z = s THEN sources ELSE @[z]]]

DeclareSet(m, s) ==
    /\ Logged("set", m, <<s>>)
    /\ Put(m, s, Emplaced(m, s))
    /\ UNCHANGED bindings

Add(m, s, k) ==
    /\ Logged("add", m, <<s, k>>)
    /\ Put(m, s, Append(Emplaced(m, s), k))
    /\ UNCHANGED bindings

(* Mutant: a set the module has already is left as it is.                  *)
MergedFirst(m, other) == sets[m] @@ sets[other]

(* sets_ after an inclusion: a set that is in both gets what other has,    *)
(* after what it had.                                                      *)
Merged(m, other) ==
    [s \in DOMAIN sets[m] \cup DOMAIN sets[other] |-> Emplaced(m, s) \o Emplaced(other, s)]

(* A module cannot include itself: that throws and changes nothing.        *)
Include(m, other) ==
    /\ m # other
    /\ Logged("include", m, other)
    /\ bindings' = [bindings EXCEPT ![m] = @ \o bindings[other]]
    /\ sets' = [sets EXCEPT ![m] = Merged(m, other)]

Next ==
    \E m \in Modules :
        \/ \E k \in Keys : ProvideEffect(m, k)
        \/ \E s \in SetKeys : DeclareSet(m, s)
        \/ \E s \in SetKeys, k \in Keys : Add(m, s, k)
        \/ \E other \in Modules : Include(m, other)

Spec == Init /\ [][Next]_vars

-----------------------------------------------------------------------------
(* Set<T>: its constructor drops what it has already.                      *)

(* Mutant: only neighbours are compared.                                   *)
KeepUnlessLast(kept, o) == IF kept # <<>> /\ Last(kept) = o THEN kept ELSE Append(kept, o)

KeepOnce(kept, o) == IF Contains(kept, o) THEN kept ELSE Append(kept, o)

(* values_ once the constructor has seen the elements.                     *)
Distinct(elements) ==
    LET kept[n \in 0 .. Len(elements)] ==
            IF n = 0 THEN <<>> ELSE KeepOnce(kept[n - 1], elements[n])
    IN  kept[Len(elements)]

(* values_ of the Set that m's set s becomes.                              *)
Assembled(m, s) == Distinct([i \in DOMAIN sets[m][s] |-> object[sets[m][s][i]]])

-----------------------------------------------------------------------------
(* Properties, against the log.  A chain is the way of one registration    *)
(* into a module: a set of places in the log, the first of them the        *)
(* registration and each later one an inclusion of the module before it.   *)

NextPlace(chain, t) == Min({u \in chain : u > t})

ChainsInto(m) ==
    {chain \in (SUBSET DOMAIN log) \ {{}} :
        /\ log[Min(chain)].op # "include"
        /\ log[Max(chain)].module = m
        /\ \A t \in chain \ {Max(chain)} :
              /\ log[NextPlace(chain, t)].op = "include"
              /\ log[NextPlace(chain, t)].subject = log[t].module}

(* The latest place where two chains differ tells which comes first.       *)
Before(c, d) == Max((c \cup d) \ (c \cap d)) \in d

(* The registrations of these chains: the first has no chain before it.    *)
Registrations(chains) ==
    [i \in 1 .. Cardinality(chains) |->
        Min(CHOOSE c \in chains : Cardinality({d \in chains \ {c} : Before(d, c)}) = i - 1)]

Of(m, op) == {chain \in ChainsInto(m) : log[Min(chain)].op = op}

AddsTo(m, s) == {chain \in Of(m, "add") : log[Min(chain)].subject[1] = s}

(* A module holds each registration once for every chain of inclusions     *)
(* that brought it there, at its place in the order of the outermost calls,*)
(* and nothing that was registered after the module it is in was included. *)
RegisteredInOrder ==
    \A m \in Modules :
        /\ bindings[m] = LET provided == Registrations(Of(m, "provide"))
                         IN  [i \in DOMAIN provided |->
                                 [key |-> log[provided[i]].subject, provider |-> provided[i]]]
        /\ DOMAIN sets[m] = {log[Min(c)].subject[1] : c \in Of(m, "set") \cup Of(m, "add")}
        /\ \A s \in DOMAIN sets[m] :
              LET adds == Registrations(AddsTo(m, s))
              IN  sets[m][s] = [i \in DOMAIN adds |-> log[adds[i]].subject[2]]

(* However often a contribution arrives, by repetition, by a diamond of    *)
(* inclusions or under an alias, the set has its service once, where its   *)
(* first contribution is.                                                  *)
SetsHoldEachOnce ==
    \A m \in Modules : \A s \in DOMAIN sets[m] :
        LET adds == Registrations(AddsTo(m, s))
            added == [i \in DOMAIN adds |-> object[log[adds[i]].subject[2]]]
            First(o) == Min({i \in DOMAIN added : added[i] = o})
            values == Assembled(m, s)
        IN  /\ ToSet(values) = ToSet(added)
            /\ \A i, j \in DOMAIN values : i < j => First(values[i]) < First(values[j])

=============================================================================
