---------------------------- MODULE ImplicitScope ----------------------------
(***************************************************************************)
(* Resolution of capabilities (implicit.hpp): an ImplicitScope is the list *)
(* of the registrations of a chain of provide calls, and what it answers   *)
(* to a request for a key is decided, by the compiler, from that list.     *)
(*                                                                         *)
(* A key is a capability of a family.  A registered value may be of        *)
(* another family than its key; an accessor then refuses its operations.   *)
(***************************************************************************)
EXTENDS SequencesExt

CONSTANTS
    Families,       \* families a scope may have, among IO, Result, expected
    Registered,     \* registrations a run considers: [key, family]
    MaxBindings     \* bound on the registrations of a scope

VARIABLES
    family,     \* the scope's Eff
    scope       \* its Bindings, in order

vars == <<family, scope>>

-----------------------------------------------------------------------------
(* The dictionaries and their inheritance (bio.hpp, do.hpp).               *)

Capabilities == {"Monad2", "Bifunctor2", "Error2", "Sync2", "Bracket2", "Do2"}

Bases(capability) ==
    CASE capability = "Error2" -> {"Monad2", "Bifunctor2"}
      [] capability = "Sync2" -> {"Error2", "Monad2", "Bifunctor2"}
      [] capability = "Bracket2" -> {"Sync2", "Error2", "Monad2", "Bifunctor2"}
      [] capability = "Do2" -> {"Error2", "Monad2", "Bifunctor2"}
      [] OTHER -> {}

(* Keys whose class is defined: only IO has Sync2 and Bracket2.            *)
Complete(k) == k.family = "IO" \/ k.capability \notin {"Sync2", "Bracket2"}

(* A type class of a user, and one derived from it: Show<T> and            *)
(* Show<vector<T>>, whose factory summons the former from the same scope.  *)
Show == [family |-> "user", capability |-> "Show"]

ShowVector == [family |-> "user", capability |-> "ShowVector"]

(* The capabilities whose key of std::expected is an alias of Result's.    *)
Aliased == {"Monad2", "Bifunctor2", "Error2", "Do2"}

Keys ==
    [family : {"IO", "Result"}, capability : Capabilities]
        \cup [family : {"expected"}, capability : Capabilities \ Aliased]
        \cup {Show, ShowVector}

(* The family of an effect: std::expected is Result with its types swapped.*)
ErrorFirst(f) == IF f = "expected" THEN "Result" ELSE f

(* A registered value is a dictionary of IO or of Result, with all that    *)
(* the library's dictionary of its key offers and demands.                 *)
ASSUME ScopeAssumption ==
    /\ Families \subseteq {"IO", "Result", "expected"}
    /\ Registered \subseteq
          [key : Keys \cup [family : {"expected"}, capability : Capabilities],
           family : {"IO", "Result"}]

(* InstanceKeyOf: Sync2 and Bracket2 of std::expected keep their own keys. *)
Normalized(k) ==
    IF k.capability \in Aliased THEN [k EXCEPT !.family = ErrorFirst(@)] ELSE k

Provides(provider, required) ==
    \/ provider = required
    \/ /\ provider.family = required.family
       /\ Complete(provider) /\ Complete(required)
       /\ required.capability \in Bases(provider.capability)

-----------------------------------------------------------------------------

Exact(s, k) == {i \in DOMAIN s : s[i].key = k}

Compatible(s, k) == {i \in DOMAIN s : Provides(s[i].key, k)}

(* The registrations that count for key k: the exact ones if there are any.*)
Candidates(s, k) == IF Exact(s, k) # {} THEN Exact(s, k) ELSE Compatible(s, k)

(* Mutant: the latest registration wins.                                   *)
ChooseLatest(candidates) == <<"local", Max(candidates)>>

(* Two candidates block each other.                                        *)
ChooseOne(candidates) ==
    IF Cardinality(candidates) = 1 THEN <<"local", Min(candidates)>> ELSE <<"ambiguous">>

(* can_summon and summon: a registration, else a factory found by ADL.     *)
Resolution(s) ==
    LET Summon[k \in Keys] ==
            IF Candidates(s, k) # {} THEN ChooseOne(Candidates(s, k))
            ELSE IF k = ShowVector
            THEN IF Summon[Show][1] \in {"local", "ambient"} THEN <<"ambient", Summon[Show]>>
                 ELSE <<"missing">>
            ELSE IF Complete(k) THEN <<"ambient">> ELSE <<"missing">>
    IN  Summon

-----------------------------------------------------------------------------
(* bio(scope): each operation summons what it needs, anew.                 *)

(* Mutant: a block is not checked for the pure and flat_map it is driven   *)
(* with.                                                                   *)
RequiredByDriver(operation) ==
    CASE operation = "do_" -> {"Do2"}
      [] operation \in {"pure", "flat_map", "map", "traverse"} -> {"Monad2"}
      [] operation \in {"bimap", "map_error"} -> {"Bifunctor2"}
      [] operation \in {"fail", "catch_all"} -> {"Error2"}
      [] operation \in {"sync", "suspend", "attempt"} -> {"Sync2"}
      [] operation = "bracket" -> {"Bracket2"}

(* A driver is given the accessor as its dictionary, and demands pure and  *)
(* flat_map of it (DoDictionaryFor).                                       *)
Required(operation) ==
    CASE operation = "do_" -> {"Do2", "Monad2"}
      [] operation \in {"pure", "flat_map", "map", "traverse"} -> {"Monad2"}
      [] operation \in {"bimap", "map_error"} -> {"Bifunctor2"}
      [] operation \in {"fail", "catch_all"} -> {"Error2"}
      [] operation \in {"sync", "suspend", "attempt"} -> {"Sync2"}
      [] operation = "bracket" -> {"Bracket2"}

Operations ==
    {"do_", "pure", "flat_map", "map", "traverse", "bimap", "map_error", "fail",
     "catch_all", "sync", "suspend", "attempt", "bracket"}

KeyOf(capability) == Normalized([family |-> family, capability |-> capability])

(* Mutant: a provider of another family is passed over.                    *)
ProviderElsewhere(s, capability) ==
    LET answer == Resolution(s)[KeyOf(capability)]
    IN  IF answer[1] = "local" /\ s[answer[2]].family # ErrorFirst(family)
        THEN <<"ambient">>
        ELSE answer

(* What a capability's operations meet.  A provider of another family is   *)
(* refused: its effects are not in the scope's family.                     *)
Provider(s, capability) ==
    LET answer == Resolution(s)[KeyOf(capability)]
    IN  IF answer[1] = "local" /\ s[answer[2]].family # ErrorFirst(family)
        THEN <<"refused", answer[2]>>
        ELSE answer

(* Who performs an operation, for each capability that it needs; nobody if *)
(* one of them is refused, ambiguous or missing.                           *)
Performers(s, operation) ==
    {<<capability, Provider(s, capability)>> : capability \in
        IF \A needed \in Required(operation) : Provider(s, needed)[1] \in {"local", "ambient"}
        THEN Required(operation)
        ELSE {}}

-----------------------------------------------------------------------------

Init == family \in Families /\ scope = <<>>

(* provide returns a longer scope; the program goes on with it.            *)
Provide(registration) ==
    /\ Len(scope) < MaxBindings
    /\ scope' = Append(scope, [registration EXCEPT !.key = Normalized(@)])
    /\ UNCHANGED family

Next == \E registration \in Registered : Provide(registration)

Spec == Init /\ [][Next]_vars

-----------------------------------------------------------------------------
(* Properties.                                                             *)

(* The keys a request may ask the scope for.                               *)
Asked(k) == IF k = ShowVector THEN {ShowVector, Show} ELSE {k}

(* A registration takes over every request its key can answer that only a  *)
(* factory answered before, and it changes no request its key cannot       *)
(* answer.  One that a registration answered can only become ambiguous,    *)
(* unless the new key is exactly the one asked for; and nothing but such a *)
(* key ends an ambiguity.                                                  *)
OverridesAreLocal ==
    [][\A k \in Keys :
          LET was == Resolution(scope)[k]
              is == Resolution(scope')[k]
              new == Len(scope')
              key == scope'[new].key
          IN  /\ was[1] = "ambient" /\ Provides(key, k) => is = <<"local", new>>
              /\ is # was =>
                    /\ \E asked \in Asked(k) : Provides(key, asked)
                    /\ was[1] = "local" => is[1] = "ambiguous" \/ key = k
                    /\ was[1] = "ambiguous" => key = k /\ is = <<"local", new>>
      ]_vars

(* What the registration of this step does to an operation.                *)
PerformersKept(operation) ==
    LET was == Performers(scope, operation)
        is == Performers(scope', operation)
        new == scope'[Len(scope')]
        taken == {needed \in Required(operation) : Provides(new.key, KeyOf(needed))}
        refused == new.family # ErrorFirst(family)
    IN  /\ taken = {} => is = was
        /\ refused => is \in {was, {}}
        /\ was = {<<needed, <<"ambient">>>> : needed \in Required(operation)} =>
              is = {<<needed, IF needed \in taken THEN <<"local", Len(scope')>> ELSE <<"ambient">>>> :
                       needed \in IF taken # {} /\ refused THEN {} ELSE Required(operation)}

(* An override leaves alone the operations that need nothing its key can   *)
(* answer.  One of another family takes operations away and performs none, *)
(* nor does anybody else then; one of the scope's family, in a scope where *)
(* factories performed an operation, takes its part of it.  And a block is *)
(* driven only where its binds are, by the performer of flat_map: a monad  *)
(* that is refused or ambiguous takes do_ away with it.                    *)
OperationsKeepTheirPerformers ==
    [][/\ \A operation \in Operations : PerformersKept(operation)
       /\ Performers(scope', "do_") # {} =>
             Performers(scope', "flat_map") # {}
                /\ Performers(scope', "flat_map") \subseteq Performers(scope', "do_")]_vars

=============================================================================
