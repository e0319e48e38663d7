------------------------ MODULE ImplicitScopeProofs ------------------------
(***************************************************************************)
(* ImplicitScope for scopes of any length and any registrations: an        *)
(* override changes what its key can answer, and nothing else.             *)
(***************************************************************************)
EXTENDS ImplicitScope, FiniteSetTheorems, TLAPS

(* The scope lists keys that a request may ask for.                        *)
TypeOK ==
    /\ family \in Families
    /\ scope \in Seq([key : Keys, family : {"IO", "Result"}])

-----------------------------------------------------------------------------
(* What a scope answers.                                                   *)

LEMMA OneCandidate ==
    ASSUME NEW n \in Nat, NEW C \in SUBSET (1 .. n)
    PROVE  /\ \A x : C = {x} => ChooseOne(C) = <<"local", x>>
           /\ (\A x : C # {x}) => ChooseOne(C) = <<"ambiguous">>
<1>1. IsFiniteSet(C)
  <2>1. IsFiniteSet(1 .. n)
    BY FS_Interval
  <2>2. QED BY <2>1, FS_Subset
<1>2. Cardinality(C) = 1 <=> \E x : C = {x}
  BY <1>1, FS_Singleton
<1>3. ASSUME NEW x, C = {x}
      PROVE  Min(C) = x
  <2>1. x \in Nat
    BY <1>3
  <2>2. QED BY <1>3, <2>1 DEF Min
<1>4. QED BY <1>2, <1>3 DEF ChooseOne

(* What is answered when nothing registered counts.                        *)
Factory(k, show) ==
    IF k = ShowVector
    THEN IF show[1] \in {"local", "ambient"} THEN <<"ambient", show>> ELSE <<"missing">>
    ELSE IF Complete(k) THEN <<"ambient">> ELSE <<"missing">>

Answer(s, k, show) ==
    IF Candidates(s, k) # {} THEN ChooseOne(Candidates(s, k)) ELSE Factory(k, show)

IsSummon(f, s) ==
    f = [k \in Keys |->
            IF Candidates(s, k) # {} THEN ChooseOne(Candidates(s, k))
            ELSE IF k = ShowVector
            THEN IF f[Show][1] \in {"local", "ambient"} THEN <<"ambient", f[Show]>>
                 ELSE <<"missing">>
            ELSE IF Complete(k) THEN <<"ambient">> ELSE <<"missing">>]

LEMMA ResolutionIs ==
    ASSUME NEW s
    PROVE  \A k \in Keys : Resolution(s)[k] = Answer(s, k, Resolution(s)[Show])
<1>1. Show \in Keys /\ Show # ShowVector
  BY DEF Keys, Show, ShowVector
<1>2. PICK show : show = Answer(s, Show, <<>>)
  OBVIOUS
<1>3. \A x : Answer(s, Show, x) = show
  BY <1>1, <1>2 DEF Answer, Factory
<1>4. PICK f : f = [k \in Keys |-> Answer(s, k, show)]
  OBVIOUS
<1>5. f[Show] = show
  BY <1>1, <1>3, <1>4
<1>6. f = [k \in Keys |-> Answer(s, k, f[Show])]
  BY <1>4, <1>5
<1>7. IsSummon(f, s)
  BY <1>6, Zenon DEF IsSummon, Answer, Factory
<1> DEFINE g == CHOOSE x : IsSummon(x, s)
<1>8. IsSummon(g, s)
  BY <1>7
<1>9. Resolution(s) = g
  BY Zenon DEF Resolution, IsSummon
<1> HIDE DEF g
<1>10. \A k \in Keys : g[k] = Answer(s, k, g[Show])
  BY <1>8 DEF IsSummon, Answer, Factory
<1>11. QED BY <1>9, <1>10

-----------------------------------------------------------------------------
(* One more registration.                                                  *)

(* s2 is the scope s with registration new.                                *)
Longer(s, new, s2) ==
    /\ s \in Seq([key : Keys, family : {"IO", "Result"}])
    /\ s2 \in Seq([key : Keys, family : {"IO", "Result"}])
    /\ s2 = Append(s, new)

LEMMA CandidatesOfLonger ==
    ASSUME NEW s, NEW new, NEW s2, Longer(s, new, s2), NEW k
    PROVE  /\ Candidates(s, k) \in SUBSET (1 .. Len(s))
           /\ Candidates(s2, k) \in SUBSET (1 .. Len(s2))
           /\ Len(s) \in Nat /\ Len(s2) = Len(s) + 1 /\ s2[Len(s2)] = new
           /\ \A i \in 1 .. Len(s) : s2[i] = s[i]
           /\ \/ Candidates(s2, k) = Candidates(s, k)
              \/ /\ Candidates(s2, k) = Candidates(s, k) \cup {Len(s2)}
                 /\ Provides(new.key, k)
              \/ Candidates(s2, k) = {Len(s2)} /\ new.key = k
           /\ Candidates(s, k) = {} /\ Provides(new.key, k) => Candidates(s2, k) = {Len(s2)}
<1>1. s \in Seq([key : Keys, family : {"IO", "Result"}]) /\ s2 = Append(s, new)
  BY DEF Longer
<1>2. s2 \in Seq([key : Keys, family : {"IO", "Result"}])
  BY DEF Longer
<1>3. PICK n \in Nat : n = Len(s)
  BY <1>1
<1>4. /\ Len(s2) = n + 1 /\ s2[n + 1] = new
      /\ \A i \in 1 .. n : s2[i] = s[i]
  BY <1>1, <1>2, <1>3
<1>5. DOMAIN s = 1 .. n /\ DOMAIN s2 = (1 .. n) \cup {n + 1} /\ n + 1 \notin 1 .. n
  BY <1>1, <1>2, <1>3, <1>4
<1>6. /\ Exact(s, k) \in SUBSET (1 .. n) /\ Compatible(s, k) \in SUBSET (1 .. n)
      /\ Exact(s, k) \subseteq Compatible(s, k)
  BY <1>5 DEF Exact, Compatible, Provides
<1>7. Exact(s2, k) = IF new.key = k THEN Exact(s, k) \cup {n + 1} ELSE Exact(s, k)
  BY <1>4, <1>5 DEF Exact
<1>8. Compatible(s2, k) =
         IF Provides(new.key, k) THEN Compatible(s, k) \cup {n + 1} ELSE Compatible(s, k)
  BY <1>4, <1>5 DEF Compatible
<1>9. new.key = k => Provides(new.key, k)
  BY DEF Provides
<1>10. \/ Candidates(s2, k) = Candidates(s, k)
       \/ Candidates(s2, k) = Candidates(s, k) \cup {n + 1} /\ Provides(new.key, k)
       \/ Candidates(s2, k) = {n + 1} /\ new.key = k
  BY <1>7, <1>8, <1>9 DEF Candidates
<1>11. Candidates(s, k) = {} /\ Provides(new.key, k) => Candidates(s2, k) = {n + 1}
  BY <1>6, <1>7, <1>8, <1>9 DEF Candidates
<1>12. Candidates(s, k) \in SUBSET (1 .. n)
  BY <1>6 DEF Candidates
<1>13. Candidates(s2, k) \in SUBSET (1 .. n + 1)
  BY <1>3, <1>10, <1>12
<1>14. QED BY <1>3, <1>4, <1>10, <1>11, <1>12, <1>13

LEMMA FactoryFacts ==
    ASSUME NEW k, NEW show
    PROVE  /\ Factory(k, show)[1] \in {"ambient", "missing"}
           /\ \A show2 : Factory(k, show2) # Factory(k, show) => k = ShowVector /\ show2 # show
BY DEF Factory

(* Key n was registered, and an answer went from was to is; it may change  *)
(* for a reason.                                                           *)
Overrides(was, is, n, key, k, reason) ==
    /\ was[1] = "ambient" /\ Provides(key, k) => is = <<"local", n>>
    /\ is # was =>
          /\ reason
          /\ was[1] = "local" => is[1] = "ambiguous" \/ key = k
          /\ was[1] = "ambiguous" => key = k /\ is = <<"local", n>>

(* What becomes of the answer for key k, as that for Show goes from show   *)
(* to show2.                                                               *)
LEMMA AnswerOfLonger ==
    ASSUME NEW s, NEW new, NEW s2, Longer(s, new, s2), NEW k, NEW show, NEW show2
    PROVE  Overrides(Answer(s, k, show), Answer(s2, k, show2), Len(s2), new.key, k,
                     Provides(new.key, k) \/ (k = ShowVector /\ show2 # show))
<1> DEFINE reason == Provides(new.key, k) \/ (k = ShowVector /\ show2 # show)
<1>a. PICK was : was = Answer(s, k, show)
  OBVIOUS
<1>b. PICK is : is = Answer(s2, k, show2)
  OBVIOUS
<1>c. PICK key : key = new.key
  OBVIOUS
<1>d. SUFFICES Overrides(was, is, Len(s2), key, k, reason)
  BY <1>a, <1>b, <1>c
<1>1. PICK C : C = Candidates(s, k)
  OBVIOUS
<1>2. PICK C2 : C2 = Candidates(s2, k)
  OBVIOUS
<1>3. PICK n \in Nat : n = Len(s2) /\ C \in SUBSET (1 .. n) /\ C2 \in SUBSET (1 .. n) /\ n \notin C
  <2>1. Len(s) \in Nat /\ Len(s2) = Len(s) + 1
    BY CandidatesOfLonger
  <2>2. C \in SUBSET (1 .. Len(s)) /\ C2 \in SUBSET (1 .. Len(s2))
    BY <1>1, <1>2, CandidatesOfLonger
  <2>3. QED BY <2>1, <2>2
<1>4. /\ \/ C2 = C
         \/ C2 = C \cup {n} /\ Provides(new.key, k)
         \/ C2 = {n} /\ new.key = k
      /\ C = {} /\ Provides(new.key, k) => C2 = {n}
  BY <1>1, <1>2, <1>3, CandidatesOfLonger
<1>5. /\ was = IF C # {} THEN ChooseOne(C) ELSE Factory(k, show)
      /\ is = IF C2 # {} THEN ChooseOne(C2) ELSE Factory(k, show2)
  BY <1>1, <1>2, <1>a, <1>b DEF Answer
<1>6. /\ \A x : C = {x} => ChooseOne(C) = <<"local", x>>
      /\ (\A x : C # {x}) => ChooseOne(C) = <<"ambiguous">>
      /\ \A x : C2 = {x} => ChooseOne(C2) = <<"local", x>>
      /\ (\A x : C2 # {x}) => ChooseOne(C2) = <<"ambiguous">>
  BY <1>3, OneCandidate
<1>7. C # {} => was[1] \in {"local", "ambiguous"}
  BY <1>5, <1>6
<1>8. key = k => Provides(key, k)
  BY DEF Provides
<1>9. CASE C2 = {n} /\ key = k
  <2>1. is = <<"local", n>>
    BY <1>5, <1>6, <1>9
  <2>2. reason /\ key = k
    BY <1>c, <1>8, <1>9
  <2>3. QED BY <1>3, <2>1, <2>2 DEF Overrides
<1>10. CASE C2 = C
  <2>1. CASE C # {}
    <3>1. is = was /\ was[1] # "ambient"
      BY <1>5, <1>7, <1>10, <2>1
    <3>2. QED BY <3>1 DEF Overrides
  <2>2. CASE C = {}
    <3>1. was = Factory(k, show) /\ is = Factory(k, show2)
      BY <1>5, <1>10, <2>2
    <3>2. was[1] \notin {"local", "ambiguous"} /\ (is # was => reason)
      BY <3>1, FactoryFacts
    <3>3. ~ Provides(key, k)
      BY <1>4, <1>10, <1>c, <2>2
    <3>4. QED BY <3>2, <3>3 DEF Overrides
  <2>3. QED BY <2>1, <2>2
<1>11. CASE C2 = C \cup {n} /\ Provides(key, k) /\ C = {}
  <2>1. is = <<"local", n>>
    BY <1>5, <1>6, <1>11
  <2>2. was[1] \notin {"local", "ambiguous"}
    <3>1. was = Factory(k, show)
      BY <1>5, <1>11
    <3>2. QED BY <3>1, FactoryFacts
  <2>3. reason
    BY <1>11, <1>c
  <2>4. QED BY <1>3, <2>1, <2>2, <2>3 DEF Overrides
<1>12. CASE C2 = C \cup {n} /\ Provides(key, k) /\ C # {}
  <2>1. \A x : C2 # {x}
    BY <1>3, <1>12
  <2>2. is = <<"ambiguous">> /\ is[1] = "ambiguous"
    BY <1>5, <1>6, <1>12, <2>1
  <2>3. was[1] = "ambiguous" => was = is
    BY <1>5, <1>6, <1>12, <2>2
  <2>4. reason /\ was[1] # "ambient"
    BY <1>7, <1>12, <1>c
  <2>5. QED BY <2>2, <2>3, <2>4 DEF Overrides
<1>13. QED BY <1>4, <1>9, <1>10, <1>11, <1>12, <1>c

(* OverridesAreLocal for one key.                                          *)
LEMMA ResolutionOfLonger ==
    ASSUME NEW s, NEW new, NEW s2, Longer(s, new, s2), NEW k \in Keys
    PROVE  Overrides(Resolution(s)[k], Resolution(s2)[k], Len(s2), new.key, k,
                     \E asked \in Asked(k) : Provides(new.key, asked))
<1>1. Show \in Keys /\ Show # ShowVector
  BY DEF Keys, Show, ShowVector
<1>2. PICK show : show = Resolution(s)[Show]
  OBVIOUS
<1>3. PICK show2 : show2 = Resolution(s2)[Show]
  OBVIOUS
<1>4. show = Answer(s, Show, show) /\ show2 = Answer(s2, Show, show2)
  BY <1>1, <1>2, <1>3, ResolutionIs
<1>5. show2 # show => Provides(new.key, Show)
  <2>1. Overrides(show, show2, Len(s2), new.key, Show,
                  Provides(new.key, Show) \/ (Show = ShowVector /\ show2 # show))
    BY <1>4, AnswerOfLonger
  <2>2. QED BY <1>1, <2>1 DEF Overrides
<1>6. Resolution(s)[k] = Answer(s, k, show) /\ Resolution(s2)[k] = Answer(s2, k, show2)
  BY <1>2, <1>3, ResolutionIs
<1>7. Overrides(Resolution(s)[k], Resolution(s2)[k], Len(s2), new.key, k,
                Provides(new.key, k) \/ (k = ShowVector /\ show2 # show))
  BY <1>6, AnswerOfLonger
<1>8. Provides(new.key, k) \/ (k = ShowVector /\ show2 # show) =>
         \E asked \in Asked(k) : Provides(new.key, asked)
  BY <1>5 DEF Asked
<1>9. QED BY <1>7, <1>8, Zenon DEF Overrides

-----------------------------------------------------------------------------
(* The properties of a step.                                               *)

LEMMA InitTypeOK == Init => TypeOK
BY DEF Init, TypeOK

LEMMA ProvideFacts ==
    ASSUME TypeOK, NEW registration \in Registered, Provide(registration)
    PROVE  TypeOK' /\ \E new : Longer(scope, new, scope')
<1>1. PICK new : new = [registration EXCEPT !.key = Normalized(@)]
  OBVIOUS
<1>2. new \in [key : Keys, family : {"IO", "Result"}]
  <2>1. registration \in [key : Keys \cup [family : {"expected"}, capability : Capabilities],
                          family : {"IO", "Result"}]
    BY ScopeAssumption
  <2>2. \A k \in Keys \cup [family : {"expected"}, capability : Capabilities] :
           Normalized(k) \in Keys
    BY DEF Keys, Normalized, Aliased, ErrorFirst, Show, ShowVector
  <2>3. QED BY <1>1, <2>1, <2>2
<1>3. scope' = Append(scope, new) /\ family' = family
  BY <1>1 DEF Provide
<1>4. scope' \in Seq([key : Keys, family : {"IO", "Result"}])
  BY <1>2, <1>3 DEF TypeOK
<1>5. Longer(scope, new, scope')
  BY <1>3, <1>4 DEF Longer, TypeOK
<1>6. QED BY <1>3, <1>4, <1>5 DEF TypeOK

LEMMA NextTypeOK ==
    ASSUME TypeOK, [Next]_vars
    PROVE  TypeOK'
<1>1. CASE UNCHANGED vars
  BY <1>1 DEF vars, TypeOK
<1>2. CASE Next
  BY <1>2, ProvideFacts DEF Next
<1>3. QED BY <1>1, <1>2

(* The family is one of the library's, and the scope lists what a request  *)
(* may ask for: provide gives the monad, bifunctor, error and do keys of   *)
(* std::expected their names of Result, and leaves its other two alone.    *)
THEOREM TypeCorrect == Spec => []TypeOK
BY InitTypeOK, NextTypeOK, PTL DEF Spec

(* An override takes over what its key can answer, and nothing else: a     *)
(* request answered by a registration becomes ambiguous unless the new key *)
(* is the one asked for, and only such a key ends an ambiguity.            *)
THEOREM Locality == Spec => OverridesAreLocal
<1>1. ASSUME TypeOK, Next, NEW k \in Keys
      PROVE  LET was == Resolution(scope)[k]
                 is == Resolution(scope')[k]
                 new == Len(scope')
                 key == scope'[new].key
             IN  /\ was[1] = "ambient" /\ Provides(key, k) => is = <<"local", new>>
                 /\ is # was =>
                       /\ \E asked \in Asked(k) : Provides(key, asked)
                       /\ was[1] = "local" => is[1] = "ambiguous" \/ key = k
                       /\ was[1] = "ambiguous" => key = k /\ is = <<"local", new>>
  <2>1. PICK new : Longer(scope, new, scope')
    BY <1>1, ProvideFacts DEF Next
  <2>2. scope'[Len(scope')] = new
    BY <2>1, CandidatesOfLonger
  <2>3. Overrides(Resolution(scope)[k], Resolution(scope')[k], Len(scope'),
                  scope'[Len(scope')].key, k,
                  \E asked \in Asked(k) : Provides(scope'[Len(scope')].key, asked))
    BY <2>1, <2>2, ResolutionOfLonger
  <2>4. QED BY <2>3 DEF Overrides
<1>2. TypeOK /\ [Next]_vars =>
         [\A k \in Keys :
             LET was == Resolution(scope)[k]
                 is == Resolution(scope')[k]
                 new == Len(scope')
                 key == scope'[new].key
             IN  /\ was[1] = "ambient" /\ Provides(key, k) => is = <<"local", new>>
                 /\ is # was =>
                       /\ \E asked \in Asked(k) : Provides(key, asked)
                       /\ was[1] = "local" => is[1] = "ambiguous" \/ key = k
                       /\ was[1] = "ambiguous" => key = k /\ is = <<"local", new>>]_vars
  BY <1>1, Zenon
<1>3. QED BY <1>2, TypeCorrect, PTL DEF Spec, OverridesAreLocal

-----------------------------------------------------------------------------
(* Operations.                                                             *)

LEMMA KeyOfType ==
    ASSUME TypeOK, NEW capability \in Capabilities
    PROVE  KeyOf(capability) \in Keys /\ KeyOf(capability) \notin {Show, ShowVector}
<1>1. family \in {"IO", "Result", "expected"}
  BY ScopeAssumption DEF TypeOK
<1>2. KeyOf(capability) \in [family : {"IO", "Result"}, capability : Capabilities]
                              \cup [family : {"expected"}, capability : Capabilities \ Aliased]
  BY <1>1 DEF KeyOf, Normalized, ErrorFirst
<1>3. QED BY <1>2 DEF Keys, Show, ShowVector

LEMMA RequiredType ==
    ASSUME NEW operation \in Operations
    PROVE  Required(operation) \subseteq Capabilities /\ Required(operation) # {}
BY DEF Operations, Required, Capabilities

(* A registration is found where the answer says.                          *)
LEMMA LocalAnswer ==
    ASSUME NEW s, s \in Seq([key : Keys, family : {"IO", "Result"}]),
           NEW k \in Keys, Resolution(s)[k][1] = "local"
    PROVE  Resolution(s)[k][2] \in 1 .. Len(s)
<1>1. PICK C : C = Candidates(s, k)
  OBVIOUS
<1>2. PICK n \in Nat : n = Len(s) /\ C \in SUBSET (1 .. n)
  BY <1>1 DEF Candidates, Exact, Compatible
<1>3. PICK answer : answer = Resolution(s)[k]
  OBVIOUS
<1>4. answer = IF C # {} THEN ChooseOne(C) ELSE Factory(k, Resolution(s)[Show])
  BY <1>1, <1>3, ResolutionIs DEF Answer
<1>5. answer[1] = "local"
  BY <1>3
<1>6. C # {} /\ answer = ChooseOne(C)
  BY <1>4, <1>5, FactoryFacts
<1>7. \E x : C = {x} /\ answer = <<"local", x>>
  <2>1. /\ \A x : C = {x} => ChooseOne(C) = <<"local", x>>
        /\ (\A x : C # {x}) => ChooseOne(C) = <<"ambiguous">>
    BY <1>2, OneCandidate
  <2>2. PICK x : C = {x}
    <3>1. SUFFICES ASSUME \A x : C # {x}
                   PROVE  FALSE
      OBVIOUS
    <3>2. answer = <<"ambiguous">> /\ <<"ambiguous">>[1] = "ambiguous"
      BY <1>6, <2>1, <3>1
    <3>3. QED BY <1>5, <3>2
  <2>3. QED BY <1>6, <2>1, <2>2
<1>8. answer[2] \in 1 .. n
  BY <1>2, <1>7
<1>9. QED BY <1>2, <1>3, <1>8

(* One more registration leaves an answer, gives it or blocks it.          *)
LEMMA NewAnswer ==
    ASSUME NEW s, NEW new, NEW s2, Longer(s, new, s2), NEW k \in Keys, k # ShowVector
    PROVE  LET was == Resolution(s)[k]
               is == Resolution(s2)[k]
           IN  is = was \/ is = <<"local", Len(s2)>> \/ is = <<"ambiguous">>
<1>1. PICK C : C = Candidates(s, k)
  OBVIOUS
<1>2. PICK C2 : C2 = Candidates(s2, k)
  OBVIOUS
<1>3. PICK n : n = Len(s2)
  OBVIOUS
<1>4. /\ C2 \in {C, C \cup {n}, {n}}
      /\ Len(s2) \in Nat /\ C2 \in SUBSET (1 .. Len(s2))
  BY <1>1, <1>2, <1>3, CandidatesOfLonger
<1>5. /\ \A x : C2 = {x} => ChooseOne(C2) = <<"local", x>>
      /\ (\A x : C2 # {x}) => ChooseOne(C2) = <<"ambiguous">>
  BY <1>4, OneCandidate
<1>6. PICK was : was = Resolution(s)[k]
  OBVIOUS
<1>7. PICK is : is = Resolution(s2)[k]
  OBVIOUS
<1>8. /\ was = IF C # {} THEN ChooseOne(C) ELSE Factory(k, {})
      /\ is = IF C2 # {} THEN ChooseOne(C2) ELSE Factory(k, {})
  BY <1>1, <1>2, <1>6, <1>7, ResolutionIs DEF Answer, Factory
<1>9. C2 = C => is = was
  BY <1>8
<1>10. (C2 = C \cup {n} \/ C2 = {n}) => is = ChooseOne(C2)
  BY <1>8
<1>11. (C2 = C \cup {n} \/ C2 = {n}) => (is = <<"local", n>> \/ is = <<"ambiguous">>)
  <2>1. ASSUME NEW x, C2 = {x}, n \in C2
        PROVE  x = n
    BY <2>1
  <2>2. QED BY <1>5, <1>10, <2>1
<1>12. QED BY <1>3, <1>4, <1>6, <1>7, <1>9, <1>11

(* What a capability meets that has this answer, in a scope of family f.   *)
ProviderOf(s, answer, f) ==
    IF answer[1] = "local" /\ s[answer[2]].family # f THEN <<"refused", answer[2]>> ELSE answer

(* What a capability meets goes from was to is with registration n, whose  *)
(* provider is of another family (refused) or not, and whose key can       *)
(* answer for the capability or not (answers).                             *)
Meets(was, is, n, refused, answers) ==
    /\ ~ answers => is = was
    /\ is # was =>
          \/ is[1] \notin {"local", "ambient"}
          \/ is = <<"local", n>> /\ ~ refused
    /\ was = <<"ambient">> /\ answers =>
          IF refused THEN is[1] \notin {"local", "ambient"} ELSE is = <<"local", n>>

LEMMA ProviderOfLonger ==
    ASSUME NEW s, NEW new, NEW s2, Longer(s, new, s2), NEW k \in Keys, k # ShowVector, NEW f
    PROVE  Meets(ProviderOf(s, Resolution(s)[k], f), ProviderOf(s2, Resolution(s2)[k], f),
                 Len(s2), new.family # f, Provides(new.key, k))
<1>1. PICK was : was = Resolution(s)[k]
  OBVIOUS
<1>2. PICK is : is = Resolution(s2)[k]
  OBVIOUS
<1>3. PICK n : n = Len(s2)
  OBVIOUS
<1>4. SUFFICES Meets(ProviderOf(s, was, f), ProviderOf(s2, is, f), n, new.family # f,
                     Provides(new.key, k))
  BY <1>1, <1>2, <1>3
<1>5. s2[n] = new /\ \A i \in 1 .. Len(s) : s2[i] = s[i]
  BY <1>3, CandidatesOfLonger
<1>6. Asked(k) = {k}
  BY DEF Asked
<1>7. Overrides(was, is, n, new.key, k, \E asked \in Asked(k) : Provides(new.key, asked))
  BY <1>1, <1>2, <1>3, ResolutionOfLonger
<1>8. /\ was[1] = "ambient" /\ Provides(new.key, k) => is = <<"local", n>>
      /\ is # was => Provides(new.key, k)
  BY <1>6, <1>7 DEF Overrides
<1>9. is = was \/ is = <<"local", n>> \/ is = <<"ambiguous">>
  BY <1>1, <1>2, <1>3, NewAnswer
<1>10. is = was => ProviderOf(s2, is, f) = ProviderOf(s, was, f)
  <2>1. was[1] = "local" => was[2] \in 1 .. Len(s)
    BY <1>1, LocalAnswer DEF Longer
  <2>2. QED BY <1>5, <2>1 DEF ProviderOf
<1>11. is = <<"local", n>> =>
          ProviderOf(s2, is, f) = IF new.family # f THEN <<"refused", n>> ELSE <<"local", n>>
  <2>1. <<"local", n>>[1] = "local" /\ <<"local", n>>[2] = n
    OBVIOUS
  <2>2. QED BY <1>5, <2>1 DEF ProviderOf
<1>12. is = <<"ambiguous">> => ProviderOf(s2, is, f) = <<"ambiguous">>
  BY DEF ProviderOf
<1>13. <<"refused", n>>[1] = "refused" /\ <<"ambiguous">>[1] = "ambiguous"
  OBVIOUS
<1>14. ProviderOf(s, was, f) = <<"ambient">> => was[1] = "ambient"
  <2>1. <<"refused", was[2]>>[1] = "refused" /\ <<"ambient">>[1] = "ambient"
    OBVIOUS
  <2>2. QED BY <2>1 DEF ProviderOf
<1>15. PICK p : p = ProviderOf(s, was, f)
  OBVIOUS
<1>16. PICK q : q = ProviderOf(s2, is, f)
  OBVIOUS
<1>17. /\ ~ Provides(new.key, k) => q = p
       /\ q # p => (q[1] \notin {"local", "ambient"} \/ (q = <<"local", n>> /\ ~ (new.family # f)))
  <2>1. CASE is = was
    <3>1. q = p
      BY <1>10, <1>15, <1>16, <2>1
    <3>2. QED BY <3>1
  <2>2. CASE is # was /\ is = <<"local", n>> /\ new.family # f
    <3>1. q = <<"refused", n>> /\ q[1] \notin {"local", "ambient"}
      BY <1>11, <1>13, <1>16, <2>2
    <3>2. QED BY <1>8, <2>2, <3>1
  <2>3. CASE is # was /\ is = <<"local", n>> /\ ~ (new.family # f)
    <3>1. q = <<"local", n>>
      BY <1>11, <1>16, <2>3
    <3>2. QED BY <1>8, <2>3, <3>1
  <2>4. CASE is # was /\ is = <<"ambiguous">>
    <3>1. q[1] \notin {"local", "ambient"}
      BY <1>12, <1>13, <1>16, <2>4
    <3>2. QED BY <1>8, <2>4, <3>1
  <2>5. QED BY <1>9, <2>1, <2>2, <2>3, <2>4
<1>18. p = <<"ambient">> /\ Provides(new.key, k) =>
          IF new.family # f THEN q[1] \notin {"local", "ambient"} ELSE q = <<"local", n>>
  BY <1>8, <1>11, <1>13, <1>14, <1>15, <1>16
<1>19. Meets(p, q, n, new.family # f, Provides(new.key, k))
  BY <1>17, <1>18, Zenon DEF Meets
<1>20. QED BY <1>15, <1>16, <1>19, Zenon

(* Who performs an operation that needs R, with p and q what each needed   *)
(* capability meets before and after the registration.                     *)
Performing(R, p) ==
    {<<needed, p[needed]>> : needed \in
        IF \A needed \in R : p[needed][1] \in {"local", "ambient"} THEN R ELSE {}}

(* PerformersKept, of these.                                               *)
Keeps(R, taken, p, q, n, refused) ==
    /\ taken = {} => Performing(R, q) = Performing(R, p)
    /\ refused => Performing(R, q) \in {Performing(R, p), {}}
    /\ Performing(R, p) = {<<needed, <<"ambient">>>> : needed \in R} =>
          Performing(R, q) =
             {<<needed, IF needed \in taken THEN <<"local", n>> ELSE <<"ambient">>>> :
                 needed \in IF taken # {} /\ refused THEN {} ELSE R}

LEMMA PerformingOfLonger ==
    ASSUME NEW R, R # {}, NEW taken \in SUBSET R, NEW p, NEW q, NEW n, NEW refused \in BOOLEAN,
           \A needed \in R : Meets(p[needed], q[needed], n, refused, needed \in taken)
    PROVE  Keeps(R, taken, p, q, n, refused)
<1>1. (\A needed \in R : q[needed] = p[needed]) => Performing(R, q) = Performing(R, p)
  BY DEF Performing
<1>2. (\E needed \in R : q[needed][1] \notin {"local", "ambient"}) => Performing(R, q) = {}
  BY DEF Performing
<1>3. taken = {} => Performing(R, q) = Performing(R, p)
  BY <1>1 DEF Meets
<1>4. refused => Performing(R, q) \in {Performing(R, p), {}}
  BY <1>1, <1>2 DEF Meets
<1>5. ASSUME Performing(R, p) = {<<needed, <<"ambient">>>> : needed \in R}
      PROVE  Performing(R, q) =
                {<<needed, IF needed \in taken THEN <<"local", n>> ELSE <<"ambient">>>> :
                    needed \in IF taken # {} /\ refused THEN {} ELSE R}
  <2>1. ASSUME NEW needed \in R
        PROVE  p[needed] = <<"ambient">>
    <3>1. <<needed, <<"ambient">>>> \in Performing(R, p)
      BY <1>5
    <3>2. PICK other \in R : <<needed, <<"ambient">>>> = <<other, p[other]>>
      BY <3>1 DEF Performing
    <3>3. QED BY <3>2
  <2>2. CASE taken # {} /\ refused
    BY <1>2, <2>1, <2>2 DEF Meets
  <2>3. CASE ~ (taken # {} /\ refused)
    <3>1. \A needed \in R :
             q[needed] = IF needed \in taken THEN <<"local", n>> ELSE <<"ambient">>
      BY <2>1, <2>3 DEF Meets
    <3>2. <<"local", n>>[1] = "local" /\ <<"ambient">>[1] = "ambient"
      OBVIOUS
    <3>3. \A needed \in R : q[needed][1] \in {"local", "ambient"}
      BY <3>1, <3>2
    <3>4. Performing(R, q) = {<<needed, q[needed]>> : needed \in R}
      BY <3>3 DEF Performing
    <3>5. QED BY <2>3, <3>1, <3>4
  <2>4. QED BY <2>2, <2>3
<1>6. QED BY <1>3, <1>4, <1>5, Zenon DEF Keeps

(* An operation keeps its performers unless the override's key can answer  *)
(* for one of them; an override of another family performs nothing; and a  *)
(* block is driven with the scope's own flat_map or not at all.            *)
THEOREM OperationsAreKept == Spec => OperationsKeepTheirPerformers
<1>1. ASSUME TypeOK, Next, NEW operation \in Operations
      PROVE  PerformersKept(operation)
  <2>1. PICK new : Longer(scope, new, scope')
    BY <1>1, ProvideFacts DEF Next
  <2>2. PICK R : R = Required(operation)
    OBVIOUS
  <2>3. R \subseteq Capabilities /\ R # {}
    BY <2>2, RequiredType
  <2>4. PICK s : s = scope
    OBVIOUS
  <2>5. PICK s2 : s2 = scope'
    OBVIOUS
  <2>6. PICK f : f = ErrorFirst(family)
    OBVIOUS
  <2>7. PICK n : n = Len(s2)
    OBVIOUS
  <2>8. PICK key : key = [needed \in R |-> KeyOf(needed)]
    OBVIOUS
  <2>9. Longer(s, new, s2)
    BY <2>1, <2>4, <2>5
  <2>10. s2[n] = new
    BY <2>7, <2>9, CandidatesOfLonger
  <2>11. PICK p : p = [needed \in R |-> ProviderOf(s, Resolution(s)[key[needed]], f)]
    OBVIOUS
  <2>12. PICK q : q = [needed \in R |-> ProviderOf(s2, Resolution(s2)[key[needed]], f)]
    OBVIOUS
  <2>13. PICK taken : taken = {needed \in R : Provides(new.key, key[needed])}
    OBVIOUS
  <2>14. PICK refused \in BOOLEAN : refused = (new.family # f)
    OBVIOUS
  <2>15. \A needed \in R : key[needed] = KeyOf(needed) /\ key[needed] \in Keys /\ key[needed] # ShowVector
    BY <1>1, <2>3, <2>8, KeyOfType
  <2>16. family' = family
    BY <1>1 DEF Next, Provide
  <2>17. /\ \A needed \in R : Provider(scope, needed) = p[needed]
         /\ \A needed \in R : Provider(scope', needed) = q[needed]
    BY <2>4, <2>5, <2>6, <2>11, <2>12, <2>15 DEF Provider, ProviderOf
  <2>18. /\ Performers(scope, operation) = Performing(R, p)
         /\ Performers(scope', operation) = Performing(R, q)
    BY <2>2, <2>17 DEF Performers, Performing
  <2>19. ASSUME NEW needed \in R
         PROVE  Meets(p[needed], q[needed], n, refused, needed \in taken)
    <3>1. PICK k \in Keys : k = key[needed] /\ k # ShowVector
      BY <2>15
    <3>2. Meets(ProviderOf(s, Resolution(s)[k], f), ProviderOf(s2, Resolution(s2)[k], f),
                Len(s2), new.family # f, Provides(new.key, k))
      BY <2>9, <3>1, ProviderOfLonger
    <3>3. /\ p[needed] = ProviderOf(s, Resolution(s)[k], f)
          /\ q[needed] = ProviderOf(s2, Resolution(s2)[k], f)
          /\ needed \in taken <=> Provides(new.key, k)
      BY <2>11, <2>12, <2>13, <3>1
    <3>4. QED BY <2>7, <2>14, <3>2, <3>3 DEF Meets
  <2>20. Keeps(R, taken, p, q, n, refused)
    <3>1. taken \in SUBSET R
      BY <2>13
    <3>2. QED BY <2>3, <2>14, <2>19, <3>1, PerformingOfLonger, Zenon
  <2>21. taken = {needed \in Required(operation) : Provides(scope'[Len(scope')].key, KeyOf(needed))}
    BY <2>2, <2>5, <2>7, <2>10, <2>13, <2>15
  <2>22. refused = (scope'[Len(scope')].family # ErrorFirst(family))
    BY <2>5, <2>6, <2>7, <2>10, <2>14
  <2>23. QED BY <2>2, <2>5, <2>7, <2>18, <2>20, <2>21, <2>22 DEF PerformersKept, Keeps
<1>2. ASSUME NEW s, Performers(s, "do_") # {}
      PROVE  /\ Performers(s, "flat_map") # {}
             /\ Performers(s, "flat_map") \subseteq Performers(s, "do_")
  <2>1. Required("do_") = {"Do2", "Monad2"} /\ Required("flat_map") = {"Monad2"}
    BY DEF Required
  <2>2. \A needed \in {"Do2", "Monad2"} : Provider(s, needed)[1] \in {"local", "ambient"}
    <3>1. PICK performer : performer \in Performers(s, "do_")
      BY <1>2
    <3>2. \A needed \in Required("do_") : Provider(s, needed)[1] \in {"local", "ambient"}
      BY <3>1, Zenon DEF Performers
    <3>3. QED BY <2>1, <3>2
  <2>3. /\ Performers(s, "do_") = {<<needed, Provider(s, needed)>> : needed \in {"Do2", "Monad2"}}
        /\ Performers(s, "flat_map") = {<<needed, Provider(s, needed)>> : needed \in {"Monad2"}}
    BY <2>1, <2>2 DEF Performers
  <2>4. QED BY <2>3
<1>3. TypeOK /\ [Next]_vars =>
         [/\ \A operation \in Operations : PerformersKept(operation)
          /\ Performers(scope', "do_") # {} =>
                Performers(scope', "flat_map") # {}
                   /\ Performers(scope', "flat_map") \subseteq Performers(scope', "do_")]_vars
  BY <1>1, <1>2, Zenon
<1>4. QED BY <1>3, TypeCorrect, PTL DEF Spec, OperationsKeepTheirPerformers

-----------------------------------------------------------------------------
(* Sync2 and Bracket2.                                                     *)

(* Outside IO, what needs Sync2 or Bracket2 is performed by a registration *)
(* under that capability of the scope's own family, and by nothing else:   *)
(* no factory, no stronger key, and not the key of Result for expected.    *)
SyncIsRegistered ==
    family # "IO" =>
        \A operation \in {"sync", "suspend", "attempt", "bracket"} :
            \A performer \in Performers(scope, operation) :
                \E i \in DOMAIN scope :
                    /\ performer[2] = <<"local", i>>
                    /\ scope[i].key = [family |-> family, capability |-> performer[1]]

LEMMA AnsweredExactly ==
    ASSUME NEW s \in Seq([key : Keys, family : {"IO", "Result"}]),
           NEW k \in Keys, ~ Complete(k), k # ShowVector,
           Resolution(s)[k][1] \in {"local", "ambient"}
    PROVE  \E i \in DOMAIN s : Resolution(s)[k] = <<"local", i>> /\ s[i].key = k
<1>1. PICK C : C = Candidates(s, k)
  OBVIOUS
<1>2. C = Exact(s, k)
  BY <1>1 DEF Candidates, Exact, Compatible, Provides
<1>3. PICK n \in Nat : DOMAIN s = 1 .. n
  OBVIOUS
<1>4. C \in SUBSET (1 .. n)
  BY <1>2, <1>3 DEF Exact
<1>5. PICK answer : answer = Resolution(s)[k]
  OBVIOUS
<1>6. answer[1] \in {"local", "ambient"}
  BY <1>5
<1>7. answer = IF C # {} THEN ChooseOne(C) ELSE Factory(k, Resolution(s)[Show])
  BY <1>1, <1>5, ResolutionIs DEF Answer
<1>8. C # {} /\ answer = ChooseOne(C)
  <2>1. Factory(k, Resolution(s)[Show]) = <<"missing">>
    BY DEF Factory
  <2>2. <<"missing">>[1] = "missing"
    OBVIOUS
  <2>3. QED BY <1>7, <1>6, <2>1, <2>2
<1>9. PICK x : C = {x}
  <2>1. SUFFICES ASSUME \A x : C # {x}
                 PROVE  FALSE
    OBVIOUS
  <2>2. answer = <<"ambiguous">> /\ <<"ambiguous">>[1] = "ambiguous"
    BY <1>4, <1>8, <2>1, OneCandidate
  <2>3. QED BY <1>6, <2>2
<1>10. answer = <<"local", x>>
  BY <1>4, <1>8, <1>9, OneCandidate
<1>11. x \in DOMAIN s /\ s[x].key = k
  BY <1>2, <1>9 DEF Exact
<1>12. QED BY <1>5, <1>10, <1>11

(* Scopes of Result and of std::expected have Sync2 and Bracket2 exactly   *)
(* where one was registered for that very family.                          *)
THEOREM SyncOnlyAsRegistered == Spec => []SyncIsRegistered
<1>1. TypeOK => SyncIsRegistered
  <2>1. SUFFICES ASSUME TypeOK, family # "IO",
                        NEW operation \in {"sync", "suspend", "attempt", "bracket"},
                        NEW performer \in Performers(scope, operation)
                 PROVE  \E i \in DOMAIN scope :
                           /\ performer[2] = <<"local", i>>
                           /\ scope[i].key = [family |-> family, capability |-> performer[1]]
    BY DEF SyncIsRegistered
  <2>2. PICK capability \in {"Sync2", "Bracket2"} : Required(operation) = {capability}
    BY DEF Required
  <2>3. /\ performer = <<capability, Provider(scope, capability)>>
        /\ Provider(scope, capability)[1] \in {"local", "ambient"}
    BY <2>2 DEF Performers
  <2>4. family \in {"Result", "expected"}
    BY <2>1, ScopeAssumption DEF TypeOK
  <2>5. PICK k : k = KeyOf(capability)
    OBVIOUS
  <2>6. k = [family |-> family, capability |-> capability]
    BY <2>5 DEF KeyOf, Normalized, Aliased
  <2>7. k \in Keys /\ ~ Complete(k) /\ k # ShowVector
    BY <2>4, <2>6 DEF Keys, Capabilities, Aliased, Complete, ShowVector
  <2>8. PICK answer : answer = Resolution(scope)[k]
    OBVIOUS
  <2>9. Provider(scope, capability) = answer /\ answer[1] \in {"local", "ambient"}
    <3>1. PICK refused : refused = <<"refused", answer[2]>>
      OBVIOUS
    <3>2. refused[1] = "refused"
      BY <3>1
    <3>3. Provider(scope, capability) \in {answer, refused}
      BY <2>5, <2>8, <3>1 DEF Provider
    <3>4. QED BY <2>3, <3>2, <3>3
  <2>10. PICK i \in DOMAIN scope : answer = <<"local", i>> /\ scope[i].key = k
    <3>1. scope \in Seq([key : Keys, family : {"IO", "Result"}])
      BY <2>1 DEF TypeOK
    <3>2. PICK s : s = scope
      OBVIOUS
    <3>3. s \in Seq([key : Keys, family : {"IO", "Result"}])
      BY <3>1, <3>2
    <3>4. answer = Resolution(s)[k]
      BY <2>8, <3>2
    <3>5. \E i \in DOMAIN s : Resolution(s)[k] = <<"local", i>> /\ s[i].key = k
      BY <2>7, <2>9, <3>3, <3>4, AnsweredExactly
    <3>6. QED BY <3>2, <3>4, <3>5
  <2>11. performer[1] = capability /\ performer[2] = answer
    BY <2>3, <2>9
  <2>12. QED BY <2>6, <2>10, <2>11
<1>2. QED BY <1>1, TypeCorrect, PTL

=============================================================================
