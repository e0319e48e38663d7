# A verification project for mini: BIO, DI and do-notation in C++

The library (`include/mini`, header-only C++23) has two cores. One is the
effect runtime: reference-counted descriptions of effects, a trampoline that
evaluates them, and do-notation, coroutines that the trampoline drives. The
other is staged dependency injection: modules are filled, a planner turns one
into an ordered plan, and the execution of a plan builds a graph of services.
Around them are the dictionaries, with a second interpretation of the same
programs on `std::expected`, and the resolution of capabilities by the compiler.

The modules here model these parts. TLC checks them on small instances; TLAPS
proves the safety of every modelled part for every instance, that planner and
driver implement abstract contracts, and that the evaluator computes the
recursive meaning of every program.

## Inventory

| Component | State | Operations | Works with |
|---|---|---|---|
| `detail::NodePtr`, `Node` (`io.hpp:66-117`) | pointer per handle, atomic count and `source` edge per node | construct, copy, move, assign, destroy | every `IO` value; used from several threads |
| `detail::evaluate` (`io.hpp:119-157`) | `current`, vector of pending continuations, outcome | one instruction, or one continuation, per turn of the loop | callbacks of the combinators |
| `IO` combinators, `run_exit` (`io.hpp:161-339`) | none: each wraps a node | pure, fail, defer, sync, suspend, flat_map, map, bimap, catch_all, ensuring, bracket, run_exit, unsafe_run | evaluator, handles |
| `detail::Value` (`type.hpp`) | a type tag and a shared pointer, immutable | of, get | outcomes, services |
| dictionaries, `traverse` (`bio.hpp`) | none | pure, fail, flat_map, bimap, catch_all, for `IO` and for `std::expected`; traverse over either | evaluator |
| `Do`, `DoState`, `Do2` (`do.hpp`) | coroutine frame; in its promise the pending step, the result or the defect; in the awaiter the value | start, resume, await, return | evaluator through `suspend` and `flat_map`; an enclosing finalizer |
| `di::Module` (`di.hpp:139-244`) | bindings in order, sets by key | provide_effect, provide, bind, instance, alias, set, add, include | planner (its input) |
| `di::Planner` (`di.hpp:334-467`) | choices, index, states, stack, order; all local to a call | plan | module, plan |
| `di::Plan`, `ObjectGraph` (`di.hpp:246-332`) | immutable steps; index and values of each graph | order, render, produce; get, lookup, insert, destroy | evaluator, providers |
| `di::Set` (`di.hpp:81-101`) | distinct pointers in order | construct, iterate | set providers |
| `ImplicitScope`, `bio(scope)` (`implicit.hpp`) | a tuple of bindings | can_summon, summon, provide; at compile time | dictionaries |
| examples, tests | - | - | - |

What is hard: the planner's explicit stack must agree with its state map and
its order; its errors must carry a path that is evidence; a plan must be
executable for `produce` not to throw. In the runtime, counters and pointers
are touched by several threads; exceptions come out of user code, out of user
copies and out of allocations, at points where a resource may already be
acquired; finalizers must run once and inside-out; release must not recurse.
In a run of a plan, a failure half way has to undo what was built, in reverse.
A coroutine may be resumed only at certain points, and its frame must outlive a
step that writes into it, yet be gone when the block is left.
`PROJECT.json` lists these hazards line by line.

What makes each part correct:

- handles: the count is the number of owners; nothing is used after deletion;
  nothing without an owner stays; a spine is reclaimed by a loop;
- evaluator: same outcome and same order of calls as the recursive reading of
  the program; scopes are closed once, inside-out, whatever throws; a defect
  is not recoverable;
- planner: one answer; a plan lists exactly what the roots need, dependencies
  first; an error names the right code and a path that proves it;
- execution: providers in plan order, once; lookups and inserts cannot fail;
  rollback complete and in reverse; graphs of different runs independent;
- do-notation: every execution has its own frame, hands its body each awaited
  value once, and stops at the first step that fails; locals die before what
  encloses the block runs;
- dictionaries: the eager interpretation on `std::expected` answers as the
  evaluator does; `traverse` keeps the order and stops;
- registration: a module holds what its calls and inclusions say, in order; a
  set has every service once;
- scopes: an override takes over what its key can answer, and nothing else.

## Modules

| Module | Models | State and actions |
|---|---|---|
| `PlanRequest` | a call's arguments and what the planner reads off them | `module`, `roots`, `activation` are the parameters of `plan`; `Consistent` is `valid`, `Active` is `active`, `Ambiguous`, `Missing`, `Dependencies` are `resolve` |
| `PlanContract` | what `plan` promises | `result`; one action `Answer` that picks any allowed result |
| `Planner` | `Planner::plan` | `states`, `stack`, `ordered` are the locals of that name, `nextRoot` the root loop's position, `pc` the phase; one action per early return and per turn of a loop |
| `PlanSearch` | the depth-first search that `plan` has to agree with | no state: `Search` gives what a recursion answers from a place, a path with a position and the steps so far; `AnswersAsRecursion` compares it with the answer of `Planner` |
| `PlannerProofs` | theorems on `Planner` and `PlanSearch` | |
| `MCPlanner` | requests for TLC | |
| `NodePtr` | `NodePtr`, `Node` | `ptr` is every place holding a pointer (a variable, a node's `source`, a destructor's local), `refs` the counter, `life` the allocation; each atomic operation, `exchange` and `delete` is an action |
| `NodePtrProofs` | theorems on `NodePtr` | |
| `MCNodePtr` | two threads, two variables each | |
| `Evaluator` | `evaluate`, combinators, `run_exit` | `current`, `continuations`, `outcome` are the locals, `capacity` what the vector's buffer surely holds, `trace` the calls made and scopes opened and closed; one action per kind of instruction and per kind of continuation |
| `EvaluatorProofs` | theorems on `Evaluator` | |
| `Denotation` | what a program means: a recursion over its tree | no state: `Denote` gives the outcome and the calls of a program, `MeaningPreserved` compares them with a state of `Evaluator` |
| `DenotationProofs` | theorems on `Evaluator`, `Denotation` and `Expected` | |
| `Expected` | the `std::expected` dictionaries and `traverse` | no state: `Eager` interprets a program of `Evaluator` as `bio.hpp:22-91` does, `Traverse` builds the program that `traverse_with` builds |
| `MCEvaluator` | all small programs and item lists | |
| `DoContract` | what a do block promises | `received`, `answer`; `Receive`, `Stop`, `End`, `Fault` |
| `DoDriver` | `Do`, its promise and awaiter, `DoState`, `resume_io_do`, the loop of `Do2<Result>` | `frames` are coroutines with their promise and awaiter, `task` an execution's `DoState`, `holders` what keeps it alive; `turn` is the place in the driver, with one action for each thing that can happen there |
| `DoDriverProofs` | theorems on `DoDriver` | |
| `MCDoDriver` | all small bodies | |
| `Provision` | `Plan::produce`, providers, `ObjectGraph` | `index`, `values` are the graph's members, `next` the step, `keeps` who holds whom; `CallProvider`, `Insert`, `Finish` for a step, `PopBack` for the destructor's loop |
| `ProvisionProofs` | theorems on `Provision` | |
| `MCProvision` | acyclic modules, one or two runs | |
| `DiModule` | `Module`'s operations, `Set`'s constructor | `bindings`, `sets` are the members of every module, `log` the calls made; one action per call |
| `DiModuleProofs` | theorems on `DiModule` | |
| `MCDiModule` | symmetry of modules | |
| `ImplicitScope` | `can_summon`, `summon`, `provide`, `bio(scope)` | `scope` is the list of bindings; `Resolution` is `summon` for every key, `Provider` what a capability of `bio(scope)` meets, `Performers` who performs an operation; one action, `Provide` |
| `ImplicitScopeProofs` | theorems on `ImplicitScope` | |
| `MCImplicitScope` | all registrations | |

Composition. `Planner` extends `PlanContract`, which extends `PlanRequest`; both
speak of the same request and result, so the refinement mapping is the
identity and `RefinesContract` is simply `ContractSpec`. `Provision` starts
from any plan that the contract allows. With the refinement this covers the
plans the planner makes, and `OnlyProvidersDefect` shows that the contract is
strong enough for `produce`. `DoDriver` implements `DoContract` through the
mapping `received <- [e |-> Frame(e).received]`, `answer <- outcome`: frames,
holders and turns are hidden, and the two drivers implement the same contract.
`Expected` extends `Denotation`, which extends `Evaluator`, so that one program
is given to the trampoline, to the recursion over its tree and to the eager
dictionaries.

Definitions marked "Mutant" are faulty variants of the definition that
follows. No specification uses them; putting one in the place of its original
breaks the property `PROJECT.json` names for it.

### Abstractions

- Keys, types and names are atoms. The planner only compares keys. The order
  in which `std::map` visits sets (it comes from `std::type_index`) is open.
- A tag list is the set of its points.
- A user callback is what it does: return, throw, or return an effect. A copy
  of a user value that throws counts as the callback that needed it throwing.
  `bracket`'s copies before the protected use exists are a case of their own
  (`protect`), and so is the copy of the final value in `run_exit`.
- Values, errors and exceptions carry the identity of the callback that made
  them, which is enough to see that the right one arrives.
- An action of the evaluator is one turn of its loop: it is sequential, and
  nothing else sees its locals. In `NodePtr` the atomics are sequentially
  consistent. There is one atomic per node; `acq_rel` on the decrement orders
  the deletion after every other owner's access, and a new owner is counted
  with a relaxed increment only while another owner is held.
- A `NodePtr` variable may be read by many threads but is not written while
  read (`Stable`); the library claims no more. The user's callbacks, and the
  nodes they capture, are outside the model, as the README of the library
  excludes them from its promise of iterative release.
- In `Provision` a service is an object that keeps its arguments or does not;
  objects are alive while some `shared_ptr` leads to them. A set is an object
  that keeps its elements.
- Memory that runs out is considered in the evaluator, in detail, and in
  `DoDriver`, where any failure of the runtime is the answer "fault".
- `DoDriver` assumes what the library demands of a supplied dictionary
  (`README.md:291-295`): it evaluates each step once and continues at most
  once. A step is how it ends. An exception at the await expression itself is
  one of the body. The check at `do.hpp:126`, for a coroutine that stopped with
  nothing in its promise, is not a step: what `AtTurn` of `DoDriverProofs` says
  of "inspect" is that it cannot fire. The trampoline appears as the thing that still holds a node
  while an enclosing continuation runs.
- In `Expected` an exception that leaves a dictionary of `std::expected` is
  written as the defect that it is for `IO`, so that answers can be compared.
- In `DiModule` a provider is the call that registered it, and tags are left
  out: registration copies them and decides nothing by them.
- In `ImplicitScope` the compiler's overload resolution is one function of the
  list of bindings. Keys are the capabilities of the library and one type class
  of a user with a dependent one (`Show<T>`, `Show<vector<T>>`), whose factory
  asks the same scope. `InstanceKey` renames the `std::expected` keys of four
  capabilities to those of `Result`; `Sync2` and `Bracket2` keep theirs, and no
  class is defined for them (`Complete`). `do_` needs a driver and, since the
  accessor is the dictionary it is driven with, `pure` and `flat_map` of the
  scope's family (`DoDictionaryFor`). A driver that a program registers is taken
  to demand the same, as it does when it hands the block on to the library's.
- `Effects`, a constant of `Evaluator`, is any set of programs closed under
  parts; it gives the types that `EvaluatorProofs` needs without a recursive
  definition of programs. `Height`, a constant of `Denotation`, says that
  programs are finite trees: a part is lower than the whole. A node of `io.hpp`
  is immutable and made from what it holds, so no program can contain itself.
  `MCEvaluator` builds both from the programs of a run.

## Runs

| Run | Instance | Question |
|---|---|---|
| `planner_graphs` | 3 keys; each unbound or bound with any list of at most 2 dependencies; any list of at most 2 roots | Is the traversal right on every shape of graph? |
| `planner_tags` | 2 keys, at most 2 bindings and up to 2 contributions, two axes, contradictory tags and activations | Are validation, gating, ambiguity and sets right? |
| `node_handles` | 2 threads, 4 variables, 3 nodes | Is the counting safe in every interleaving, and is everything reclaimed? |
| `evaluator` | 24,291 programs: two combinators along the spine, or one whose callback returns a one-combinator program, and traversals of at most 3 items | Does the loop compute the recursion? Do both interpretations agree? Does `traverse` keep the order? |
| `evaluator_faults` | the same programs; every allocation of the runtime and the final copy may fail, any number of times | What survives exhausted memory? |
| `lost_release` | one-combinator programs; the handler's allocation may fail | The first finding below |
| `do_driver` | 2 executions of a block with at most 2 awaits, every way for steps and body to end, both families, faults | Are frames used only when they may be, and is the contract kept? |
| `frame_outlives` | one execution on the trampoline | The second finding below |
| `provision` | 3 keys, bindings or sets, every mix of five provider behaviours, one run | Order, rollback and destruction |
| `provision_runs` | 2 keys, two runs interleaved | Independence of graphs |
| `registration` | 3 modules, 2 keys, a set, 4 calls | What is in a module after any sequence of calls? |
| `implicit_scope` | every chain of at most 3 `provide` calls, three families | What does an override change? |

Why the bounds are enough to be interesting. Three keys give self-loops,
two- and three-cycles, cycles below a tail, diamonds, duplicate dependencies
and a second root that reaches the first. The stack then holds up to three
frames. Two contributions and two bindings give every way of being ambiguous
or gated out. Three nodes give a spine whose release crosses two edges while
another thread holds its middle; each node is allocated once, and a freed
address is not reused. Two combinators nest every kind of scope in every other
and run every callback on every kind of outcome; the callback depth puts
brackets and recoveries inside the use of a bracket. Two runs suffice for one
to see the other's objects, and two executions for one to resume the other's
frame; two awaits give a first one, a later one, and a body that ends between.
Four calls on three modules make a diamond's worth of duplicates (register,
include twice, include the result), an inclusion before and after a
registration, and the same service under two keys. Three bindings give an
ambiguity and the exact registration that ends it.

TLC stops where the system stops (a call that has returned, a graph that has
been released), so deadlock checking is off.

### Fairness

`Planner` and `Evaluator` are single sequential calls: weak fairness of the
next-state relation says that the thread keeps running, and user callbacks
return, as the library requires for its own termination. In `NodePtr` only a
destructor that has begun is fair, thread by thread; no program is obliged to
make or drop handles. In `Provision` a run that has begun and a release that
has begun are fair; starting a run and dropping a graph are not. In `DoDriver`
an execution that has begun goes on, execution by execution, because its steps
and its finalizers return; nobody has to start one. `DiModule` and
`ImplicitScope` describe sequences of calls that nobody has to make, and have
no fairness.

### What the runs show

The planner's bookkeeping, its order and its answers hold on every request
considered; its answers are those of a recursive search, so that the first
error reported is the leftmost, deepest one. A contradictory tag is rejected
anywhere, before anything else; a missing key only where it is needed.

The evaluator agrees with the recursive meaning at every step, not only at the
end. `ScopesMatchFrames` holds even when the vector of continuations cannot
grow, for a reason the code does not state: the frame that will release a
bracket's resource is pushed right after the bracket's own frame was popped,
and a vector does not give memory back on `pop_back`. A variant that shrinks
the buffer loses the resource.

On programs that both can run, the eager dictionaries of `std::expected` give
the evaluator's answer after the same calls; `traverse` calls its step in order
and never after the first item that fails.

`do_driver` covers the interleavings of two executions of one description. A
frame is resumed only at its start or with a value stored, no execution sees
another's frame, and while a step is evaluated the awaiter it will write to is
alive. In every way out except a dictionary that throws, the body's locals are
gone when the block's answer is delivered.

`registration` compares each module with its log: one entry for each chain of
inclusions, ordered by the outermost call. Including a module twice duplicates
its bindings (the planner then reports an ambiguity), and a set's contributions
as well, which `Set` reduces to one. `implicit_scope` shows that an override
reaches exactly the requests its key can answer, and that an operation taken
over by a provider of another family is refused, not served by the ambient one.
`do_` goes with the monad: an override of `Monad2` by another family, or two
registrations that make `Monad2` ambiguous, take `do_` away although nothing
touches the driver. In a scope of `std::expected`, what was registered under
`Monad2<Result>` is found, and what was registered under `Sync2<Result>` is not.

`provision_runs` interleaves two runs of one description. Its mutants share
something between them (lookups that see the other run's graph, services stored
in both) and break nothing in a run on its own.

**Finding** (`lost_release`). The README promises that a bracket releases once
on success, declared failure, or a defect in use. `evaluate` makes the node of
a defect inside its `catch` block (`io.hpp:154`). If this allocation throws,
the exception leaves `evaluate`, the pending continuations are destroyed and
not resumed, and `run_exit` answers `Defect(bad_alloc)` while the resource
stays acquired. It takes a callback in the use that throws and an allocation
that fails in the handler, so exhausted memory is the way to get there.
`NothingStaysOpen` proves that this is the only way.

**Finding** (`frame_outlives`). `tests/do_test.cpp:160` says that "frame cleanup
precedes enclosing finalizers on defects". The test throws before any await and
at the first one, where this is so, and its guard counts the destruction of
locals. The run exhibits a body that awaits one success and then throws. A
block continues through `suspend([state]{...})` (`do.hpp:145`); while its thunk
runs, `current` holds the node. When the thunk throws, `evaluate` resumes the
enclosing continuation (`io.hpp:152`) before it assigns `current`, so that the
frame, with the parameters in it, is destroyed after the finalizer has run. The
locals of the body are gone by then (`CleanupInOrder`).

## Proofs

The eight modules named `...Proofs` prove, for all values of the constants:

- `Planner`: `TypeOK`, `StatesMatchStackAndOrder`, `StackIsDependencyPath`,
  `PassedIsComplete`, `OrderIsTopological`, `SeenIsNeeded` are invariants, and
  the planner refines `ContractSpec`;
- `PlanSearch`: `AnswersAsRecursion` is an invariant of `Planner`;
- `NodePtr`: `TypeOK`, `CountIsExact`, `NoDangling`, `LastOwnerIsAlone`,
  `DeleteFindsNoSource` are invariants, and `NoResurrection` holds of every
  step;
- `Evaluator`: `ScopesMatchFrames` is an invariant, `DefectIsFinal` holds of
  every step, `EveryScopeIsClosed` is an invariant whenever `Faults` does
  not contain "handler", and `NeverClosedTwice` is one whatever `Faults` is;
- `Denotation`: `MeaningPreserved` is an invariant, so that without faults
  `run_exit` answers what the recursion over the program answers, after the
  same calls;
- `Expected`: `InterpretersAgree` and `TraverseInOrder` are invariants, for
  programs and lists of items of any size;
- `DoDriver`: `FramesAreReady` and `CleanupInOrder` are invariants, and the
  driver refines `ContractSpec` of `DoContract`;
- `Provision`: `OnlyProvidersDefect`, `CalledInOrder`, `GraphServesPlan`,
  `DieInReverse`, `RollbackIsComplete` are invariants, and
  `ReleaseDoesNotCascade` holds of every step;
- `DiModule`: `RegisteredInOrder` and `SetsHoldEachOnce` are invariants;
- `ImplicitScope`: `OverridesAreLocal` and `OperationsKeepTheirPerformers` hold
  of every step, and `SyncIsRegistered`, stated with its proof, is an invariant;
- `StepsRunOut`, `LoopStepsRunOut`, `TurnsRunOut`, `RunStepsRunOut`: in
  `Planner`, `Evaluator`, every execution of `DoDriver` and every run of
  `Provision` each step lowers a natural number.

The assumptions are `RequestAssumption` (the requests are well typed; nothing
bounds or even makes finite the keys, modules or roots), for `PlanSearch` also
`SetsAssumption` (a module has finitely many sets: a recursion over infinitely
many keys would have no end to come back from) and `SlotsAssumption` (variables, nodes and threads are finitely many and different things). For
`Evaluator` they are `FaultsAssumption` and `EffectsAssumption` (programs are
well formed; nothing bounds their size, or makes them finite), for `DoDriver`
`BodiesAssumption` and `DriversAssumption`, and for `Provision`
`RunsAssumption` (the keys of a module are finitely many, and what was supplied
belongs to no run). `Denotation` adds `HeightAssumption` (programs are finite
trees, of any height), `Expected` adds `ItemsAssumption` (an item is one of the
four things a step can do), and `ImplicitScope` has `ScopeAssumption` (the
library's families and keys). `DiModule` assumes nothing: the modules, keys and sets may
be infinitely many, and the log is as long as it likes, `MaxOps` being any
bound or none.

Planner. The properties are not inductive one by one: that a completed key's
dependencies are complete needs to know that the cursor skipped nothing, which
needs the stack to be a path, which needs the state map to match the stack.
`IInv` is their conjunction, with the facts on the phase that a return leaves
behind. `PushPreserves` and `CompletePreserves` are the heart; `Descend` and
`StartRoot` both reduce to the former. For the refinement, `FailPathFacts` and
`CyclePathFacts` turn the stack invariant into evidence for an error, and
`FinishedPlan` shows that at the end the order is a closed set that holds the
roots, so it is all that is reachable and, by `SeenIsNeeded`, no more.

Search. `Search` is a recursive function, so it first has to be shown to exist:
a place has a rank, made of the resolvable keys not yet on its path and of the
positions it has left, that every call lowers, and `LeastNumber` on the rank
does the rest (`SearchEquation`). The invariant `RecursionKept` says that the
explicit stack is what the recursion has still to return to: `Awaits` takes the
frames from the innermost out, each going on where its cursor stands once the one
above has answered, and whatever `Search` comes to that way is what `Search`
comes to from `Start`. It speaks of every function that satisfies the equation,
which lets a step be a rewriting by that equation. A cycle is the case that
needs most: the state map says "visiting", the recursion looks for the key on
its path, and `StackIsDependencyPath` and `StatesMatchStackAndOrder` make these
the same. That the steps run out is counted apart: keys still to be opened or
emitted, each worth the widest list of dependencies, and what the innermost
cursor has not passed.

Handles. `IInv` counts owners: the counter of a node is the number of slots
that point to it, the pointers of running destructors included. It also says
what each thread in the middle of an operation knows: a copy in progress reads
a slot that still points to the node, so the count is positive; a thread that
is deleting has the only claim on a node whose count is zero. The lemmas
`OwnerAdded`, `OwnerRemoved`, `OwnerMoved`, `OwnersSwapped` and
`OwnerReplaced` say how
the number of owners follows an assignment.

Evaluator. `OpenScopes` is a recursion over the trace. Nothing can be proved
by induction over data here, so what is needed of it (`OneEvent`,
`OpenScopesType`) is derived from `LeastNumber`: the first place at which two
histories would differ, or leave their type, cannot exist. That the scopes
match the frames is not inductive. When the vector cannot grow, a scope whose
frame was about to be pushed is lost; the only such scope is that of a
bracket's release, and `PlaceForRelease` says that it has a place. A defect is
final because `DefectIsCurrent` says that what comes after one is its own
terminal. `Settled` states what an event has to do to the open scopes when the
innermost frame is popped; every kind of continuation is brought to it, and
`Continued` and `Unwound` do the rest. `ClosedAtMostOnce` counts instead of
matching: of each scope, as many were closed as were opened, less those still
open, and less at most the one that a lost frame left open, which ends the run.

Meaning. `Denote` is a recursive function, so it first has to be shown to
exist: `LeastNumber` on `Height` gives a meaning to all programs below each
height, and two such meanings agree. The invariant says that the meaning of the
whole is what has been called so far, followed by the meaning of `current`
passed through the pending frames, from the innermost out (`Pass`). A step that
takes a node apart (`PassFrame`) or answers a frame moves a part from one side
to the other; `PassAfter` moves calls out of the recursion over the frames.

Dictionaries and traversals. With `RunExitAnswersMeaning` what is left to show
is about `Denote` alone. Which programs are common is a recursion of its own;
`CommonEquation` shows that it exists as the largest set of programs of the
right shape that is closed under parts. `EagerStep` then compares one turn of
both recursions case by case: a frame that does not handle an outcome passes it
on, an exception passes everything, and an outcome is never anything else
(`CommonOutcomes`). `NoLowest` makes this a statement about whole programs. For
a traversal, `LoopEffects` finds the program of every turn of the loop among the
parts of the last one, `VisitMeaning` says what one item comes to, and
`TurnTraverses` adds it to what the items before came to.

Driver. `AtTurn` says for each place in the driver what the frame of the
execution looks like there: what is in its promise and its awaiter, and how far the body
has come; `FramesAreOwn` says that no frame
has two executions, so that a step of one leaves the frame of the others alone.
The steps that a contract sees are `Resume` (it receives), and the ones that
set `outcome`.

Provision. `Progress` ties the phase of a run to how much of the plan it has
called, `Filled` to what the index and the values hold, `Services` to what each
value refers to. `Origins` and `Handed` say where objects come from and who may
hold them, which is what keeps runs apart. That a dependency is always found
uses `DependenciesPrecede` of the plan, which the planner's refinement gives.
`DieInReverse` and `ReleaseDoesNotCascade` need that the objects some value
leads to (`LedToBy`, a least set, because a recursion could not be reasoned
about) are the ones before it in the plan.

Registration. What a module holds depends on what other modules held when they
were included, and nothing in the state says so: the log does. `HeldInv` says of
every module at once that its bindings, the names of its sets and each set's
contributions are what the chains into it tell, in order (`Fits`, `Holds`).
`ChainsGrow` says how the chains grow with the log: an operation starts a chain of
its own, and an inclusion extends every chain into the module it includes. The
new chains come after all old ones, in the order of the old ones they extend,
because `Before` looks at the latest difference (`BeforeExtended`). `SortedRanks`
turns a sorted list of chains into the numbering that `Registrations` uses.
`DistinctFacts` is the loop invariant of `Set`'s constructor.

Scopes. `CandidatesOfLonger` has the whole case analysis: with one more registration
the candidates for a key stay, gain it, or become it alone. `AnswerOfLonger` carries that to
the answer for a key, given what became of the answer for `Show`, on which a
factory may depend, and `ResolutionOfLonger` to all keys. `LocalAnswer` says
that an answer names a registration that is there, which stays where it is, and
`NewAnswer` that it stays, becomes the new one or is blocked. `ProviderOfLonger` draws
from these what becomes of one capability in a scope of some family, and
`PerformingOfLonger` what becomes of an operation that needs several. Outside
`IO`, `Sync2` and `Bracket2` have no defined class, so that only the exact key
answers (`AnsweredExactly`).

Ends. That a loop ends is liveness, but that its steps cannot go on for ever is
not: a natural number that every step lowers is an invariant and an action
property. `StepsLeft` of `Planner` is described above. In `DenotationProofs` a
program may take `Steps` of its height: twice what any lower program may take
and six more, because a node is made of two programs at most. A pending frame
may take what its callback's program takes and three steps more; a fault only
ever ends something early. `TurnsLeft` of `DoDriver` counts three turns for each value
that the body has still to receive, `StepsLeft` of `Provision` three steps for
each step of the plan that is left. The latter two belong to one execution or
run, and the theorems say that no other one moves them. What is left to liveness
is that an execution in the middle always has a step it can take, which needs
ENABLED.

Only model-checked: whatever is liveness (`Terminates`, `UnownedIsReclaimed`,
`RunsEnd`, `EveryRunAnswers`), which is out of the prover's reach.

## Not modelled, and why

- `Value`: the dynamic type check cannot be reached through the typed
  interface, and an immutable cell has no behaviour.
- The dictionaries of `IO`, `Bio`'s members and `unsafe_run` forward a call or
  translate an answer.
- Type-level rules (channel joins, concepts, the constraints that reject a
  program) are checked by the compiler.
- `render`, `describe`, messages: wording.
- Examples: they use the library and add no behaviour to it.
- A data race of user code, or a dictionary that breaks the single-shot rule:
  the library excludes them.

## What could follow

1. The balance of scopes for the whole of `Provision` and `DoDriver` run by
   `Evaluator`: today they meet it through the callbacks it calls and through
   the order in which continuations and nodes let go of what they hold.
2. Three threads on four nodes in `NodePtr`, beyond what a run of minutes can
   enumerate; the proofs cover them already.

