------------------------------ MODULE Container ------------------------------
(***************************************************************************)
(* packages/lib_di: the container that builds the services of the server.  *)
(* instantiate() is given classes, each with the interface it implements   *)
(* and the interfaces it depends on, one by one or as a collection; it     *)
(* validates them, sorts them and constructs them one after the other.     *)
(*                                                                         *)
(* A class is its index in the arguments; an instance that was added to    *)
(* the container before is 0.  The recursion of the sort is a stack of     *)
(* calls: an action begins a call, ends one, or adds a class to the order. *)
(* What the code does and no property claims: the search for cycles        *)
(* follows only the first class of an interface, so that the sort recurses *)
(* without end into a cycle through the second; and after an error the     *)
(* instances built before it stay in the container.                        *)
(***************************************************************************)
EXTENDS Naturals, Sequences, FiniteSets, FiniteSetsExt, SequencesExt

CONSTANTS
  Interfaces,
  Applications   \* arguments of instantiate: sequences of [id, dependencies]

ASSUME ApplicationsAreClasses ==
  \A application \in Applications :
    /\ Len(application) \in Nat /\ DOMAIN application = 1..Len(application)
    /\ \A c \in DOMAIN application :
         LET dependencies == application[c].dependencies IN
         /\ application[c].id \in Interfaces
         /\ Len(dependencies) \in Nat /\ DOMAIN dependencies = 1..Len(dependencies)
         /\ \A k \in DOMAIN dependencies : dependencies[k].of \in Interfaces

VARIABLES
  classes,     \* the classes that are instantiated
  given,       \* interfaces of the instances added before
  startup,     \* validating, sorting, building, built, or how it failed
  calls,       \* of topologicalSort, the innermost last
  roots,       \* the next class that the sort is called for
  order,       \* sorted classes not yet built
  instances,   \* #instances
  arguments    \* history: [class -> what its constructor was given]

sortVars == <<calls, roots, order>>
containerVars == <<classes, given, startup, sortVars, instances, arguments>>

one(i) == [kind |-> "one", of |-> i]
all(i) == [kind |-> "all", of |-> i]

ContainerInit ==
  /\ classes \in Applications
  /\ given \in SUBSET Interfaces /\ startup = "validating"
  /\ calls = <<>> /\ roots = 1 /\ order = <<>>
  /\ instances = [i \in Interfaces |-> IF i \in given THEN <<0>> ELSE <<>>]
  /\ arguments = [c \in DOMAIN classes |-> <<>>]

implementing(i) == {c \in DOMAIN classes : classes[c].id = i}

-----------------------------------------------------------------------------
\* dependenciesArePresent: collections may be empty.
present(dep) == dep.kind = "all" \/ dep.of \in given \/ implementing(dep.of) # {}
dependenciesArePresent ==
  \A c \in DOMAIN classes : \A k \in DOMAIN classes[c].dependencies :
    present(classes[c].dependencies[k])

\* noCircularDependencies from interface i with the interfaces of inStack open:
\* "no", a cycle, or the assertion that finds neither a class nor an instance.
hasCircularDependency ==
  LET found[i \in Interfaces, inStack \in SUBSET Interfaces] ==
        LET step(answer, dep) == IF answer = "no" THEN found[dep.of, inStack \cup {i}] ELSE answer
        IN  IF i \in inStack THEN "circular"
            ELSE IF implementing(i) # {}
                 THEN FoldLeft(step, "no", classes[Min(implementing(i))].dependencies)
                 ELSE IF instances[i] # <<>> THEN "no" ELSE "dependency missing"
  IN  [i \in Interfaces |-> found[i, {}]]

noCircularDependencies ==
  FoldLeft(LAMBDA answer, c : IF answer = "no" THEN hasCircularDependency[c.id] ELSE answer,
           "no", classes)

\* instantiate up to the sort.
Validate ==
  /\ startup = "validating"
  /\ startup' = IF ~dependenciesArePresent THEN "unmet"
                ELSE IF noCircularDependencies = "no" THEN "sorting"
                ELSE IF noCircularDependencies = "circular" THEN "circular"
                ELSE "dependency missing"
  /\ UNCHANGED <<classes, given, sortVars, instances, arguments>>

-----------------------------------------------------------------------------
(* sortDependencies.                                                       *)

\* A call of topologicalSort for an interface: its classes that are not sorted yet, and
\* the next dependency of the first of them.
unprocessed(i) == implementing(i) \ ToSet(order)
callFor(i) == [of |-> i, todo |-> unprocessed(i), next |-> 1]

top == calls[Len(calls)]
outer == SubSeq(calls, 1, Len(calls) - 1)
currentClass == Min(top.todo)

\* Mutant: what is collected is not sorted before.
mandatoryOf(c) == SelectSeq(classes[c].dependencies, LAMBDA dep : dep.kind = "one")
sortedBefore(c) == classes[c].dependencies

SortFrom ==
  /\ startup = "sorting" /\ calls = <<>> /\ roots <= Len(classes)
  /\ calls' = <<callFor(classes[roots].id)>> /\ roots' = roots + 1
  /\ UNCHANGED <<classes, given, startup, order, instances, arguments>>

\* An interface that is reached again from one of its own classes, which is not
\* processed yet, is sorted again and again.
SortDependency ==
  /\ startup = "sorting" /\ calls # <<>> /\ top.todo # {}
  /\ top.next <= Len(sortedBefore(currentClass))
  /\ LET i == sortedBefore(currentClass)[top.next].of
     IN  IF \E p \in DOMAIN calls : calls[p].of = i
         THEN startup' = "stack overflow" /\ UNCHANGED calls
         ELSE /\ calls' = outer \o <<[top EXCEPT !.next = @ + 1], callFor(i)>>
              /\ UNCHANGED startup
  /\ UNCHANGED <<classes, given, roots, order, instances, arguments>>

SortClass ==
  /\ startup = "sorting" /\ calls # <<>> /\ top.todo # {}
  /\ top.next > Len(sortedBefore(currentClass))
  /\ order' = Append(order, currentClass)
  /\ calls' = outer \o <<[top EXCEPT !.todo = @ \ {currentClass}, !.next = 1]>>
  /\ UNCHANGED <<classes, given, startup, roots, instances, arguments>>

SortReturns ==
  /\ startup = "sorting" /\ calls # <<>> /\ top.todo = {}
  /\ calls' = outer
  /\ UNCHANGED <<classes, given, startup, roots, order, instances, arguments>>

SortEnds ==
  /\ startup = "sorting" /\ calls = <<>> /\ roots > Len(classes)
  /\ startup' = IF order = <<>> THEN "built" ELSE "building"
  /\ UNCHANGED <<classes, given, sortVars, instances, arguments>>

-----------------------------------------------------------------------------
(* The constructors.                                                       *)

resolvable(dep) == dep.kind = "all" \/ Len(instances[dep.of]) = 1

\* The first class of the order, with its arguments.
Build ==
  /\ startup = "building" /\ order # <<>>
  /\ LET c == Head(order)
         deps == classes[c].dependencies
     IN  /\ \A k \in DOMAIN deps : resolvable(deps[k])
         /\ arguments' = [arguments EXCEPT ![c] =
              [k \in DOMAIN deps |-> instances[deps[k].of]]]
         /\ instances' = [instances EXCEPT ![classes[c].id] = Append(@, c)]
         /\ order' = Tail(order)
         /\ startup' = IF order' = <<>> THEN "built" ELSE startup
  /\ UNCHANGED <<classes, given, calls, roots>>

\* One instance was expected and there are none or several.
Ambiguous ==
  /\ startup = "building" /\ order # <<>>
  /\ LET deps == classes[Head(order)].dependencies
     IN  \E k \in DOMAIN deps : ~resolvable(deps[k])
  /\ startup' = "ambiguous"
  /\ UNCHANGED <<classes, given, sortVars, instances, arguments>>

ContainerNext ==
  \/ Validate \/ SortFrom \/ SortDependency \/ SortClass \/ SortReturns \/ SortEnds
  \/ Build \/ Ambiguous

ContainerSpec == ContainerInit /\ [][ContainerNext]_containerVars

-----------------------------------------------------------------------------
Built == {c \in DOMAIN classes : \E k \in DOMAIN instances[classes[c].id] :
                                   instances[classes[c].id][k] = c}

\* Every class that was built got all that it depends on: the one instance of
\* an interface, and a collection with every instance that the call builds of
\* it; and a class is only missing from a built container that failed.
DependenciesComeFirst ==
  /\ \A c \in Built : \A k \in DOMAIN classes[c].dependencies :
       LET i == classes[c].dependencies[k].of
       IN  implementing(i) \subseteq ToSet(arguments[c][k])
  /\ \A c \in DOMAIN classes : startup = "built" => c \in Built
  /\ startup = "ambiguous" => \E i \in Interfaces :
       Cardinality(implementing(i)) + (IF i \in given THEN 1 ELSE 0) > 1

=============================================================================
