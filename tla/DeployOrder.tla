----------------------------- MODULE DeployOrder -----------------------------
(***************************************************************************)
(* The order in which a compose deploy starts its services: the            *)
(* depth-first search of topologicalSort, step by step.  The recursion is  *)
(* a path of nodes with, for each, the dependencies still to be visited;   *)
(* Go's random map iteration is the choice of the next one.                *)
(***************************************************************************)
EXTENDS Integers, Sequences

CONSTANT Names  \* names of services, declared in the compose file or not

VARIABLES services,  \* the services the compose file declares
          deps,      \* their depends_on
          roots,     \* services the loop over deps has still to visit
          path,      \* calls of visit in progress, outermost first
          todo,      \* for each node on the path, dependencies to visit
          inStack, visited,
          order,
          status     \* "running", "ok" or "circular"

composeFile == <<services, deps>>
vars == <<composeFile, roots, path, todo, inStack, visited, order, status>>

Top == path[Len(path)]

TypeOK == /\ services \subseteq Names
          /\ deps \in [Names -> SUBSET Names]
          /\ \A n \in Names \ services : deps[n] = {}
          /\ roots \subseteq services
          /\ path \in Seq(Names)
          /\ todo \in [Names -> SUBSET Names]
          /\ \A n \in Names : todo[n] \subseteq deps[n]
          /\ inStack \subseteq Names /\ visited \subseteq Names
          /\ order \in Seq(Names)
          /\ status \in {"running", "ok", "circular"}

\* A compose file has a service; a name it only mentions has no dependencies.
Init == /\ services \in SUBSET Names \ {{}}
        /\ deps \in [Names -> SUBSET Names]
        /\ \A n \in Names \ services : deps[n] = {}
        /\ roots = services
        /\ path = <<>> /\ todo = [n \in Names |-> {}]
        /\ inStack = {} /\ visited = {} /\ order = <<>>
        /\ status = "running"

-----------------------------------------------------------------------------
(* visit(n), called with the loops in progress at "left". *)

Skip(left) == todo' = left /\ UNCHANGED <<path, inStack, status>>

Push(n, left) == /\ path' = Append(path, n)
                 /\ todo' = [left EXCEPT ![n] = deps[n]]
                 /\ inStack' = inStack \cup {n}
                 /\ UNCHANGED status

\* The error returns through every call of visit.
Circular == status' = "circular" /\ UNCHANGED <<path, todo, inStack>>

\* Mutant: nothing tells a call in progress from a node not yet visited.
VisitUnmarked(n, left) ==
    \/ n \in visited /\ Skip(left)
    \/ n \notin visited /\ Push(n, left)

\* Mutant: a node in progress counts as visited.
VisitOnce(n, left) ==
    \/ n \in inStack \cup visited /\ Skip(left)
    \/ n \notin inStack \cup visited /\ Push(n, left)

\* Mutant: a node in progress is asked for again.
VisitWaits(n, left) ==
    \/ n \in inStack /\ UNCHANGED <<path, todo, inStack, status>>
    \/ n \in visited \ inStack /\ Skip(left)
    \/ n \notin inStack \cup visited /\ Push(n, left)

Visit(n, left) ==
    \/ n \in inStack /\ Circular
    \/ n \in visited \ inStack /\ Skip(left)
    \/ n \notin inStack \cup visited /\ Push(n, left)

-----------------------------------------------------------------------------
\* The loop over the services.
VisitRoot(n) == /\ status = "running" /\ path = <<>> /\ n \in roots
                /\ roots' = roots \ {n}
                /\ Visit(n, todo)
                /\ UNCHANGED <<composeFile, visited, order>>

\* The loop of the innermost call over the dependencies of its node.
VisitDependency(n) ==
    /\ status = "running" /\ path # <<>> /\ n \in todo[Top]
    /\ Visit(n, [todo EXCEPT ![Top] = @ \ {n}])
    /\ UNCHANGED <<composeFile, roots, visited, order>>

\* The innermost call returns.
Leave == /\ status = "running" /\ path # <<>> /\ todo[Top] = {}
         /\ inStack' = inStack \ {Top}
         /\ visited' = visited \cup {Top}
         /\ order' = Append(order, Top)
         /\ path' = SubSeq(path, 1, Len(path) - 1)
         /\ UNCHANGED <<composeFile, roots, todo, status>>

Return == /\ status = "running" /\ path = <<>> /\ roots = {}
          /\ status' = "ok"
          /\ UNCHANGED <<composeFile, roots, path, todo, inStack, visited, order>>

Next == \/ \E n \in Names : VisitRoot(n) \/ VisitDependency(n)
        \/ Leave \/ Return

Spec     == Init /\ [][Next]_vars
FairSpec == Spec /\ WF_vars(Next)

-----------------------------------------------------------------------------
Precedes(n, i) == \E j \in 1..(i - 1) : order[j] = n

\* Names with a dependency among themselves each: they cannot be started.
Stuck(S) == S # {} /\ \A n \in S : deps[n] \cap S # {}

(* The search refuses a compose file only if some of its services depend on
   each other in a circle. *)
OnlyCirclesRefused == status = "circular" => \E S \in SUBSET Names : Stuck(S)

(* A compose file with services that depend on each other in a circle is never
   given an order, however the maps of the search are iterated. *)
CirclesRefused == status = "ok" => \A S \in SUBSET Names : ~Stuck(S)

\* The marks are those of the calls in progress and of the nodes in the order.
Marked == /\ \A n \in Names : n \in inStack <=> \E i \in 1..Len(path) : path[i] = n
          /\ \A n \in Names : n \in visited <=> Precedes(n, Len(order) + 1)
          /\ inStack \cap visited = {}

Once(s) == \A i, j \in 1..Len(s) : s[i] = s[j] => i = j

\* Each call in progress is for a dependency of the one before it.
Chain == \A i \in 1..(Len(path) - 1) : path[i + 1] \in deps[path[i]]

\* A node on the path waits for what its loop has left and for the next call.
Pending == \A i \in 1..Len(path) : \A n \in deps[path[i]] :
             \/ n \in visited \cup todo[path[i]]
             \/ i < Len(path) /\ n = path[i + 1]

Sorted == \A i \in 1..Len(order) : \A n \in deps[order[i]] : Precedes(n, i)

Covered == /\ services \subseteq roots \cup inStack \cup visited
           /\ status = "ok" => path = <<>> /\ roots = {}

(* What the search keeps while it runs, and with it the order returned: the
   inductive invariant of the proofs. *)
SortInv == /\ TypeOK /\ Marked /\ Once(path) /\ Once(order)
           /\ Chain /\ Pending /\ Sorted /\ Covered /\ OnlyCirclesRefused

(* The order that a deploy starts its services in has every service, once, and
   each after all it depends on. *)
DependenciesFirst ==
    status = "ok" => /\ \A n \in services : Precedes(n, Len(order) + 1)
                     /\ Once(order) /\ Sorted

(* The search ends for every compose file, circles included. *)
SortEnds == <>(status # "running")
=============================================================================
