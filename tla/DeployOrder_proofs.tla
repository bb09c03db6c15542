-------------------------- MODULE DeployOrder_proofs --------------------------
(***************************************************************************)
(* The topological sort of a compose deploy is right for every set of      *)
(* names, every compose file over them and every order in which Go         *)
(* iterates its maps: SortInv is inductive, and what a deploy relies on    *)
(* follows from it.  Then the labels of the same file: an edit of them is  *)
(* read as what it was, for lists of any length.                           *)
(***************************************************************************)
EXTENDS MCDeployOrder, WellFoundedInduction, SequenceTheorems, TLAPS

USE DEF Top, composeFile

\* What a call of visit(n) finds in the loops when it has been taken from them.
Taken(n, left) == /\ left \in [Names -> SUBSET Names]
                  /\ \A m \in Names : /\ left[m] \subseteq todo[m]
                                    /\ todo[m] \subseteq left[m] \cup {n}
                  /\ \A i \in 1..(Len(path) - 1) : left[path[i]] = todo[path[i]]
                  /\ path = <<>> \/ n \in deps[Top]
                  /\ status = "running"

\* What the loop over the services does when it makes the call.
RootTaken(n) == /\ roots' \subseteq roots /\ roots \subseteq roots' \cup {n}
                /\ UNCHANGED <<services, deps, visited, order>>

LEMMA SortedUnchanged ==
  ASSUME Sorted, UNCHANGED <<deps, order>> PROVE Sorted'
BY DEF Sorted, Precedes

\* A call that finds its node in the order changes nothing else.
LEMMA SkipStep ==
  ASSUME SortInv, NEW n \in Names, NEW left, Taken(n, left), RootTaken(n),
         n \in visited, Skip(left)
  PROVE  SortInv'
<1> USE DEF SortInv, Skip, Taken, RootTaken
<1>1. TypeOK' BY DEF TypeOK
<1>2. Marked' BY DEF Marked, Precedes
<1>3. Once(path)' /\ Once(order)' BY DEF Once
<1>4. Chain' BY DEF Chain
<1>5. Pending' BY DEF Pending, TypeOK
<1>6. Sorted' BY SortedUnchanged
<1>7. Covered' BY DEF Covered
<1>8. OnlyCirclesRefused' BY DEF OnlyCirclesRefused
<1>9. QED BY <1>1, <1>2, <1>3, <1>4, <1>5, <1>6, <1>7, <1>8

\* A call that opens a node extends the path by it.
LEMMA PushStep ==
  ASSUME SortInv, NEW n \in Names, NEW left, Taken(n, left), RootTaken(n),
         n \notin inStack \cup visited, Push(n, left)
  PROVE  SortInv'
<1> USE DEF SortInv, Push, Taken, RootTaken
<1>0. /\ path \in Seq(Names) /\ Len(path) \in Nat
      /\ path' \in Seq(Names) /\ Len(path') = Len(path) + 1
      /\ path'[Len(path) + 1] = n
      /\ \A i \in 1..Len(path) : path'[i] = path[i] /\ path[i] \in Names
      /\ \A i \in 1..Len(path) : path[i] \in inStack /\ path[i] # n
  BY DEF TypeOK, Marked
<1>1. TypeOK' BY <1>0 DEF TypeOK
<1>2. Marked'
  <2>1. ASSUME NEW m \in Names
        PROVE  m \in inStack' <=> \E i \in 1..Len(path') : path'[i] = m
    <3>1. m \in inStack <=> \E i \in 1..Len(path) : path[i] = m BY DEF Marked
    <3>2. (\E i \in 1..Len(path') : path'[i] = m)
            <=> (\E i \in 1..Len(path) : path[i] = m) \/ m = n
      BY <1>0
    <3>3. QED BY <3>1, <3>2
  <2>2. QED BY <2>1 DEF Marked, Precedes
<1>3. Once(path)' BY <1>0 DEF Once
<1>4. Once(order)' BY DEF Once
<1>5. Chain'
  <2> SUFFICES ASSUME NEW i \in 1..Len(path) PROVE path'[i + 1] \in deps[path[i]]
    BY <1>0 DEF Chain
  <2>1. CASE i = Len(path) BY <2>1, <1>0
  <2>2. CASE i # Len(path)
    <3>1. i \in 1..(Len(path) - 1) /\ i + 1 \in 1..Len(path) BY <2>2, <1>0
    <3>2. QED BY <3>1, <1>0 DEF Chain
  <2>3. QED BY <2>1, <2>2
<1>6. Pending'
  <2> SUFFICES ASSUME NEW i \in 1..(Len(path) + 1), NEW m \in deps[path'[i]]
               PROVE  \/ m \in visited \cup todo'[path'[i]]
                      \/ i < Len(path) + 1 /\ m = path'[i + 1]
    BY <1>0 DEF Pending
  <2>1. CASE i = Len(path) + 1 BY <2>1, <1>0 DEF TypeOK
  <2>2. CASE i = Len(path)
    <3>1. i \in 1..Len(path) /\ path'[i] = path[i] BY <2>2, <1>0
    <3>2. todo'[path[i]] = left[path[i]] BY <3>1, <1>0
    <3>3. m \in visited \cup todo[path[i]] BY <2>2, <3>1, <1>0 DEF Pending
    <3>4. m \in visited \cup left[path[i]] \cup {n} BY <3>1, <3>3, <1>0
    <3>5. path'[i + 1] = n BY <2>2, <1>0
    <3>6. QED BY <2>2, <3>1, <3>2, <3>4, <3>5, <1>0
  <2>3. CASE i < Len(path)
    <3>1. i \in 1..(Len(path) - 1) /\ i \in 1..Len(path) /\ i + 1 \in 1..Len(path)
      BY <2>3, <1>0
    <3>2. path'[i] = path[i] /\ path'[i + 1] = path[i + 1] BY <3>1, <1>0
    <3>3. todo'[path[i]] = todo[path[i]] BY <3>1, <1>0
    <3>4. QED BY <2>3, <3>1, <3>2, <3>3, <1>0 DEF Pending
  <2>4. QED BY <2>1, <2>2, <2>3, <1>0
<1>7. Sorted' BY SortedUnchanged
<1>8. Covered' BY DEF Covered
<1>9. OnlyCirclesRefused' BY DEF OnlyCirclesRefused
<1>10. QED BY <1>1, <1>2, <1>3, <1>4, <1>5, <1>6, <1>7, <1>8, <1>9

\* A call for a node on the path closes a circle: the part of the path from
\* that node on.
LEMMA CircularStep ==
  ASSUME SortInv, NEW n \in Names, NEW left, Taken(n, left), RootTaken(n),
         n \in inStack, Circular
  PROVE  SortInv'
<1> USE DEF SortInv, Circular, Taken, RootTaken
<1>1. TypeOK' BY DEF TypeOK
<1>2. Marked' BY DEF Marked, Precedes
<1>3. Once(path)' /\ Once(order)' BY DEF Once
<1>4. Chain' BY DEF Chain
<1>5. Pending' BY DEF Pending
<1>6. Sorted' BY SortedUnchanged
<1>7. Covered' BY DEF Covered, TypeOK, Marked
<1>8. OnlyCirclesRefused'
  <2>1. path \in Seq(Names) /\ Len(path) \in Nat BY DEF TypeOK
  <2>2. PICK k \in 1..Len(path) : path[k] = n BY DEF Marked
  <2> DEFINE S == {m \in Names : \E i \in k..Len(path) : path[i] = m}
  <2>3. n \in S BY <2>1, <2>2
  <2>4. ASSUME NEW m \in S PROVE deps[m] \cap S # {}
    <3>1. PICK i \in k..Len(path) : path[i] = m OBVIOUS
    <3>2. CASE i = Len(path)
      <4>1. n \in deps[m] BY <3>1, <3>2, <2>1, <2>2
      <4>2. QED BY <4>1, <2>3
    <3>3. CASE i # Len(path)
      <4>1. i \in 1..(Len(path) - 1) /\ i + 1 \in k..Len(path) BY <3>3, <2>1, <2>2
      <4>2. path[i + 1] \in deps[m] BY <4>1, <3>1 DEF Chain
      <4>3. path[i + 1] \in Names BY <4>1, <2>1, <2>2
      <4>4. path[i + 1] \in S BY <4>1, <4>3
      <4>5. QED BY <4>2, <4>4
    <3>4. QED BY <3>2, <3>3
  <2>5. S \in SUBSET Names /\ Stuck(S)' BY <2>3, <2>4 DEF Stuck
  <2>6. QED BY <2>5 DEF OnlyCirclesRefused
<1>9. QED BY <1>1, <1>2, <1>3, <1>4, <1>5, <1>6, <1>7, <1>8

LEMMA VisitStep ==
  ASSUME SortInv, NEW n \in Names, NEW left, Taken(n, left), RootTaken(n),
         Visit(n, left)
  PROVE  SortInv'
BY SkipStep, PushStep, CircularStep DEF Visit

LEMMA AllButLast ==
  ASSUME NEW s \in Seq(Names), s # <<>>, Once(s)
  PROVE  /\ Len(s) \in Nat \ {0} /\ s[Len(s)] \in Names
         /\ SubSeq(s, 1, Len(s) - 1) \in Seq(Names)
         /\ Len(SubSeq(s, 1, Len(s) - 1)) = Len(s) - 1
         /\ \A i \in 1..(Len(s) - 1) : /\ SubSeq(s, 1, Len(s) - 1)[i] = s[i]
                                       /\ s[i] \in Names /\ s[i] # s[Len(s)]
<1>1. Len(s) \in Nat \ {0} /\ \A i \in 1..Len(s) : s[i] \in Names OBVIOUS
<1> DEFINE k == Len(s) - 1
<1>2. k \in Nat /\ k <= Len(s) BY <1>1
<1> HIDE DEF k
<1>3. SubSeq(s, 1, k) \in Seq(Names) BY <1>2
<1>4. Len(SubSeq(s, 1, k)) = k BY <1>2
<1>5. \A i \in 1..k : SubSeq(s, 1, k)[i] = s[i] BY <1>2
<1>6. \A i \in 1..(Len(s) - 1) : s[i] # s[Len(s)] BY <1>1 DEF Once
<1>7. QED BY <1>1, <1>2, <1>3, <1>4, <1>5, <1>6 DEF k

\* A call that returns moves its node from the path to the order.
LEMMA LeaveStep == ASSUME SortInv, Leave PROVE SortInv'
<1> USE DEF SortInv, Leave
<1> DEFINE t == path[Len(path)]
<1>0. /\ path \in Seq(Names) /\ Len(path) \in Nat \ {0}
      /\ path' \in Seq(Names) /\ Len(path') = Len(path) - 1
      /\ \A i \in 1..(Len(path) - 1) : /\ path'[i] = path[i]
                                       /\ path[i] \in Names /\ path[i] # t
      /\ t \in Names
  <2>1. path \in Seq(Names) /\ path # <<>> /\ Once(path) BY DEF TypeOK
  <2>2. path' = SubSeq(path, 1, Len(path) - 1) OBVIOUS
  <2> HIDE DEF SortInv, Leave
  <2>3. QED BY <2>1, <2>2, AllButLast
<1>1. /\ order \in Seq(Names) /\ Len(order) \in Nat
      /\ order' \in Seq(Names) /\ Len(order') = Len(order) + 1
      /\ order'[Len(order) + 1] = t
      /\ \A i \in 1..Len(order) : order'[i] = order[i]
  BY <1>0 DEF TypeOK
<1>2. t \in inStack /\ t \notin visited BY <1>0 DEF Marked
<1>3. \A i \in 1..(Len(path) - 1) : path[i] # t BY <1>0
<1>4. TypeOK' BY <1>0, <1>1 DEF TypeOK
<1>5. Marked'
  <2>1. ASSUME NEW m \in Names
        PROVE  m \in inStack' <=> \E i \in 1..Len(path') : path'[i] = m
    <3>1. m \in inStack <=> \E i \in 1..Len(path) : path[i] = m BY DEF Marked
    <3>2. (\E i \in 1..Len(path) : path[i] = m)
            <=> (\E i \in 1..(Len(path) - 1) : path[i] = m) \/ m = t
      BY <1>0
    <3>3. (\E i \in 1..Len(path') : path'[i] = m)
            <=> (\E i \in 1..(Len(path) - 1) : path[i] = m)
      BY <1>0
    <3>4. QED BY <3>1, <3>2, <3>3, <1>3
  <2>2. ASSUME NEW m \in Names
        PROVE  m \in visited' <=> Precedes(m, Len(order) + 1)'
    <3>1. m \in visited <=> \E j \in 1..Len(order) : order[j] = m
      BY <1>1 DEF Marked, Precedes
    <3>2. Precedes(m, Len(order) + 1)'
            <=> (\E j \in 1..Len(order) : order[j] = m) \/ m = t
      BY <1>1 DEF Precedes
    <3>3. QED BY <3>1, <3>2
  <2>3. QED BY <2>1, <2>2, <1>2 DEF Marked
<1>6. Once(path)' BY <1>0 DEF Once
<1>7. Once(order)'
  <2>1. \A i \in 1..Len(order) : order[i] # t
    BY <1>1, <1>2, <1>0 DEF Marked, Precedes
  <2>2. QED BY <2>1, <1>1 DEF Once
<1>8. Chain' BY <1>0 DEF Chain
<1>9. Pending'
  <2> SUFFICES ASSUME NEW i \in 1..(Len(path) - 1), NEW m \in deps[path[i]]
               PROVE  \/ m \in visited' \cup todo[path[i]]
                      \/ i < Len(path) - 1 /\ m = path'[i + 1]
    BY <1>0 DEF Pending
  <2>1. \/ m \in visited \cup todo[path[i]]
        \/ m = path[i + 1]
    <3>1. i \in 1..Len(path) BY <1>0
    <3>2. QED BY <3>1 DEF Pending
  <2>2. CASE m = path[i + 1] /\ i + 1 = Len(path) BY <2>2
  <2>3. CASE m = path[i + 1] /\ i + 1 # Len(path) BY <2>3, <1>0
  <2>4. QED BY <2>1, <2>2, <2>3
<1>10. Sorted'
  <2> SUFFICES ASSUME NEW i \in 1..(Len(order) + 1), NEW m \in deps[order'[i]]
               PROVE  \E j \in 1..(i - 1) : order'[j] = m
    BY <1>1 DEF Sorted, Precedes
  <2>1. CASE i = Len(order) + 1
    <3>1. m \in deps[t] /\ todo[t] = {} BY <2>1, <1>1
    <3>2. m \in visited BY <3>1, <1>0 DEF Pending
    <3>3. m \in Names BY <3>2 DEF TypeOK
    <3>4. PICK j \in 1..Len(order) : order[j] = m
      BY <3>2, <3>3, <1>1 DEF Marked, Precedes
    <3>5. QED BY <2>1, <3>4, <1>1
  <2>2. CASE i \in 1..Len(order)
    <3>1. PICK j \in 1..(i - 1) : order[j] = m BY <2>2, <1>1 DEF Sorted, Precedes
    <3>2. j \in 1..Len(order) BY <2>2, <1>1
    <3>3. QED BY <3>1, <3>2, <1>1
  <2>3. QED BY <2>1, <2>2, <1>1
<1>11. Covered' BY DEF Covered
<1>12. OnlyCirclesRefused' BY DEF OnlyCirclesRefused
<1>13. QED BY <1>4, <1>5, <1>6, <1>7, <1>8, <1>9, <1>10, <1>11, <1>12

LEMMA SortInvInductive ==
  /\ Init => SortInv
  /\ SortInv /\ [Next]_vars => SortInv'
<1>1. ASSUME Init PROVE SortInv
  <2> USE <1>1 DEF Init
  <2>1. Len(path) = 0 /\ Len(order) = 0 OBVIOUS
  <2>2. TypeOK BY DEF TypeOK
  <2>3. Marked BY <2>1 DEF Marked, Precedes
  <2>4. Once(path) /\ Once(order) BY <2>1 DEF Once
  <2>5. Chain /\ Pending /\ Sorted BY <2>1 DEF Chain, Pending, Sorted
  <2>6. Covered BY DEF Covered
  <2>7. OnlyCirclesRefused BY DEF OnlyCirclesRefused
  <2>8. QED BY <2>2, <2>3, <2>4, <2>5, <2>6, <2>7 DEF SortInv
<1>2. ASSUME SortInv, [Next]_vars PROVE SortInv'
  <2> USE <1>2
  <2>1. ASSUME NEW n \in Names, VisitRoot(n) PROVE SortInv'
    <3>1. path \in Seq(Names) /\ todo \in [Names -> SUBSET Names]
      BY DEF SortInv, TypeOK
    <3>2. Taken(n, todo) BY <2>1, <3>1 DEF VisitRoot, Taken
    <3>3. RootTaken(n) BY <2>1 DEF VisitRoot, RootTaken
    <3>4. QED BY <2>1, <3>2, <3>3, VisitStep DEF VisitRoot
  <2>2. ASSUME NEW n \in Names, VisitDependency(n) PROVE SortInv'
    <3> DEFINE left == [todo EXCEPT ![Top] = @ \ {n}]
    <3>1. /\ path \in Seq(Names) /\ Len(path) \in Nat \ {0} /\ Top \in Names
          /\ todo \in [Names -> SUBSET Names]
      BY <2>2 DEF VisitDependency, SortInv, TypeOK
    <3>2. \A i \in 1..(Len(path) - 1) : path[i] # Top
      BY <3>1 DEF SortInv, Once
    <3>3. n \in deps[Top] BY <2>2, <3>1 DEF VisitDependency, SortInv, TypeOK
    <3>4. Taken(n, left) BY <2>2, <3>1, <3>2, <3>3 DEF VisitDependency, Taken
    <3>5. RootTaken(n) BY <2>2 DEF VisitDependency, RootTaken
    <3>6. QED BY <2>2, <3>4, <3>5, VisitStep DEF VisitDependency
  <2>3. ASSUME Leave PROVE SortInv' BY <2>3, LeaveStep
  <2>4. ASSUME Return PROVE SortInv'
    <3> USE <2>4 DEF Return, SortInv
    <3>1. TypeOK' BY DEF TypeOK
    <3>2. Marked' BY DEF Marked, Precedes
    <3>3. Once(path)' /\ Once(order)' BY DEF Once
    <3>4. Chain' /\ Pending' BY DEF Chain, Pending
    <3>5. Sorted' BY SortedUnchanged
    <3>6. Covered' BY DEF Covered
    <3>7. OnlyCirclesRefused' BY DEF OnlyCirclesRefused, Stuck
    <3>8. QED BY <3>1, <3>2, <3>3, <3>4, <3>5, <3>6, <3>7
  <2>5. CASE UNCHANGED vars
    <3> USE <2>5 DEF vars, SortInv
    <3>1. TypeOK' BY DEF TypeOK
    <3>2. Marked' BY DEF Marked, Precedes
    <3>3. Once(path)' /\ Once(order)' BY DEF Once
    <3>4. Chain' /\ Pending' BY DEF Chain, Pending
    <3>5. Sorted' BY SortedUnchanged
    <3>6. Covered' BY DEF Covered
    <3>7. OnlyCirclesRefused' BY DEF OnlyCirclesRefused, Stuck
    <3>8. QED BY <3>1, <3>2, <3>3, <3>4, <3>5, <3>6, <3>7
  <2>6. QED BY <2>1, <2>2, <2>3, <2>4, <2>5 DEF Next
<1>3. QED BY <1>1, <1>2

(* The inductive invariant of the sort. *)
THEOREM SortInvariant == Spec => []SortInv
BY SortInvInductive, PTL DEF Spec

(* The order has every service of the compose file, once, and each after all
   that it depends on. *)
THEOREM SortsDependenciesFirst == Spec => []DependenciesFirst
<1>1. SortInv => DependenciesFirst
  BY DEF SortInv, DependenciesFirst, TypeOK, Marked, Covered, Precedes
<1>2. QED BY <1>1, SortInvariant, PTL

(* Only compose files with a circle are refused. *)
THEOREM RefusesOnlyCircles == Spec => []OnlyCirclesRefused
<1>1. SortInv => OnlyCirclesRefused BY DEF SortInv
<1>2. QED BY <1>1, SortInvariant, PTL

\* A set of indices has a least one.
LEMMA LeastIndex ==
  ASSUME NEW I \in SUBSET Nat, I # {}
  PROVE  \E i \in I : \A j \in I : ~(j < i)
<1>1. PICK i \in I : \A j \in I : ~(<<j, i>> \in OpToRel(<, Nat))
  BY NatLessThanWellFounded, WFMin
<1>2. QED BY <1>1 DEF OpToRel

(* A compose file with a circle is never given an order: the member of the
   circle that comes first in it would have to come after another one. *)
THEOREM RefusesCircles == Spec => []CirclesRefused
<1>1. SortInv => CirclesRefused
  <2> SUFFICES ASSUME SortInv, status = "ok", NEW S \in SUBSET Names, Stuck(S)
               PROVE  FALSE
    BY DEF CirclesRefused
  <2> USE DEF SortInv
  <2> DEFINE I == {i \in 1..Len(order) : order[i] \in S}
  <2>1. order \in Seq(Names) /\ Len(order) \in Nat BY DEF TypeOK
  <2>2. PICK s \in S : deps[s] \cap S # {} BY DEF Stuck
  <2>3. s \in services BY <2>2 DEF TypeOK
  <2>4. s \in visited BY <2>3, <2>1 DEF Covered, TypeOK, Marked
  <2>5. I # {} BY <2>2, <2>4, <2>1 DEF Marked, Precedes
  <2>6. PICK i \in I : \A j \in I : ~(j < i)
    <3>1. I \in SUBSET Nat BY <2>1
    <3>2. QED BY <2>5, <3>1, LeastIndex
  <2>7. PICK m \in S : m \in deps[order[i]] BY <2>6 DEF Stuck
  <2>8. PICK j \in 1..(i - 1) : order[j] = m BY <2>6, <2>7 DEF Sorted, Precedes
  <2>9. j \in I /\ j < i BY <2>6, <2>7, <2>8, <2>1
  <2>10. QED BY <2>6, <2>9
<1>2. QED BY <1>1, SortInvariant, PTL

-----------------------------------------------------------------------------
(***************************************************************************)
(* The labels of a compose file.                                           *)
(***************************************************************************)
USE LabelsAssumption

\* A set of positions has a last one.
LEMMA LastIndex ==
  ASSUME NEW n \in Nat, NEW I \in SUBSET (1..n), I # {}
  PROVE  \E i \in I : \A j \in I : j <= i
<1> DEFINE D == {d \in Nat : n - d \in I}
<1>1. D # {}
  <2>1. PICK i \in I : TRUE OBVIOUS
  <2>2. n - i \in Nat /\ n - (n - i) = i OBVIOUS
  <2>3. QED BY <2>1, <2>2
<1>2. PICK d \in D : \A e \in D : ~(e < d) BY <1>1, LeastIndex
<1>3. ASSUME NEW j \in I PROVE j <= n - d
  <2>1. n - j \in Nat /\ n - (n - j) = j OBVIOUS
  <2>2. n - j \in D BY <2>1
  <2>3. QED BY <1>2, <2>2
<1>4. QED BY <1>2, <1>3

\* What a list of entries is read as: its keys, and of each the last entry.
Keys(c) == {c[i][1] : i \in DOMAIN c}

\* What is read of a key is its last entry.
LEMMA ReadsLast ==
  ASSUME NEW c \in Seq(Items), NEW i \in DOMAIN c,
         \A j \in DOMAIN c : c[j][1] = c[i][1] => j <= i
  PROVE  Parsed(c)[c[i][1]] = ItemValue(c[i])
<1> DEFINE last == CHOOSE l \in Positions(c, c[i][1]) : \A j \in Positions(c, c[i][1]) : j <= l
<1>1. i \in Positions(c, c[i][1]) BY DEF Positions
<1>2. /\ last \in Positions(c, c[i][1]) /\ \A j \in Positions(c, c[i][1]) : j <= last
  BY <1>1 DEF Positions
<1>3. last = i BY <1>1, <1>2, LenProperties DEF Positions
<1>4. QED BY <1>3 DEF Parsed

\* A list is read as a map over its keys.
LEMMA ParsedDomain ==
  ASSUME NEW c
  PROVE  Parsed(c) = [key \in Keys(c) |-> Parsed(c)[key]] /\ DOMAIN Parsed(c) = Keys(c)
BY DEF Parsed, Keys

\* An entry whose key does not come again.
IsLast(c, i) == i \in DOMAIN c /\ \A j \in DOMAIN c : c[j][1] = c[i][1] => j <= i

\* Every key has a last entry.
LEMMA HasLast ==
  ASSUME NEW c \in Seq(Items), NEW k \in Keys(c)
  PROVE  \E i \in DOMAIN c : c[i][1] = k /\ IsLast(c, i)
<1>1. Positions(c, k) \in SUBSET (1..Len(c)) /\ Positions(c, k) # {} /\ Len(c) \in Nat
  BY LenProperties DEF Positions, Keys
<1>2. PICK i \in Positions(c, k) : \A j \in Positions(c, k) : j <= i BY <1>1, LastIndex
<1>3. QED BY <1>2 DEF Positions, IsLast

\* A label that is last in both, with one value, is read as one.
LEMMA ReadsSame ==
  ASSUME NEW c \in Seq(Items), NEW n \in Seq(Items), NEW i, IsLast(c, i),
         NEW m, IsLast(n, m), n[m] = c[i]
  PROVE  Parsed(n)[c[i][1]] = Parsed(c)[c[i][1]]
<1>1. Parsed(c)[c[i][1]] = ItemValue(c[i]) BY ReadsLast DEF IsLast
<1>2. Parsed(n)[n[m][1]] = ItemValue(n[m]) BY ReadsLast DEF IsLast
<1>3. QED BY <1>1, <1>2

\* It is enough to look at the keys and at what is read of each.
LEMMA ReadsAs ==
  ASSUME NEW c \in Seq(Items), NEW n \in Seq(Items), NEW key, NEW value,
         Keys(n) = (Keys(c) \ {key}) \cup (IF value = Empty THEN {} ELSE {key}),
         value # Empty => Parsed(n)[key] = value,
         \A k \in Keys(c) \ {key} : Parsed(n)[k] = Parsed(c)[k]
  PROVE  Parsed(n) = Labelled(Parsed(c), key, value)
<1>1. DOMAIN Labelled(Parsed(c), key, value) = Keys(n) BY ParsedDomain DEF Labelled
<1>2. \A k \in Keys(n) : Labelled(Parsed(c), key, value)[k] = Parsed(n)[k]
  BY ParsedDomain DEF Labelled
<1>3. Labelled(Parsed(c), key, value)
        = [k \in Keys(n) |-> Labelled(Parsed(c), key, value)[k]]
  BY <1>1 DEF Labelled
<1>4. QED BY <1>2, <1>3, ParsedDomain

\* The loops of setLabelInMapping and setLabelInSequence find the key if it is there.
LEMMA FindIs ==
  ASSUME NEW c \in Seq(Items), NEW key
  PROVE  /\ Find(c, key) = 0 => \A i \in DOMAIN c : c[i][1] # key
         /\ Find(c, key) # 0 => Find(c, key) \in DOMAIN c /\ c[Find(c, key)][1] = key
<1>1. CASE Positions(c, key) = {} BY <1>1 DEF Find, Positions
<1>2. CASE Positions(c, key) # {}
  <2>1. Positions(c, key) \in SUBSET Nat BY LenProperties DEF Positions
  <2>2. PICK i \in Positions(c, key) : \A j \in Positions(c, key) : ~(j < i)
    BY <1>2, <2>1, LeastIndex
  <2>3. \A j \in Positions(c, key) : i <= j BY <2>1, <2>2
  <2>4. Find(c, key) \in Positions(c, key) BY <1>2, <2>2, <2>3 DEF Find
  <2>5. 0 \notin Positions(c, key) BY LenProperties DEF Positions
  <2>6. QED BY <2>4, <2>5 DEF Positions
<1>3. QED BY <1>1, <1>2

-----------------------------------------------------------------------------
(* The three edits of a list of entries that has the key once or not at all. *)

Single(c, key) == \A i, j \in Positions(c, key) : i = j

\* An entry that is appended.
LEMMA AppendReads ==
  ASSUME NEW c \in Seq(Items), NEW key \in LabelKeys, NEW value \in LabelValues,
         \A i \in DOMAIN c : c[i][1] # key
  PROVE  LET n == Append(c, <<key, value>>)
         IN  n \in Seq(Items) /\ Parsed(n) = Labelled(Parsed(c), key, value)
<1> DEFINE e == <<key, value>>
           n == Append(c, e)
<1>1. e \in Items /\ e[1] = key /\ e[2] = value BY DEF Items
<1> HIDE DEF e
<1>2. /\ n \in Seq(Items) /\ Len(n) = Len(c) + 1 /\ n[Len(n)] = e
      /\ \A i \in 1..Len(c) : n[i] = c[i]
      /\ DOMAIN n = 1..Len(n) /\ DOMAIN c = 1..Len(c) /\ Len(c) \in Nat
  BY <1>1, LenProperties
<1> HIDE DEF n
<1>3. Keys(n) = Keys(c) \cup {key} BY <1>1, <1>2 DEF Keys
<1>4. IsLast(n, Len(n)) BY <1>2 DEF IsLast
<1>5. Parsed(n)[key] = value
  <2>1. Parsed(n)[n[Len(n)][1]] = ItemValue(n[Len(n)]) BY <1>2, <1>4, ReadsLast DEF IsLast
  <2>2. ItemValue(e) = value BY <1>1 DEF ItemValue
  <2>3. QED BY <1>1, <1>2, <2>1, <2>2
<1>6. ASSUME NEW k \in Keys(c) \ {key} PROVE Parsed(n)[k] = Parsed(c)[k]
  <2>1. PICK i \in DOMAIN c : c[i][1] = k /\ IsLast(c, i) BY HasLast
  <2>2. IsLast(n, i) /\ n[i] = c[i] BY <1>1, <1>2, <2>1 DEF IsLast
  <2>3. QED BY <1>2, <2>1, <2>2, ReadsSame
<1>7. value # Empty /\ Keys(n) = (Keys(c) \ {key}) \cup {key} BY <1>3
<1>8. Parsed(n) = Labelled(Parsed(c), key, value) BY <1>2, <1>5, <1>6, <1>7, ReadsAs
<1>9. QED BY <1>2, <1>8 DEF n, e

\* The one entry of a key that is replaced.
LEMMA ReplaceReads ==
  ASSUME NEW c \in Seq(Items), NEW key \in LabelKeys, NEW value \in LabelValues,
         NEW p \in DOMAIN c, c[p][1] = key, Single(c, key)
  PROVE  LET n == [c EXCEPT ![p] = <<key, value>>]
         IN  n \in Seq(Items) /\ Parsed(n) = Labelled(Parsed(c), key, value)
<1> DEFINE e == <<key, value>>
           n == [c EXCEPT ![p] = e]
<1>1. e \in Items /\ e[1] = key /\ e[2] = value BY DEF Items
<1> HIDE DEF e
<1>2. /\ n \in Seq(Items) /\ Len(n) = Len(c) /\ n[p] = e
      /\ \A i \in DOMAIN c \ {p} : n[i] = c[i] /\ c[i][1] # key
      /\ DOMAIN n = 1..Len(n) /\ DOMAIN c = 1..Len(c) /\ Len(c) \in Nat
  BY <1>1, LenProperties, ExceptSeq DEF Single, Positions
<1> HIDE DEF n
<1>3. Keys(n) = Keys(c) BY <1>1, <1>2 DEF Keys
<1>4. IsLast(n, p) BY <1>1, <1>2 DEF IsLast
<1>5. Parsed(n)[key] = value
  <2>1. Parsed(n)[n[p][1]] = ItemValue(n[p]) BY <1>2, <1>4, ReadsLast DEF IsLast
  <2>2. ItemValue(e) = value BY <1>1 DEF ItemValue
  <2>3. QED BY <1>1, <1>2, <2>1, <2>2
<1>6. ASSUME NEW k \in Keys(c) \ {key} PROVE Parsed(n)[k] = Parsed(c)[k]
  <2>1. PICK i \in DOMAIN c : c[i][1] = k /\ IsLast(c, i) BY HasLast
  <2>2. IsLast(n, i) /\ n[i] = c[i] BY <1>1, <1>2, <2>1 DEF IsLast
  <2>3. QED BY <1>2, <2>1, <2>2, ReadsSame
<1>7. value # Empty /\ Keys(n) = (Keys(c) \ {key}) \cup {key}
  BY <1>3 DEF Keys
<1>8. Parsed(n) = Labelled(Parsed(c), key, value) BY <1>2, <1>5, <1>6, <1>7, ReadsAs
<1>9. QED BY <1>2, <1>8 DEF n, e

\* The one entry of a key that is removed.
LEMMA RemoveReads ==
  ASSUME NEW c \in Seq(Items), NEW key \in LabelKeys,
         NEW p \in DOMAIN c, c[p][1] = key, Single(c, key)
  PROVE  LET n == RemoveAt(c, p)
         IN  n \in Seq(Items) /\ Parsed(n) = Labelled(Parsed(c), key, Empty)
<1> DEFINE n == RemoveAt(c, p)
<1>1. DOMAIN c = 1..Len(c) /\ Len(c) \in Nat BY LenProperties
<1>2. /\ n \in Seq(Items) /\ Len(n) = Len(c) - 1
      /\ \A i \in 1..(Len(c) - 1) : n[i] = IF i < p THEN c[i] ELSE c[i + 1]
  <2> DEFINE a == SubSeq(c, 1, p - 1)
             b == SubSeq(c, p + 1, Len(c))
  <2>1. /\ a \in Seq(Items) /\ Len(a) = p - 1 /\ \A i \in 1..(p - 1) : a[i] = c[i]
    <3>1. \A i \in 1..(p - 1) : c[i] \in Items BY <1>1, ElementOfSeq
    <3>2. QED BY <1>1, <3>1, SubSeqProperties
  <2>2. /\ b \in Seq(Items) /\ Len(b) = Len(c) - p
        /\ \A i \in 1..(Len(c) - p) : b[i] = c[p + i]
    <3>1. \A i \in (p + 1)..Len(c) : c[i] \in Items BY <1>1, ElementOfSeq
    <3>2. QED BY <1>1, <3>1, SubSeqProperties
  <2>3. n = a \o b BY DEF RemoveAt
  <2> HIDE DEF a, b, n
  <2>4. /\ n \in Seq(Items) /\ Len(n) = Len(a) + Len(b)
        /\ \A i \in 1..(Len(a) + Len(b)) : n[i] = IF i <= Len(a) THEN a[i] ELSE b[i - Len(a)]
    BY <2>1, <2>2, <2>3, ConcatProperties
  <2>5. ASSUME NEW i \in 1..(Len(c) - 1) PROVE n[i] = IF i < p THEN c[i] ELSE c[i + 1]
    <3>1. CASE i < p BY <1>1, <2>1, <2>2, <2>4, <3>1
    <3>2. CASE ~(i < p)
      <4>1. i - Len(a) \in 1..(Len(c) - p) /\ p + (i - Len(a)) = i + 1
        BY <1>1, <2>1, <3>2
      <4>2. n[i] = b[i - Len(a)] BY <1>1, <2>1, <2>2, <2>4, <3>2
      <4>3. b[i - Len(a)] = c[p + (i - Len(a))] BY <2>2, <4>1
      <4>4. QED BY <3>2, <4>1, <4>2, <4>3
    <3>3. QED BY <3>1, <3>2
  <2>6. n \in Seq(Items) /\ Len(n) = Len(c) - 1 BY <1>1, <2>1, <2>2, <2>4
  <2>7. QED BY <2>5, <2>6
<1>3. DOMAIN n = 1..Len(n) BY <1>2, LenProperties
<1> HIDE DEF n
<1>4. \A i \in DOMAIN c \ {p} : c[i][1] # key BY DEF Single, Positions
<1> DEFINE Shift(i) == IF i < p THEN i ELSE i - 1
<1>5. ASSUME NEW i \in DOMAIN c \ {p} PROVE Shift(i) \in DOMAIN n /\ n[Shift(i)] = c[i]
  BY <1>1, <1>2, <1>3
<1>6. ASSUME NEW j \in DOMAIN n PROVE \E i \in DOMAIN c \ {p} : j = Shift(i) /\ n[j] = c[i]
  <2>1. CASE j < p BY <1>1, <1>2, <1>3, <2>1
  <2>2. CASE ~(j < p)
    <3>1. j + 1 \in DOMAIN c \ {p} /\ Shift(j + 1) = j BY <1>1, <1>2, <1>3, <2>2
    <3>2. QED BY <1>2, <1>3, <2>2, <3>1
  <2>3. QED BY <2>1, <2>2
<1>7. Keys(n) = Keys(c) \ {key}
  <2>1. Keys(n) \subseteq Keys(c) \ {key} BY <1>4, <1>6 DEF Keys
  <2>2. Keys(c) \ {key} \subseteq Keys(n) BY <1>5 DEF Keys
  <2>3. QED BY <2>1, <2>2
<1>8. ASSUME NEW k \in Keys(c) \ {key} PROVE Parsed(n)[k] = Parsed(c)[k]
  <2>1. PICK i \in DOMAIN c : c[i][1] = k /\ IsLast(c, i) BY HasLast
  <2>2. i # p BY <2>1
  <2>3. Shift(i) \in DOMAIN n /\ n[Shift(i)] = c[i] BY <1>5, <2>2
  <2>4. ASSUME NEW j \in DOMAIN n, n[j][1] = n[Shift(i)][1] PROVE j <= Shift(i)
    <3>1. PICK l \in DOMAIN c \ {p} : j = Shift(l) /\ n[j] = c[l] BY <1>6
    <3>2. l <= i BY <2>1, <2>3, <2>4, <3>1 DEF IsLast
    <3>3. QED BY <1>1, <2>2, <3>1, <3>2
  <2>5. IsLast(n, Shift(i)) BY <2>3, <2>4 DEF IsLast
  <2>6. QED BY <1>2, <2>1, <2>3, <2>5, ReadsSame
<1>9. QED BY <1>2, <1>7, <1>8, ReadsAs DEF n

-----------------------------------------------------------------------------
(* The edit of a service, and of a compose file. *)

\* The labels of a service of either form, as an edit finds and leaves them.
LEMMA PlainContent ==
  ASSUME NEW own \in Plain
  PROVE  /\ own.content \in Seq(Items)
         /\ own.kind \in {"map", "list", "none", "scalar"}
         /\ own.kind \in {"none", "scalar"} => own.content = <<>>
         /\ own = Node(own.kind, own.content)
<1>1. Entries \subseteq Items BY DEF Entries, Items
<1>2. ASSUME NEW S, S \subseteq Items, NEW c \in SeqOf(S, MaxEntries) PROVE c \in Seq(Items)
  <2>1. PICK m \in 0..MaxEntries : c \in [1..m -> S] BY <1>2 DEF SeqOf
  <2>2. QED BY <1>2, <2>1
<1>3. CASE \E c \in Mappings : own = Node("map", c)
  BY <1>1, <1>2, <1>3 DEF Mappings, Node
<1>4. CASE \E c \in Lists : own = Node("list", c) BY <1>2, <1>4 DEF Lists, Node
<1>5. CASE \E kind \in {"none", "scalar"} : own = Node(kind, <<>>)
  BY <1>5, EmptySeq DEF Node
<1>6. QED BY <1>3, <1>4, <1>5 DEF Plain

\* What is read of a service's own labels.
LEMMA ReadsOwn ==
  ASSUME NEW kind, NEW c, kind = "none" => c = <<>>
  PROVE  ParseLabels(OwnLabels(Node(kind, c))) = Parsed(c)
BY DEF ParseLabels, OwnLabels, ServiceNode, NoLabels, Node

\* No labels are none without the key.
LEMMA EmptyReads ==
  ASSUME NEW key, NEW value
  PROVE  Labelled(Parsed(<<>>), key, Empty) = Parsed(<<>>)
<1>1. Keys(<<>>) = {} BY DEF Keys
<1>2. QED BY <1>1, ParsedDomain DEF Labelled

\* The edit of one service.
LEMMA ServiceReads ==
  ASSUME NEW own \in Plain, NEW key \in LabelKeys, NEW value \in LabelValues \cup {Empty},
         Single(own.content, key)
  PROVE  ParseLabels(LabelOnNode(OwnLabels(own), key, value))
           = Labelled(ParseLabels(OwnLabels(own)), key, value)
<1> DEFINE c == own.content
           svc == OwnLabels(own)
<1>1. /\ c \in Seq(Items) /\ own = Node(own.kind, c)
      /\ own.kind \in {"map", "list", "none", "scalar"}
      /\ own.kind \in {"none", "scalar"} => c = <<>>
  BY PlainContent
<1>2. ParseLabels(svc) = Parsed(c) BY <1>1, ReadsOwn
<1>3. svc.labels = own /\ svc = OwnLabels(Node(own.kind, c))
  BY <1>1 DEF OwnLabels, ServiceNode
<1>4. \A kind, content : Relabelled(svc, kind, content) = OwnLabels(Node(kind, content))
  BY DEF Relabelled, OwnLabels, ServiceNode
<1>5. Unlabelled(svc) = OwnLabels(Node("none", <<>>))
  BY DEF Unlabelled, OwnLabels, ServiceNode
<1> HIDE DEF svc
<1>6. CASE own.kind \in {"map", "list"} /\ value = Empty
  <2>1. LabelOnNode(svc, key, value) = WithoutEntry(svc, key) BY <1>3, <1>6 DEF LabelOnNode
  <2>2. CASE Find(c, key) = 0
    <3>1. Parsed(c) = Labelled(Parsed(c), key, Empty)
      <4>1. \A i \in DOMAIN c : c[i][1] # key BY <1>1, <2>2, FindIs
      <4>2. Keys(c) = (Keys(c) \ {key}) \cup {} BY <4>1 DEF Keys
      <4>3. QED BY <1>1, <4>2, ReadsAs
    <3>2. CASE c = <<>>
      <4>1. WithoutEntry(svc, key) = OwnLabels(Node("none", <<>>))
        BY <1>3, <1>5, <2>2, <3>2 DEF WithoutEntry
      <4>2. QED BY <1>2, <1>6, <2>1, <3>1, <3>2, <4>1, ReadsOwn DEF svc
    <3>3. CASE c # <<>>
      <4>1. WithoutEntry(svc, key) = OwnLabels(Node(own.kind, c))
        BY <1>3, <1>4, <2>2, <3>3 DEF WithoutEntry
      <4>2. QED BY <1>2, <1>3, <1>6, <2>1, <3>1, <4>1 DEF svc
    <3>4. QED BY <3>2, <3>3
  <2>3. CASE Find(c, key) # 0
    <3> DEFINE p == Find(c, key)
               n == RemoveAt(c, p)
    <3>1. p \in DOMAIN c /\ c[p][1] = key BY <1>1, <2>3, FindIs
    <3>2. Parsed(n) = Labelled(Parsed(c), key, Empty) BY <1>1, <3>1, RemoveReads
    <3>3. CASE n = <<>>
      <4>1. WithoutEntry(svc, key) = OwnLabels(Node("none", <<>>))
        BY <1>3, <1>5, <2>3, <3>3 DEF WithoutEntry
      <4>2. QED BY <1>2, <1>6, <2>1, <3>2, <3>3, <4>1, ReadsOwn DEF svc
    <3>4. CASE n # <<>>
      <4>1. WithoutEntry(svc, key) = OwnLabels(Node(own.kind, n))
        BY <1>3, <1>4, <2>3, <3>4 DEF WithoutEntry
      <4>2. ParseLabels(OwnLabels(Node(own.kind, n))) = Parsed(n) BY <1>6, ReadsOwn
      <4>3. QED BY <1>2, <1>6, <2>1, <3>2, <4>1, <4>2 DEF svc
    <3>5. QED BY <3>3, <3>4
  <2>4. QED BY <2>2, <2>3
<1>7. CASE own.kind \in {"map", "list"} /\ value # Empty
  <2> DEFINE n == IF Find(c, key) = 0 THEN Append(c, <<key, value>>)
                  ELSE [c EXCEPT ![Find(c, key)] = <<key, value>>]
  <2>1. LabelOnNode(svc, key, value) = WithEntry(svc, key, value)
    BY <1>3, <1>7 DEF LabelOnNode
  <2>2. WithEntry(svc, key, value) = OwnLabels(Node(own.kind, n))
    BY <1>3, <1>4 DEF WithEntry
  <2>3. value \in LabelValues BY <1>7
  <2>4. Parsed(n) = Labelled(Parsed(c), key, value)
    <3>1. CASE Find(c, key) = 0 BY <1>1, <2>3, <3>1, FindIs, AppendReads
    <3>2. CASE Find(c, key) # 0 BY <1>1, <2>3, <3>2, FindIs, ReplaceReads
    <3>3. QED BY <3>1, <3>2
  <2> HIDE DEF n
  <2>5. ParseLabels(OwnLabels(Node(own.kind, n))) = Parsed(n) BY <1>7, ReadsOwn
  <2>6. QED BY <1>2, <2>1, <2>2, <2>4, <2>5 DEF svc
<1>8. CASE own.kind \in {"none", "scalar"} /\ value = Empty
  <2>1. LabelOnNode(svc, key, value) = svc BY <1>3, <1>8 DEF LabelOnNode
  <2>2. QED BY <1>1, <1>2, <1>8, <2>1, EmptyReads DEF svc
<1>9. CASE own.kind \in {"none", "scalar"} /\ value # Empty
  <2> DEFINE n == Append(c, <<key, value>>)
  <2>1. LabelOnNode(svc, key, value) = Relabelled(svc, "map", <<<<key, value>>>>)
    BY <1>3, <1>9 DEF LabelOnNode
  <2>2. n = <<<<key, value>>>>
    <3>1. \A e : Append(<<>>, e) = <<e>> OBVIOUS
    <3>2. QED BY <1>1, <1>9, <3>1
  <2>3. Parsed(n) = Labelled(Parsed(c), key, value) BY <1>1, <1>9, AppendReads
  <2>4. ParseLabels(OwnLabels(Node("map", n))) = Parsed(n) BY ReadsOwn
  <2>5. QED BY <1>2, <1>4, <2>1, <2>2, <2>3, <2>4 DEF svc
<1>10. QED BY <1>1, <1>6, <1>7, <1>8, <1>9 DEF svc

\* A service without labels is one of them.
LEMMA NoLabelsPlain == NoLabels \in Plain
BY DEF NoLabels, Plain

(* A label that is set or removed on every service of a compose file, whatever
   the labels of each, a mapping or a list of any length, is what a deploy then
   reads, and all other labels are as they were (compose_labels.go:17-76,
   113-189; compose.go:236-258). *)
THEOREM EveryServiceEdited ==
  ASSUME NEW before, NEW key \in LabelKeys, NEW value \in LabelValues \cup {Empty},
         \A s \in DOMAIN before :
             \E own \in Plain : before[s] = OwnLabels(own) /\ Single(own.content, key)
  PROVE  SetsLabel(before, key, value)
<1> DEFINE set == SetServiceLabel(before, key, value)
<1>1. \A s \in DOMAIN before : before[s].kind = "map" /\ ~Refused(before[s])
  BY PlainContent DEF OwnLabels, ServiceNode, Refused
<1>2. /\ set.error = FALSE
      /\ \A s \in DOMAIN before : set.services[s] = LabelOnNode(before[s], key, value)
  BY <1>1 DEF SetServiceLabel
<1>3. ASSUME NEW s \in DOMAIN before
      PROVE  ParseLabels(set.services[s]) = Labelled(ParseLabels(before[s]), key, value)
  BY <1>2, ServiceReads
<1>4. QED BY <1>2, <1>3 DEF SetsLabel

(* The same of the files that the run looks at: what a deploy reads of a compose
   file whose labels were edited. *)
THEOREM LabelsAreSet == Spec => []LabelIsSet
<1>1. ASSUME NEW labelled, NEW own \in Plain, NEW key \in LabelKeys,
             NEW value \in LabelValues \cup {Empty}, Single(own.content, key)
      PROVE  SetsLabel([s \in services |-> OwnLabels(IF s = labelled THEN own ELSE NoLabels)],
                       key, value)
  <2> DEFINE before == [s \in services |-> OwnLabels(IF s = labelled THEN own ELSE NoLabels)]
  <2>1. Single(NoLabels.content, key) BY DEF Single, Positions, NoLabels, Node
  <2>2. \A s \in DOMAIN before :
          \E o \in Plain : before[s] = OwnLabels(o) /\ Single(o.content, key)
    BY <1>1, <2>1, NoLabelsPlain
  <2> HIDE DEF before
  <2>3. SetsLabel(before, key, value) BY <2>2, EveryServiceEdited
  <2>4. QED BY <2>3 DEF before
<1>2. LabelIsSet BY <1>1 DEF LabelIsSet, LabelIsSetIn, Single
<1>3. QED BY <1>2, PTL
===============================================================================
