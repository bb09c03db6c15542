---------------------------- MODULE Containers_proofs ----------------------------
(***************************************************************************)
(* What is done to one container: a command run in it (ExecCommand) and    *)
(* the edit that replaces it (EditContainer).                              *)
(*                                                                         *)
(* ExecInv is an inductive invariant of ExecCommand, for any sizes and any *)
(* cap.  The cap is on a sum of sizes, so the sum comes first: what a      *)
(* recursive definition of it says is found by least counterexample.       *)
(*                                                                         *)
(* EditInv is an inductive invariant of EditContainer, for every number of *)
(* concurrent edits and every failure: the container is there once, or one *)
(* edit has removed it and says so.  That a sole edit does what it was     *)
(* asked follows.  First the daemon's containers, then one lemma for each  *)
(* action.                                                                 *)
(***************************************************************************)
EXTENDS EditContainer, ExecCommand, FiniteSetTheorems, SequenceTheorems,
        WellFoundedInduction, TLAPS

-----------------------------------------------------------------------------
(* The size of a sequence of chunks. *)

\* The least of a set of numbers.
LEMMA LeastIndex ==
    ASSUME NEW S \in SUBSET Nat, S # {}
    PROVE  \E i \in S : \A j \in S : ~(j < i)
<1>1. PICK i \in S : \A j \in S : ~(<<j, i>> \in OpToRel(<, Nat))
  BY WFMin, NatLessThanWellFounded
<1>2. QED BY <1>1 DEF OpToRel

\* f sums up the sizes of the first n chunks of s.
Sums(f, s, n) == /\ f \in [0..n -> Nat] /\ f[0] = 0
                 /\ \A k \in 1..n : f[k] = f[k - 1] + s[k].size

Sized(s) == Len(s) \in Nat /\ \A i \in 1..Len(s) : s[i].size \in Nat

\* There is such a sum: the shortest beginning without one has one.
LEMMA SumExists ==
    ASSUME NEW s, Sized(s)
    PROVE  \E f : Sums(f, s, Len(s))
<1> USE DEF Sized
<1> DEFINE bad == {n \in 0..Len(s) : ~ \E f : Sums(f, s, n)}
<1> SUFFICES ASSUME bad # {} PROVE FALSE OBVIOUS
<1>1. PICK n \in bad : \A m \in bad : ~(m < n)
  <2>1. bad \in SUBSET Nat OBVIOUS
  <2>2. QED BY <2>1, LeastIndex
<1>2. CASE n = 0
  <2>1. Sums([k \in 0..0 |-> 0], s, 0) BY DEF Sums
  <2>2. QED BY <1>1, <1>2, <2>1
<1>3. CASE n # 0
  <2>1. n - 1 \in 0..Len(s) /\ n - 1 \notin bad /\ n \in Nat /\ n \in 1..Len(s) BY <1>1, <1>3
  <2>2. PICK f : Sums(f, s, n - 1) BY <2>1
  <2> DEFINE g == [k \in 0..n |-> IF k = n THEN f[n - 1] + s[n].size ELSE f[k]]
  <2>3. Sums(g, s, n)
    <3>1. f[n - 1] \in Nat /\ s[n].size \in Nat BY <2>1, <2>2 DEF Sums
    <3>2. g \in [0..n -> Nat]
      <4>1. \A k \in 0..n : k # n => k \in 0..(n - 1) BY <2>1
      <4>2. QED BY <2>2, <3>1, <4>1 DEF Sums
    <3>3. g[0] = 0 BY <1>3, <2>1, <2>2 DEF Sums
    <3>4. ASSUME NEW k \in 1..n PROVE g[k] = g[k - 1] + s[k].size
      <4>1. k - 1 \in 0..n /\ k - 1 # n /\ k \in 0..n BY <2>1
      <4>2. CASE k = n BY <4>1, <4>2
      <4>3. CASE k # n
        <5>1. k \in 1..(n - 1) BY <2>1, <4>3
        <5>2. QED BY <2>2, <4>1, <4>3, <5>1 DEF Sums
      <4>4. QED BY <4>2, <4>3
    <3>5. QED BY <3>2, <3>3, <3>4 DEF Sums
  <2>4. QED BY <1>1, <2>3
<1>4. QED BY <1>2, <1>3

\* What a recursive definition of the sum says of it.
Adds(g, s, n) == /\ DOMAIN g = 0..n /\ g[0] = 0
                 /\ \A k \in 1..n : g[k] = g[k - 1] + s[k].size

\* Two sums agree as long as what they sum up does.
LEMMA SumsAgree ==
    ASSUME NEW f, NEW g, NEW s, NEW r, NEW n \in Nat, NEW m \in Nat, n <= m,
           Sums(f, s, n), Adds(g, r, m), \A i \in 1..n : s[i] = r[i]
    PROVE  \A k \in 0..n : f[k] = g[k]
<1> USE DEF Adds
<1> DEFINE bad == {k \in 0..n : f[k] # g[k]}
<1> SUFFICES ASSUME bad # {} PROVE FALSE OBVIOUS
<1>1. PICK k \in bad : \A i \in bad : ~(i < k)
  <2>1. bad \in SUBSET Nat OBVIOUS
  <2>2. QED BY <2>1, LeastIndex
<1>2. k # 0 BY <1>1 DEF Sums
<1>3. k \in 1..n /\ k \in 1..m /\ k - 1 \in 0..n /\ k - 1 < k BY <1>1, <1>2
<1>4. f[k - 1] = g[k - 1] BY <1>1, <1>3
<1>5. f[k] = f[k - 1] + s[k].size /\ g[k] = g[k - 1] + r[k].size BY <1>3 DEF Sums
<1>6. QED BY <1>1, <1>3, <1>4, <1>5

LEMMA SumIs == ASSUME NEW s, Sized(s) PROVE Sums(Sum(s), s, Len(s))
<1>1. PICK f : Sums(f, s, Len(s)) BY SumExists
<1>2. f = [k \in 0..Len(s) |-> IF k = 0 THEN 0 ELSE f[k - 1] + s[k].size]
  BY <1>1 DEF Sums
<1>3. PICK g : g = Sum(s) OBVIOUS
<1>4. g = [k \in 0..Len(s) |-> IF k = 0 THEN 0 ELSE g[k - 1] + s[k].size]
  BY <1>2, <1>3 DEF Sum
<1>5. /\ DOMAIN g = 0..Len(s) /\ Len(s) \in Nat
      /\ \A k \in 0..Len(s) : g[k] = IF k = 0 THEN 0 ELSE g[k - 1] + s[k].size
  BY <1>4 DEF Sized
<1>6. g[0] = 0 BY <1>5
<1>7. \A k \in 1..Len(s) : k \in 0..Len(s) /\ k # 0 BY <1>5
<1>8. \A k \in 1..Len(s) : g[k] = g[k - 1] + s[k].size BY <1>5, <1>7
<1>9. \A k \in 0..Len(s) : f[k] = g[k]
  <2>1. Adds(g, s, Len(s)) BY <1>5, <1>6, <1>8 DEF Adds
  <2>2. PICK n \in Nat : n = Len(s) BY <1>5
  <2>3. Sums(f, s, n) /\ Adds(g, s, n) /\ n <= n BY <1>1, <2>1, <2>2
  <2>4. \A k \in 0..n : f[k] = g[k] BY <2>3, SumsAgree
  <2>5. QED BY <2>2, <2>4
<1>10. f = g
  <2>1. f = [k \in 0..Len(s) |-> f[k]] BY <1>1 DEF Sums
  <2>2. g = [k \in 0..Len(s) |-> g[k]] BY <1>4
  <2>3. QED BY <1>9, <2>1, <2>2
<1>11. QED BY <1>1, <1>3, <1>10

\* The sum at the end is the greatest.
LEMMA SumGrows ==
    ASSUME NEW s, Sized(s)
    PROVE  /\ Sum(s) \in [0..Len(s) -> Nat] /\ Total(s) \in Nat
           /\ \A k \in 0..Len(s) : Sum(s)[k] <= Total(s)
<1>1. PICK f : f = Sum(s) OBVIOUS
<1>2. PICK n \in Nat : n = Len(s) BY DEF Sized
<1>3. Sums(f, s, n) /\ Total(s) = f[n] BY <1>1, <1>2, SumIs DEF Total
<1> DEFINE bad == {j \in 0..n : ~(f[n - j] <= f[n])}
<1>4. bad = {}
  <2> SUFFICES ASSUME bad # {} PROVE FALSE OBVIOUS
  <2>1. PICK j \in bad : \A i \in bad : ~(i < j)
    <3>1. bad \in SUBSET Nat OBVIOUS
    <3>2. QED BY <3>1, LeastIndex
  <2>2. j # 0 BY <1>2, <1>3, <2>1 DEF Sums
  <2>3. j - 1 \in 0..n /\ j - 1 < j /\ n - j \in 0..n /\ n - (j - 1) \in 1..n
        /\ (n - (j - 1)) - 1 = n - j
    BY <1>2, <2>1, <2>2
  <2>4. f[n - (j - 1)] <= f[n] BY <2>1, <2>3
  <2>5. f[n - (j - 1)] = f[n - j] + s[n - (j - 1)].size BY <1>3, <2>3 DEF Sums
  <2>6. f[n] \in Nat /\ f[n - j] \in Nat /\ s[n - (j - 1)].size \in Nat
    <3>1. f \in [0..n -> Nat] /\ n \in 0..n BY <1>2, <1>3 DEF Sums
    <3>2. n - (j - 1) \in 1..Len(s) BY <1>2, <2>3
    <3>3. s[n - (j - 1)].size \in Nat BY <3>2 DEF Sized
    <3>4. QED BY <2>3, <3>1, <3>3
  <2>7. f[n - j] <= f[n] BY <2>4, <2>5, <2>6
  <2>8. QED BY <2>1, <2>7
<1>5. ASSUME NEW k \in 0..n PROVE f[k] <= f[n]
  <2>1. n - k \in 0..n /\ n - (n - k) = k BY <1>2
  <2>2. n - k \notin bad BY <1>4
  <2>3. QED BY <2>1, <2>2
<1>6. f[n] \in Nat BY <1>2, <1>3 DEF Sums
<1>7. QED BY <1>1, <1>2, <1>3, <1>5, <1>6 DEF Sums

\* Another chunk adds its size.
LEMMA SumAppend ==
    ASSUME NEW s, NEW t, Sized(s), Sized(t), Len(t) = Len(s) + 1,
           \A i \in 1..Len(s) : t[i] = s[i]
    PROVE  /\ \A k \in 0..Len(s) : Sum(t)[k] = Sum(s)[k]
           /\ Total(t) = Total(s) + t[Len(s) + 1].size
<1>1. PICK n \in Nat : n = Len(s) BY DEF Sized
<1>2. PICK f : f = Sum(s) /\ Sums(f, s, n) /\ Total(s) = f[n]
  BY <1>1, SumIs DEF Total
<1>3. PICK g : g = Sum(t) /\ Sums(g, t, n + 1) /\ Total(t) = g[n + 1]
  BY <1>1, SumIs DEF Total
<1>4. \A k \in 0..n : f[k] = g[k]
  <2>1. Adds(g, t, n + 1) /\ n <= n + 1 /\ n + 1 \in Nat BY <1>3 DEF Sums, Adds
  <2>2. \A i \in 1..n : s[i] = t[i] BY <1>1
  <2>3. QED BY <1>2, <2>1, <2>2, SumsAgree
<1>5. g[n + 1] = g[n] + t[n + 1].size
  <2>1. n + 1 \in 1..(n + 1) /\ (n + 1) - 1 = n BY <1>1
  <2>2. QED BY <1>3, <2>1 DEF Sums
<1>6. QED BY <1>1, <1>2, <1>3, <1>4, <1>5


-----------------------------------------------------------------------------
(* ExecCommand: the numbers of the chunks, and what has been read of them. *)

USE BoundsAssumption

LEMMA ChunkFields ==
    /\ \A c \in Chunks : c.n \in Nat /\ c.size \in Nat /\ c.pipe \in Pipes
    /\ \A s \in Seq(Chunks) : Sized(s)
<1>1. ASSUME NEW c \in Chunks
      PROVE  c.n \in Nat /\ c.size \in Nat /\ c.pipe \in Pipes
  <2>1. c.n \in 1..MaxChunks /\ c.size \in Sizes /\ c.pipe \in Pipes BY DEF Chunks
  <2>2. c.size \in Nat BY <2>1
  <2>3. \A n \in 1..MaxChunks : n \in Nat OBVIOUS
  <2>4. QED BY <2>1, <2>2, <2>3
<1>2. ASSUME NEW s \in Seq(Chunks) PROVE Sized(s)
  <2>1. Len(s) \in Nat /\ \A i \in 1..Len(s) : s[i] \in Chunks OBVIOUS
  <2>2. QED BY <1>1, <2>1 DEF Sized
<1>3. QED BY <1>1, <1>2

Numbers == \A i \in 1..Len(written) : written[i].n = i
Reading == \E k \in 0..Len(written) : ReadUpTo(k)

\* The conjuncts of the invariant.
LEMMA ExecParts ==
    ExecIInv <=> /\ ExecTypeOK /\ TruncatedIsTooMuch /\ Ended
                 /\ Numbers /\ Reading
BY DEF ExecIInv, Numbers, Reading

\* What the connection, the timer and the request do leaves the chunks alone.
LEMMA SameChunks ==
    ASSUME Numbers, Reading, TruncatedIsTooMuch,
           UNCHANGED <<written, stream, captured, truncated>>, cut => cut'
    PROVE  Numbers' /\ Reading' /\ TruncatedIsTooMuch' /\ Captured' = Captured
<1>1. Captured' = Captured BY DEF Captured
<1>2. Numbers' BY DEF Numbers
<1>3. TruncatedIsTooMuch' BY DEF TruncatedIsTooMuch
<1>4. PICK k \in 0..Len(written) : ReadUpTo(k) BY DEF Reading
<1>5. ReadUpTo(k)'
  <2>1. \A p : /\ Kept(p)' = Kept(p) /\ KeptInOrder(p)' = KeptInOrder(p)
              /\ From(p, k)' = From(p, k)
    BY DEF Kept, KeptInOrder, From
  <2>2. QED BY <1>1, <1>4, <2>1 DEF ReadUpTo
<1>6. k \in 0..Len(written') OBVIOUS
<1>7. QED BY <1>1, <1>2, <1>3, <1>5, <1>6 DEF Reading

LEMMA InitExecIInv == ExecInit => ExecIInv
<1> SUFFICES ASSUME ExecInit PROVE ExecIInv OBVIOUS
<1> USE DEF ExecInit
<1>1. Total(<<>>) = 0 /\ Sum(<<>>)[0] = 0
  <2>1. Sized(<<>>) /\ Len(<<>>) = 0 BY DEF Sized
  <2>2. Sums(Sum(<<>>), <<>>, 0) BY <2>1, SumIs
  <2>3. QED BY <2>1, <2>2 DEF Sums, Total
<1>2. Captured = 0 BY <1>1 DEF Captured, Pipes
<1>3. ExecTypeOK
  <2>1. <<>> \in Seq(Chunks) /\ Len(<<>>) = 0 OBVIOUS
  <2>2. captured \in [Pipes -> Seq(Chunks)] BY <2>1
  <2>3. 0 <= StreamCap /\ 0 <= MaxOutput OBVIOUS
  <2>4. QED BY <1>2, <2>1, <2>2, <2>3 DEF ExecTypeOK, Codes
<1>4. ReadUpTo(0)
  <2>1. \A p \in Pipes : KeptInOrder(p) BY DEF KeptInOrder
  <2>2. \A p \in Pipes : Kept(p) = {} BY DEF Kept
  <2>3. \A p \in Pipes : From(p, 0) = {} BY DEF From
  <2>4. QED BY <1>1, <1>2, <2>1, <2>2, <2>3 DEF ReadUpTo
<1>5. 0 \in 0..Len(written) OBVIOUS
<1>6. QED
  BY <1>3, <1>4, <1>5, ExecParts DEF TruncatedIsTooMuch, Ended, Numbers, Reading

\* The steps that leave the chunks alone.
LEMMA ExecQuietStep ==
    ASSUME ExecIInv,
           \/ \E c \in Codes : Exit(c)
           \/ Cut \/ ReadEnds \/ Request \/ Expire
           \/ UNCHANGED execVars
    PROVE  ExecIInv'
<1> USE DEF command, buffers, polling
<1>1. ExecTypeOK /\ TruncatedIsTooMuch /\ Ended /\ Numbers /\ Reading BY ExecParts
<1>2. ASSUME UNCHANGED <<written, stream, captured, truncated>>, cut => cut',
             proc' \in {"running", "exited"}, code' \in Codes, cut' \in BOOLEAN,
             reader' \in {"read", "stopped"},
             place' \in {"inspect", "deadline", "sleep", "join", "returned"},
             expired' \in BOOLEAN, timedOut' \in BOOLEAN,
             exitCode' \in Codes \cup {-1}, failed' \in BOOLEAN, Ended'
      PROVE  ExecIInv'
  <2>1. Numbers' /\ Reading' /\ TruncatedIsTooMuch' /\ Captured' = Captured
    BY <1>1, <1>2, SameChunks
  <2>2. ExecTypeOK' BY <1>1, <1>2, <2>1 DEF ExecTypeOK
  <2>3. QED BY <1>2, <2>1, <2>2 DEF ExecIInv, Numbers, Reading
<1>3. /\ proc \in {"running", "exited"} /\ code \in Codes /\ cut \in BOOLEAN
      /\ reader \in {"read", "stopped"}
      /\ place \in {"inspect", "deadline", "sleep", "join", "returned"}
      /\ expired \in BOOLEAN /\ timedOut \in BOOLEAN
      /\ exitCode \in Codes \cup {-1} /\ failed \in BOOLEAN
  BY <1>1 DEF ExecTypeOK
<1>4. ASSUME NEW c \in Codes, Exit(c) PROVE ExecIInv'
  BY <1>1, <1>2, <1>3, <1>4 DEF Exit, Ended
<1>5. CASE Cut
  BY <1>1, <1>2, <1>3, <1>5 DEF Cut, Ended
<1>6. CASE ReadEnds
  BY <1>1, <1>2, <1>3, <1>6 DEF ReadEnds, Ended
<1>7. ASSUME NEW ok \in BOOLEAN, InspectExec(ok) PROVE ExecIInv'
  BY <1>1, <1>2, <1>3, <1>7 DEF InspectExec, Move, Ended
<1>8. CASE Deadline
  BY <1>1, <1>2, <1>3, <1>8 DEF Deadline, Move, Ended
<1>9. CASE Sleep
  BY <1>1, <1>2, <1>3, <1>9 DEF Sleep, Move, Ended
<1>10. CASE Join
  BY <1>1, <1>2, <1>3, <1>10 DEF Join, Move, Ended
<1>11. CASE Expire
  BY <1>1, <1>2, <1>3, <1>11 DEF Expire, Ended
<1>12. CASE UNCHANGED execVars
  BY <1>1, <1>2, <1>3, <1>12 DEF execVars, Ended
<1>13. QED BY <1>4, <1>5, <1>6, <1>7, <1>8, <1>9, <1>10, <1>11, <1>12 DEF Request

LEMMA ExecWriteStep ==
    ASSUME ExecIInv,
           NEW p \in Pipes, NEW size \in Sizes, Write(p, size)
    PROVE  ExecIInv'
<1> USE DEF buffers, polling
<1>0. ExecTypeOK /\ TruncatedIsTooMuch /\ Ended /\ Numbers /\ Reading BY ExecParts
<1>1. PICK n \in Nat : n = Len(written) /\ written \in Seq(Chunks) BY <1>0 DEF ExecTypeOK
<1> DEFINE c == [n |-> n + 1, pipe |-> p, size |-> size]
<1>2. /\ n < MaxChunks /\ proc = "running" /\ written' = Append(written, c)
      /\ stream' = IF cut THEN stream ELSE Append(stream, c)
      /\ cut \/ Len(stream) < StreamCap
      /\ UNCHANGED <<proc, code, cut, reader, captured, truncated, place, timedOut, exitCode,
                     failed, expired>>
  BY <1>1 DEF Write
<1>3. c \in Chunks /\ c.size \in Nat
  <2>1. n + 1 \in 1..MaxChunks BY <1>2
  <2>2. QED BY <2>1 DEF Chunks
<1> HIDE DEF c
<1>4. PICK w \in Seq(Chunks) : w = written' BY <1>1, <1>2, <1>3
<1>5. Len(w) = n + 1 /\ w[n + 1] = c /\ \A i \in 1..n : w[i] = written[i]
  BY <1>1, <1>2, <1>3, <1>4
<1>6. Sized(written) /\ Sized(w) BY <1>1, <1>4, ChunkFields
<1>7. /\ \A k \in 0..n : Sum(w)[k] = Sum(written)[k]
      /\ Total(w) = Total(written) + c.size
  BY <1>1, <1>5, <1>6, SumAppend
<1>8. Captured' = Captured BY <1>2 DEF Captured
<1>9. Numbers'
  <2>1. c.n = n + 1 BY DEF c
  <2>2. \A i \in 1..(n + 1) : i \in 1..n \/ i = n + 1 OBVIOUS
  <2>3. \A i \in 1..(n + 1) : w[i].n = i BY <1>0, <1>1, <1>5, <2>1, <2>2 DEF Numbers
  <2>4. QED BY <1>4, <1>5, <2>3 DEF Numbers
<1>10. TruncatedIsTooMuch'
  <2>1. Total(written) \in Nat BY <1>6, SumGrows
  <2>2. truncated => Total(w) > MaxOutput
    BY <1>0, <1>3, <1>7, <2>1 DEF TruncatedIsTooMuch
  <2>3. QED BY <1>2, <1>4, <2>2 DEF TruncatedIsTooMuch
<1>11. Ended' BY <1>0, <1>2 DEF Ended
<1>12. stream \in Seq(Chunks) /\ Len(stream) <= StreamCap /\ Len(stream) \in Nat
  BY <1>0 DEF ExecTypeOK
<1>13. stream' \in Seq(Chunks) /\ Len(stream') <= StreamCap
  <2>1. CASE cut BY <1>2, <1>12, <2>1
  <2>2. CASE ~cut
    <3>1. stream' = Append(stream, c) BY <1>2, <2>2
    <3>2. stream' \in Seq(Chunks) /\ Len(stream') = Len(stream) + 1 BY <1>3, <1>12, <3>1
    <3>3. QED BY <1>2, <1>12, <2>2, <3>2
  <2>3. QED BY <2>1, <2>2
<1>14. ExecTypeOK' BY <1>0, <1>2, <1>4, <1>8, <1>13 DEF ExecTypeOK
<1>15. Reading'
  <2>1. PICK k \in 0..n : ReadUpTo(k) BY <1>0, <1>1 DEF Reading
  <2>2. PICK m \in Nat : m = Len(stream) BY <1>12
  <2>3. /\ k + m <= n /\ (~cut => k + m = n)
        /\ \A i \in 1..m : stream[i] = written[k + i]
    BY <1>1, <2>1, <2>2 DEF ReadUpTo
  <2>4. \A q : /\ Kept(q)' = Kept(q) /\ KeptInOrder(q)' = KeptInOrder(q)
               /\ From(q, k)' = From(q, k)
    <3>1. \A q : Kept(q)' = Kept(q) /\ KeptInOrder(q)' = KeptInOrder(q)
      BY <1>2 DEF Kept, KeptInOrder
    <3>2. \A i \in 1..k : w[i] = written[i] BY <1>5, <2>1
    <3>3. ASSUME NEW q PROVE From(q, k)' = From(q, k)
      BY <1>4, <3>2 DEF From
    <3>4. QED BY <3>1, <3>3
  <2>5. /\ k + Len(stream') <= n + 1 /\ (~cut => k + Len(stream') = n + 1)
        /\ \A i \in 1..Len(stream') : stream'[i] = w[k + i]
    <3>1. \A i \in 1..m : k + i \in 1..n /\ stream[i] = w[k + i] BY <1>5, <2>1, <2>3
    <3>2. CASE cut
      <4>1. stream' = stream BY <1>2, <3>2
      <4>2. QED BY <2>1, <2>2, <2>3, <3>1, <3>2, <4>1
    <3>3. CASE ~cut
      <4>1. stream' = Append(stream, c) BY <1>2, <3>3
      <4>2. /\ Len(stream') = m + 1 /\ stream'[m + 1] = c
            /\ \A i \in 1..m : stream'[i] = stream[i]
        BY <1>3, <1>12, <2>2, <4>1
      <4>3. ASSUME NEW i \in 1..(m + 1) PROVE stream'[i] = w[k + i]
        <5>1. CASE i \in 1..m BY <3>1, <4>2, <5>1
        <5>2. CASE i = m + 1
          <6>1. k + i = n + 1 BY <2>1, <2>3, <3>3, <5>2
          <6>2. QED BY <1>5, <4>2, <5>2, <6>1
        <5>3. QED BY <5>1, <5>2
      <4>4. QED BY <2>1, <2>3, <3>3, <4>2, <4>3
    <3>4. QED BY <3>2, <3>3
  <2>6. Captured <= Sum(w)[k] BY <1>7, <2>1 DEF ReadUpTo
  <2>7. ReadUpTo(k)'
    BY <1>2, <1>4, <1>5, <1>8, <2>1, <2>4, <2>5, <2>6 DEF ReadUpTo
  <2>8. k \in 0..Len(written') BY <1>4, <1>5, <2>1
  <2>9. QED BY <2>7, <2>8 DEF Reading
<1>16. QED BY <1>9, <1>10, <1>11, <1>14, <1>15 DEF ExecIInv, Numbers, Reading

\* A chunk that is kept becomes the last of its pipe.
LEMMA Keeping ==
    ASSUME ExecTypeOK, NEW c \in Chunks,
           captured' = [captured EXCEPT ![c.pipe] = Append(@, c)]
    PROVE  /\ Captured' = Captured + c.size
           /\ captured' \in [Pipes -> Seq(Chunks)]
           /\ \A p \in Pipes :
                /\ Kept(p)' = IF p = c.pipe THEN Kept(p) \cup {c} ELSE Kept(p)
                /\ KeptInOrder(p) /\ (\A d \in Kept(p) : d.n < c.n)
                   => KeptInOrder(p)'
<1>1. captured \in [Pipes -> Seq(Chunks)] BY DEF ExecTypeOK
<1>2. c.pipe \in Pipes /\ c.size \in Nat BY ChunkFields
<1>3. PICK s \in Seq(Chunks) : s = captured[c.pipe] BY <1>1, <1>2
<1>4. PICK t \in Seq(Chunks) : t = Append(s, c)
  <2>1. Append(s, c) \in Seq(Chunks) BY <1>3
  <2>2. QED BY <2>1
<1>5. PICK n \in Nat : n = Len(s) BY <1>3
<1>6. /\ captured'[c.pipe] = t
      /\ \A p \in Pipes : p # c.pipe => captured'[p] = captured[p]
      /\ captured' \in [Pipes -> Seq(Chunks)]
  BY <1>1, <1>2, <1>3, <1>4
<1>7. Len(t) = n + 1 /\ t[n + 1] = c /\ \A i \in 1..n : t[i] = s[i] BY <1>3, <1>4, <1>5
<1>8. Total(t) = Total(s) + c.size
  <2>1. Sized(s) /\ Sized(t) BY <1>3, <1>4, ChunkFields
  <2>2. QED BY <1>5, <1>7, <2>1, SumAppend
<1>9. Captured' = Captured + c.size
  <2>1. \A p \in Pipes : Total(captured[p]) \in Nat
    <3>1. ASSUME NEW p \in Pipes PROVE Total(captured[p]) \in Nat
      <4>1. Sized(captured[p]) BY <1>1, ChunkFields
      <4>2. QED BY <4>1, SumGrows
    <3>2. QED BY <3>1
  <2>2. PICK o \in Nat : o = Total(captured["out"]) BY <2>1 DEF Pipes
  <2>3. PICK e \in Nat : e = Total(captured["err"]) BY <2>1 DEF Pipes
  <2>4. CASE c.pipe = "out"
    <3>1. captured'["out"] = t /\ captured'["err"] = captured["err"]
      BY <1>6, <2>4 DEF Pipes
    <3>2. Total(t) = o + c.size BY <1>3, <1>8, <2>2, <2>4
    <3>3. Captured' = (o + c.size) + e BY <2>3, <3>1, <3>2 DEF Captured
    <3>4. QED BY <1>2, <2>2, <2>3, <3>3 DEF Captured
  <2>5. CASE c.pipe = "err"
    <3>1. captured'["err"] = t /\ captured'["out"] = captured["out"]
      BY <1>6, <2>5 DEF Pipes
    <3>2. Total(t) = e + c.size BY <1>3, <1>8, <2>3, <2>5
    <3>3. Captured' = o + (e + c.size) BY <2>2, <3>1, <3>2 DEF Captured
    <3>4. QED BY <1>2, <2>2, <2>3, <3>3 DEF Captured
  <2>6. QED BY <1>2, <2>4, <2>5 DEF Pipes
<1>10. ASSUME NEW p \in Pipes
       PROVE  /\ Kept(p)' = IF p = c.pipe THEN Kept(p) \cup {c} ELSE Kept(p)
              /\ KeptInOrder(p) /\ (\A d \in Kept(p) : d.n < c.n)
                 => KeptInOrder(p)'
  <2>1. CASE p # c.pipe
    <3>1. captured'[p] = captured[p] BY <1>6, <2>1
    <3>2. QED BY <2>1, <3>1 DEF Kept, KeptInOrder
  <2>2. CASE p = c.pipe
    <3>1. Kept(p) = {s[i] : i \in 1..n} BY <1>3, <1>5, <2>2 DEF Kept
    <3>2. Kept(p)' = {t[i] : i \in 1..(n + 1)}
      <4>1. captured'[p] = t BY <1>6, <2>2
      <4>2. QED BY <1>7, <4>1 DEF Kept
    <3>3. {t[i] : i \in 1..(n + 1)} = {s[i] : i \in 1..n} \cup {c}
      <4>1. ASSUME NEW i \in 1..(n + 1) PROVE t[i] \in {s[j] : j \in 1..n} \cup {c}
        <5>1. i \in 1..n \/ i = n + 1 BY <1>5
        <5>2. QED BY <1>7, <5>1
      <4>2. ASSUME NEW i \in 1..n PROVE s[i] \in {t[j] : j \in 1..(n + 1)}
        <5>1. i \in 1..(n + 1) BY <1>5
        <5>2. QED BY <1>7, <5>1
      <4>3. n + 1 \in 1..(n + 1) BY <1>5
      <4>4. c \in {t[j] : j \in 1..(n + 1)} BY <1>7, <4>3
      <4>5. QED BY <4>1, <4>2, <4>4
    <3>4. ASSUME KeptInOrder(p), \A d \in Kept(p) : d.n < c.n
          PROVE  KeptInOrder(p)'
      <4>1. \A i, j \in 1..n : i < j => s[i].n < s[j].n
        BY <1>3, <1>5, <2>2, <3>4 DEF KeptInOrder
      <4>2. \A i \in 1..n : s[i].n < c.n BY <3>1, <3>4
      <4>3. ASSUME NEW i \in 1..(n + 1), NEW j \in 1..(n + 1), i < j PROVE t[i].n < t[j].n
        <5>1. i \in 1..n /\ t[i] = s[i] BY <1>5, <1>7, <4>3
        <5>2. CASE j \in 1..n BY <1>7, <4>1, <4>3, <5>1, <5>2
        <5>3. CASE j = n + 1 BY <1>7, <4>2, <5>1, <5>3
        <5>4. QED BY <1>5, <5>2, <5>3
      <4>4. captured'[p] = t BY <1>6, <2>2
      <4>5. QED BY <1>7, <4>3, <4>4 DEF KeptInOrder
    <3>5. QED BY <2>2, <3>1, <3>2, <3>3, <3>4
  <2>3. QED BY <2>1, <2>2
<1>11. QED BY <1>6, <1>9, <1>10

LEMMA ExecReadStep ==
    ASSUME ExecIInv, Read
    PROVE  ExecIInv'
<1> USE DEF command, polling
<1>0. ExecTypeOK /\ TruncatedIsTooMuch /\ Ended /\ Numbers /\ Reading BY ExecParts
<1> DEFINE c == Head(stream)
           fits == Captured + c.size <= MaxOutput
<1>1. /\ reader = "read" /\ stream # <<>> /\ stream' = Tail(stream)
      /\ IF fits
           THEN captured' = [captured EXCEPT ![c.pipe] = Append(@, c)] /\ truncated' = truncated
           ELSE truncated' = TRUE /\ captured' = captured
      /\ UNCHANGED <<proc, code, written, cut, reader, place, timedOut, exitCode, failed, expired>>
  BY DEF Read
<1>2. PICK n \in Nat : n = Len(written) /\ Sized(written)
  <2>1. written \in Seq(Chunks) BY <1>0 DEF ExecTypeOK
  <2>2. Len(written) \in Nat BY <2>1
  <2>3. QED BY <2>1, <2>2, ChunkFields
<1>3. PICK k \in 0..n : ReadUpTo(k) BY <1>0, <1>2 DEF Reading
<1>4. stream \in Seq(Chunks) /\ Len(stream) <= StreamCap BY <1>0 DEF ExecTypeOK
<1>5. PICK m \in Nat : m = Len(stream) /\ m # 0 BY <1>1, <1>4, EmptySeq
<1>6. /\ k + m <= n /\ (~cut => k + m = n)
      /\ \A i \in 1..m : stream[i] = written[k + i]
      /\ Captured <= Sum(written)[k]
      /\ \A p \in Pipes : KeptInOrder(p) /\ Kept(p) \subseteq From(p, k)
      /\ ~truncated => \A p \in Pipes : From(p, k) \subseteq Kept(p)
  BY <1>2, <1>3, <1>5 DEF ReadUpTo
<1>7. c \in Chunks /\ c = stream[1] /\ c = written[k + 1] /\ k + 1 \in 1..n
  BY <1>1, <1>3, <1>4, <1>5, <1>6
<1>8. c.size \in Nat /\ c.pipe \in Pipes BY <1>7, ChunkFields
<1>9. /\ stream' \in Seq(Chunks) /\ Len(stream') = m - 1
      /\ \A i \in 1..(m - 1) : stream'[i] = stream[i + 1]
  BY <1>1, <1>4, <1>5
<1> HIDE DEF c
<1>10. /\ Sum(written)[k + 1] = Sum(written)[k] + c.size
       /\ Sum(written)[k] \in Nat /\ Sum(written)[k + 1] \in Nat
       /\ Total(written) \in Nat /\ Sum(written)[k + 1] <= Total(written)
  <2>1. PICK f : f = Sum(written) /\ Sums(f, written, n) BY <1>2, SumIs
  <2>2. (k + 1) - 1 = k /\ k \in 0..n /\ k + 1 \in 0..n BY <1>3, <1>7
  <2>3. f[k + 1] = f[k] + c.size BY <1>7, <2>1, <2>2 DEF Sums
  <2>4. f \in [0..n -> Nat] BY <2>1 DEF Sums
  <2>5. Total(written) \in Nat /\ f[k + 1] <= Total(written)
    BY <1>2, <2>1, <2>2, SumGrows
  <2>6. QED BY <2>1, <2>2, <2>3, <2>4, <2>5
<1>11. Captured \in Nat /\ MaxOutput \in Nat
  <2>1. ASSUME NEW p \in Pipes PROVE Total(captured[p]) \in Nat
    <3>1. captured[p] \in Seq(Chunks) BY <1>0 DEF ExecTypeOK
    <3>2. Sized(captured[p]) BY <3>1, ChunkFields
    <3>3. QED BY <3>2, SumGrows
  <2>2. QED BY <2>1 DEF Captured, Pipes
<1>12. \A p : /\ From(p, k + 1) = IF p = c.pipe THEN From(p, k) \cup {c}
                                             ELSE From(p, k)
              /\ From(p, k + 1)' = From(p, k + 1)
  <2>1. ASSUME NEW p
        PROVE  From(p, k + 1) = IF p = c.pipe THEN From(p, k) \cup {c}
                                             ELSE From(p, k)
    <3>1. \A i \in 1..(k + 1) : i \in 1..k \/ i = k + 1 BY <1>3
    <3>2. \A i \in 1..k : i \in 1..(k + 1) BY <1>3
    <3>3. k + 1 \in 1..(k + 1) BY <1>3
    <3>4. QED BY <1>7, <3>1, <3>2, <3>3 DEF From
  <2>2. ASSUME NEW p PROVE From(p, k + 1)' = From(p, k + 1)
    BY <1>1 DEF From
  <2>3. QED BY <2>1, <2>2
<1>13. Numbers' BY <1>0, <1>1 DEF Numbers
<1>14. Ended' BY <1>0, <1>1 DEF Ended
<1>15. /\ (k + 1) + Len(stream') <= Len(written')
       /\ ~cut' => (k + 1) + Len(stream') = Len(written')
       /\ \A i \in 1..Len(stream') : stream'[i] = written'[(k + 1) + i]
  <2>1. (k + 1) + (m - 1) = k + m BY <1>3, <1>5
  <2>2. ASSUME NEW i \in 1..(m - 1) PROVE stream'[i] = written[(k + 1) + i]
    <3>1. i + 1 \in 1..m /\ k + (i + 1) = (k + 1) + i BY <1>3, <1>5
    <3>2. stream[i + 1] = written[k + (i + 1)] BY <1>6, <3>1
    <3>3. QED BY <1>9, <3>1, <3>2
  <2>3. QED BY <1>1, <1>2, <1>6, <1>9, <2>1, <2>2
<1>16. k + 1 \in 0..Len(written') BY <1>1, <1>2, <1>7
<1>17. CASE fits
  <2>1. captured' = [captured EXCEPT ![c.pipe] = Append(@, c)] /\ truncated' = truncated
    BY <1>1, <1>17
  <2>2. /\ Captured' = Captured + c.size
        /\ captured' \in [Pipes -> Seq(Chunks)]
        /\ \A p \in Pipes :
             /\ Kept(p)' = IF p = c.pipe THEN Kept(p) \cup {c} ELSE Kept(p)
             /\ KeptInOrder(p) /\ (\A d \in Kept(p) : d.n < c.n)
                => KeptInOrder(p)'
    BY <1>0, <1>7, <2>1, Keeping
  <2>3. ExecTypeOK' BY <1>0, <1>1, <1>4, <1>5, <1>9, <1>17, <2>1, <2>2 DEF ExecTypeOK
  <2>4. TruncatedIsTooMuch' BY <1>0, <1>1, <2>1 DEF TruncatedIsTooMuch
  <2>5. Captured' <= Sum(written)[k + 1] BY <1>6, <1>8, <1>10, <1>11, <2>2
  <2>6. ASSUME NEW p \in Pipes PROVE KeptInOrder(p)'
    <3>1. c.n = k + 1 BY <1>0, <1>2, <1>7 DEF Numbers
    <3>2. ASSUME NEW d \in From(p, k) PROVE d.n < c.n
      <4>1. PICK i \in 1..k : d = written[i] BY <3>2 DEF From
      <4>2. i \in 1..n /\ i < k + 1 BY <1>3, <4>1
      <4>3. QED BY <1>0, <1>2, <3>1, <4>1, <4>2 DEF Numbers
    <3>3. \A d \in Kept(p) : d.n < c.n BY <1>6, <3>2
    <3>4. QED BY <1>6, <2>2, <3>3
  <2>7. \A p \in Pipes : /\ Kept(p)' \subseteq From(p, k + 1)'
                         /\ ~truncated' => From(p, k + 1)' \subseteq Kept(p)'
    <3>1. ASSUME NEW p \in Pipes
          PROVE  /\ Kept(p)' \subseteq From(p, k + 1)
                 /\ ~truncated => From(p, k + 1) \subseteq Kept(p)'
      <4>1. CASE p = c.pipe
        <5>1. /\ Kept(p)' = Kept(p) \cup {c}
              /\ From(p, k + 1) = From(p, k) \cup {c}
          BY <1>12, <2>2, <4>1
        <5>2. QED BY <1>6, <5>1
      <4>2. CASE p # c.pipe
        <5>1. Kept(p)' = Kept(p) /\ From(p, k + 1) = From(p, k)
          BY <1>12, <2>2, <4>2
        <5>2. QED BY <1>6, <5>1
      <4>3. QED BY <4>1, <4>2
    <3>2. QED BY <1>12, <2>1, <3>1
  <2>8. ReadUpTo(k + 1)' BY <1>1, <1>15, <2>5, <2>6, <2>7 DEF ReadUpTo
  <2>9. QED BY <1>13, <1>14, <1>16, <2>3, <2>4, <2>8 DEF ExecIInv, Numbers
<1>18. CASE ~fits
  <2>1. truncated' = TRUE /\ captured' = captured BY <1>1, <1>18
  <2>2. Captured' = Captured BY <2>1 DEF Captured
  <2>3. ExecTypeOK' BY <1>0, <1>1, <1>4, <1>5, <1>9, <2>1, <2>2 DEF ExecTypeOK
  <2>4. TruncatedIsTooMuch'
    <3>1. Total(written) > MaxOutput BY <1>6, <1>8, <1>10, <1>11, <1>18
    <3>2. QED BY <1>1, <3>1 DEF TruncatedIsTooMuch
  <2>5. Captured' <= Sum(written)[k + 1] BY <1>6, <1>8, <1>10, <1>11, <2>2
  <2>6. \A p : Kept(p)' = Kept(p) /\ KeptInOrder(p)' = KeptInOrder(p)
    BY <2>1 DEF Kept, KeptInOrder
  <2>7. \A p \in Pipes : KeptInOrder(p)' /\ Kept(p)' \subseteq From(p, k + 1)'
    BY <1>6, <1>12, <2>6
  <2>8. ReadUpTo(k + 1)' BY <1>1, <1>15, <2>1, <2>5, <2>7 DEF ReadUpTo
  <2>9. QED BY <1>13, <1>14, <1>16, <2>3, <2>4, <2>8 DEF ExecIInv, Numbers
<1>19. QED BY <1>17, <1>18

\* An invariant that is kept makes the result complete.
LEMMA ExecComplete ==
    ASSUME ExecIInv PROVE ResultComplete
<1>0. ExecTypeOK /\ Ended /\ Reading BY ExecParts
<1> SUFFICES ASSUME place = "returned", ~truncated, ~cut
             PROVE  /\ \A p \in Pipes :
                         Kept(p) = From(p, Len(written)) /\ KeptInOrder(p)
                    /\ ~timedOut /\ ~failed => exitCode = code
  BY DEF ResultComplete
<1>1. stream = <<>> /\ (~timedOut /\ ~failed => exitCode = code) BY <1>0 DEF Ended
<1>2. PICK k \in 0..Len(written) : ReadUpTo(k) BY <1>0 DEF Reading
<1>3. k = Len(written)
  <2>1. Len(stream) = 0 BY <1>1
  <2>2. Len(written) \in Nat BY <1>0 DEF ExecTypeOK
  <2>3. QED BY <1>2, <2>1, <2>2 DEF ReadUpTo
<1>4. QED BY <1>1, <1>2, <1>3 DEF ReadUpTo

(* However the command's output, the goroutine that reads it, the polling, the
   deadline and a failing connection interleave, for any sizes and any cap: the
   buffers stay within the cap, a result that does not say it is truncated is
   not, and holds all that was written, in order, with the exit code
   (exec.go:81-145). *)
THEOREM ExecInvariant == ExecSpec => []ExecInv
<1>1. ExecIInv /\ [ExecNext]_execVars => ExecIInv'
  BY ExecWriteStep, ExecReadStep, ExecQuietStep DEF ExecNext, Reader
<1>2. ExecIInv => ExecInv BY ExecComplete DEF ExecInv
<1>3. QED BY InitExecIInv, <1>1, <1>2, PTL DEF ExecSpec

-----------------------------------------------------------------------------
(* Edits. *)

USE EditAssumption DEF request, At, Goto, Answer, Fail

-----------------------------------------------------------------------------
(* Containers. *)

\* A container that is changed in one respect.
LEMMA Renamed ==
    ASSUME NEW c \in Containers, NEW n \in Names
    PROVE  LET d == [c EXCEPT !.name = n]
           IN  /\ d \in Containers /\ d.id = c.id /\ d.first = c.first /\ d.was = c.was
               /\ d.auto = c.auto
               /\ d.name = n /\ d.up = c.up /\ d.conf = c.conf
BY DEF Containers

LEMMA Switched ==
    ASSUME NEW c \in Containers, NEW up \in BOOLEAN
    PROVE  LET d == [c EXCEPT !.up = up]
           IN  /\ d \in Containers /\ d.id = c.id /\ d.first = c.first /\ d.was = c.was
               /\ d.auto = c.auto
               /\ d.name = c.name /\ d.up = up /\ d.conf = c.conf
BY DEF Containers

LEMMA Limited ==
    ASSUME NEW c \in Containers, NEW conf \in [Fields -> Values]
    PROVE  LET d == [c EXCEPT !.conf = conf]
           IN  /\ d \in Containers /\ d.id = c.id /\ d.first = c.first /\ d.was = c.was
               /\ d.auto = c.auto
               /\ d.name = c.name /\ d.up = c.up /\ d.conf = conf
BY DEF Containers

LEMMA EditedType ==
    ASSUME NEW r \in Requests, NEW conf \in [Fields -> Values], NEW fields
    PROVE  Edited(r, fields, conf) \in [Fields -> Values]
BY DEF Edited, Values

\* The container that is created again.
LEMMA RecreatedFields ==
    ASSUME TypeOK, NEW r \in Requests, old[r] # None
    PROVE  LET d == Recreated(r)
           IN  /\ old[r] \in Containers /\ NewName(r) \in Names
               /\ d \in Containers /\ d.id = nextId /\ d.first = old[r].first
               /\ d.was = old[r].was /\ d.name = NewName(r) /\ d.up = FALSE
               /\ d.conf = Merged(r)
<1> DEFINE o == old[r]
<1>1. o \in Containers BY DEF TypeOK
<1>2. NewName(r) \in Names
  <2>1. o.name \in Names BY <1>1 DEF Containers
  <2>2. edit[r].name \in Names \cup {NoName} BY DEF TypeOK, Edits
  <2>3. QED BY <2>1, <2>2 DEF NewName
<1>4. Merged(r) \in [Fields -> Values]
  <2>1. o.conf \in [Fields -> Values] BY <1>1 DEF Containers
  <2>2. [f \in Fields |-> IF f \in Copied THEN o.conf[f] ELSE "default"] \in [Fields -> Values]
    BY <2>1 DEF Values
  <2>3. QED BY <2>2, EditedType DEF Merged
<1>5. QED BY <1>1, <1>2, <1>4 DEF TypeOK, Recreated, Containers

\* An edit that recreates nothing has set every field it edits once it has set
\* those that are set in place.
LEMMA UneditedCopied ==
    ASSUME NEW r \in Requests, edit[r] \in Edits, ~Recreates(r)
    PROVE  edit[r].fields \cap InPlace = edit[r].fields \cap Copied
BY DEF Edits, Recreates, InPlace, Recreate, Copied

\* No two of them are at most one.
LEMMA OneIsOne ==
    ASSUME NEW S, \A c, d \in S : c = d
    PROVE  Cardinality(S) <= 1
<1>1. CASE S = {} BY <1>1, FS_EmptySet
<1>2. ASSUME NEW c \in S PROVE Cardinality(S) <= 1
  <2>1. S = {c} OBVIOUS
  <2>2. Cardinality({c}) = 1 BY FS_Singleton
  <2>3. QED BY <2>1, <2>2
<1>3. QED BY <1>1, <1>2

-----------------------------------------------------------------------------
(* What the steps of a request have in common. *)

\* The parts of EditInv that are about the daemon.
Daemon == /\ containers \subseteq Containers
          /\ \A c, d \in containers : c.id = d.id \/ c.name = d.name => c = d
          /\ nextId \in Ids /\ \A c \in containers : c.id < nextId

\* AtMostOnce follows from OneOfEach.
LEMMA Together ==
    ASSUME TypeOK', OneOfEach', Waits', \A q \in Requests : Held(q)' /\ Alone(q)'
    PROVE  EditInv'
<1>1. \A c, d \in Present' : c = d BY DEF Present, OneOfEach
<1>2. AtMostOnce' BY <1>1, OneIsOne DEF AtMostOnce
<1>3. QED BY <1>2 DEF EditInv

\* Who has made an edit before r moves is not the only one afterwards.
LEMMA OnlyMover ==
    ASSUME NEW r \in Requests, pc'[r] # "idle", \A q \in Requests \ {r} : pc'[q] = pc[q],
           Sole(r)' /\ Sole(r) => Alone(r)'
    PROVE  \A q \in Requests : Alone(q)'
<1>1. Sole(r)' => Sole(r) BY DEF Sole
<1>2. Alone(r)' BY <1>1 DEF Alone
<1>3. \A q \in Requests \ {r} : ~Sole(q)' BY DEF Sole
<1>4. QED BY <1>2, <1>3 DEF Alone

\* A step that leaves the daemon alone and neither creates nor ends.
LEMMA DaemonStays ==
    ASSUME EditInv, NEW r \in Requests, UNCHANGED <<containers, nextId>>,
           \A q \in Requests \ {r} : UNCHANGED <<pc[q], id[q], old[q], answer[q]>>,
           pc[r] # "create", pc'[r] # "create",
           answer[r] = "create" => answer'[r] = "create",
           pc[r] = "remove" \/ answer[r] = "remove"
             => answer'[r] = "remove" /\ old'[r] = old[r]
    PROVE  OneOfEach' /\ Waits'
<1> USE DEF EditInv
<1>1. OneOfEach' BY DEF OneOfEach
<1>2. Waits' BY DEF Waits, Present
<1>3. QED BY <1>1, <1>2

\* A container that is replaced by the same one, changed in some respect.
LEMMA Replaced ==
    ASSUME EditInv, NEW r \in Requests, NEW c \in containers, NEW d \in Containers,
           containers' = (containers \ {c}) \cup {d},
           d.id = c.id, d.first = c.first, d.auto = c.auto,
           d.name = c.name \/ \A e \in containers : e.name # d.name,
           nextId' = nextId, old' = old, id' = id,
           \A q \in Requests \ {r} : UNCHANGED <<pc[q], answer[q]>>,
           pc[r] \notin {"create", "remove"}, pc'[r] # "create",
           answer'[r] = answer[r]
    PROVE  /\ Daemon' /\ OneOfEach' /\ Waits'
           /\ \A q \in Requests \ {r} : Held(q)'
<1> USE DEF EditInv, TypeOK
<1>1. \A e \in containers' : \E o \in containers :
         e.id = o.id /\ e.first = o.first /\ e.auto = o.auto /\ (e = o \/ (e = d /\ o = c))
  OBVIOUS
<1>2. Daemon' BY DEF Daemon
<1>3. OneOfEach'
  <2>1. \A e, f \in containers' : e.first = f.first => e = f BY <1>1 DEF OneOfEach
  <2>2. \A q \in Requests, e \in containers' : pc'[q] = "create" => e.first # old[q].first
    BY <1>1 DEF OneOfEach
  <2>3. QED BY <2>1, <2>2 DEF OneOfEach
<1>4. Waits'
  <2>1. Present' = {} => Present = {} BY DEF Present
  <2>2. QED BY <2>1 DEF Waits
<1>5. \A q \in Requests \ {r} : Held(q)'
  BY <1>1 DEF Held, Mine
<1>6. QED BY <1>2, <1>3, <1>4, <1>5

-----------------------------------------------------------------------------
(* The edit in place. *)

LEMMA StartStep ==
    ASSUME NEW r \in Requests, EditInv, Start(r) PROVE EditInv'
<1> USE DEF EditInv, Start
<1>1. TypeOK' BY DEF TypeOK, Steps
<1>2. \A q \in Requests : Held(q)' BY DEF TypeOK, Held, Mine
<1>3. OneOfEach' /\ Waits' BY DaemonStays DEF TypeOK
<1>4. Alone(r)' BY DEF TypeOK, Alone, Sole, Present, Held
<1>5. \A q \in Requests : Alone(q)' BY <1>4, OnlyMover DEF TypeOK
<1>6. QED BY <1>1, <1>2, <1>3, <1>5, Together

LEMMA InspectStep ==
    ASSUME NEW r \in Requests, EditInv, Inspect(r) PROVE EditInv'
<1> USE DEF EditInv, Inspect
<1>1. TypeOK' BY DEF TypeOK, Steps, Containers
<1>2. \A q \in Requests : Held(q)' BY DEF TypeOK, Held, Mine, Containers
<1>3. OneOfEach' /\ Waits' BY DaemonStays DEF TypeOK, Held
<1>4. ASSUME Sole(r) PROVE Alone(r)'
  BY <1>4 DEF TypeOK, Alone, Present, Held
<1>5. \A q \in Requests : Alone(q)' BY <1>4, OnlyMover DEF TypeOK
<1>6. QED BY <1>1, <1>2, <1>3, <1>5, Together

LEMMA RenameStep ==
    ASSUME NEW r \in Requests, EditInv, Rename(r) PROVE EditInv'
<1> USE DEF EditInv
<1>0. /\ pc[r] = "rename" /\ answer[r] = "none"
      /\ UNCHANGED <<nextId, id, old, edit>>
  BY DEF Rename, Held
<1>1. ASSUME containers' = containers, name' = name,
             \/ /\ edit[r].name = NoName
                /\ pc' = [pc EXCEPT ![r] = "update"] /\ answer' = answer
             \/ /\ pc' = [pc EXCEPT ![r] = "end"]
                /\ answer' = [answer EXCEPT ![r] = "rename"]
      PROVE  EditInv'
  <2>1. TypeOK' BY <1>1, <1>0 DEF TypeOK, Steps
  <2>2. \A q \in Requests : Held(q)' BY <1>1, <1>0 DEF TypeOK, Held, Mine
  <2>3. OneOfEach' /\ Waits' BY <1>1, <1>0, <1>1, DaemonStays DEF TypeOK, Held
  <2>4. ASSUME Sole(r) PROVE Alone(r)'
    <3>1. CASE answer' = answer
      <4>1. pc'[r] = "update" /\ answer'[r] # "ok" BY <1>0, <1>1, <3>1 DEF TypeOK
      <4>2. PICK c \in Present : /\ c.id = 1 /\ c.name = "web" /\ c.up = c.was
                                 /\ \A f \in Copied : c.conf[f] = "original"
        BY <1>0, <2>4 DEF Alone
      <4>3. c \in Mine(r)' BY <1>0, <1>1, <2>4, <4>2 DEF Alone, Mine, Present
      <4>4. edit[r].name = NoName BY <1>0, <1>1, <3>1 DEF TypeOK
      <4>5. Made(r, c, {})' /\ c.up = c.was BY <1>0, <4>2, <4>4 DEF Made, Target, Present
      <4>6. QED BY <4>1, <4>3, <4>5 DEF Alone
    <3>2. CASE answer' # answer
      BY <1>0, <1>1, <3>2 DEF TypeOK, Alone
    <3>3. QED BY <3>1, <3>2
  <2>5. \A q \in Requests : Alone(q)' BY <1>0, <1>1, <2>4, OnlyMover DEF TypeOK
  <2>6. QED BY <2>1, <2>2, <2>3, <2>5, Together
<1>2. ASSUME NEW c \in Mine(r), edit[r].name # NoName,
             \A d \in containers : d.name # edit[r].name,
             containers' = (containers \ {c}) \cup {[c EXCEPT !.name = edit[r].name]},
             pc' = [pc EXCEPT ![r] = "update"], answer' = answer,
             name' = [name EXCEPT ![r] = edit[r].name]
      PROVE  EditInv'
  <2>1. edit[r].name \in Names BY <1>2 DEF TypeOK, Edits
  <2>2. c \in containers /\ c \in Containers /\ c.id = id[r]
    BY DEF Mine, TypeOK
  <2>3. PICK d \in Containers :
             /\ d.id = c.id /\ d.first = c.first /\ d.auto = c.auto
             /\ d.name = edit[r].name
             /\ d.was = c.was /\ d.up = c.up /\ d.conf = c.conf
             /\ containers' = (containers \ {c}) \cup {d}
    BY <1>2, <2>1, <2>2, Renamed
  <2>4. /\ containers' = (containers \ {c}) \cup {d}
        /\ \A e \in containers : e.name # d.name
    BY <1>2, <2>3
  <2>5. /\ pc'[r] = "update" /\ answer'[r] = answer[r]
        /\ \A q \in Requests \ {r} : pc'[q] = pc[q] /\ answer'[q] = answer[q]
    BY <1>2 DEF TypeOK
  <2>6. Daemon' /\ OneOfEach' /\ Waits' /\ \A q \in Requests \ {r} : Held(q)'
    BY <1>0, <2>2, <2>3, <2>4, <2>5, Replaced
  <2>7. TypeOK' BY <1>0, <1>2, <2>1, <2>6 DEF TypeOK, Daemon, Steps
  <2>8. Held(r)' BY <1>0, <2>2, <2>5 DEF TypeOK, Held
  <2>9. ASSUME Sole(r) PROVE Alone(r)'
    <3>1. d \in Mine(r)' BY <1>0, <2>2, <2>3, <2>4 DEF Mine
    <3>2. PICK e \in Present : /\ e.id = 1 /\ e.name = "web" /\ e.up = e.was
                               /\ \A f \in Copied : e.conf[f] = "original"
      BY <1>0, <2>9 DEF Alone
    <3>3. e = c BY <1>0, <2>2, <2>9, <3>2 DEF Alone, TypeOK, Present
    <3>4. Made(r, d, {})' /\ d.up = d.was
      BY <1>0, <1>2, <2>3, <3>2, <3>3 DEF Made, Target, Present
    <3>5. QED BY <1>0, <2>5, <3>1, <3>4 DEF Alone
  <2>10. \A q \in Requests : Alone(q)' BY <2>5, <2>9, OnlyMover
  <2>11. QED BY <2>6, <2>7, <2>8, <2>10, Together
<1>3. QED BY <1>1, <1>2, <1>0 DEF Rename

LEMMA UpdateStep ==
    ASSUME NEW r \in Requests, EditInv, Update(r) PROVE EditInv'
<1> USE DEF EditInv
<1>0. /\ pc[r] = "update" /\ answer[r] = "none"
      /\ UNCHANGED <<nextId, id, name, old, edit>>
  BY DEF Update, Held
<1>1. ASSUME containers' = containers,
             \/ /\ edit[r].fields \cap InPlace = {}
                /\ pc' = [pc EXCEPT ![r] = AfterUpdate(r)] /\ answer' = answer
             \/ /\ pc' = [pc EXCEPT ![r] = "end"]
                /\ answer' = [answer EXCEPT ![r] = "update"]
      PROVE  EditInv'
  <2>1. TypeOK' BY <1>1, <1>0 DEF TypeOK, Steps, AfterUpdate
  <2>2. \A q \in Requests : Held(q)' BY <1>1, <1>0 DEF TypeOK, Held, Mine, AfterUpdate
  <2>3. OneOfEach' /\ Waits' BY <1>1, <1>0, DaemonStays DEF TypeOK, Held, AfterUpdate
  <2>4. ASSUME Sole(r) PROVE Alone(r)'
    <3>1. CASE answer' = answer
      <4>1. pc'[r] = AfterUpdate(r) /\ answer'[r] # "ok" /\ edit[r].fields \cap InPlace = {}
        BY <1>0, <1>1, <3>1 DEF TypeOK
      <4>2. PICK c \in Mine(r) : Made(r, c, {}) /\ c.up = c.was
        BY <1>0, <2>4 DEF Alone
      <4>3. c \in Mine(r)' /\ c \in containers' BY <1>0, <1>1, <4>2 DEF Mine
      <4>4. Made(r, c, InPlace)' /\ c.up = c.was BY <1>0, <4>1, <4>2 DEF Made, Target
      <4>5. c \in Present' BY <4>2, <4>3 DEF Present, Made
      <4>6. ~Recreates(r) => Made(r, c, Copied)'
        BY <1>0, <4>1, <4>2, UneditedCopied DEF Made, Target, TypeOK, Edits
      <4>7. QED BY <4>1, <4>3, <4>4, <4>5, <4>6 DEF Alone, AfterUpdate
    <3>2. CASE answer' # answer
      BY <1>0, <1>1, <3>2 DEF TypeOK, Alone
    <3>3. QED BY <3>1, <3>2
  <2>5. \A q \in Requests : Alone(q)' BY <1>0, <1>1, <2>4, OnlyMover DEF TypeOK, AfterUpdate
  <2>6. QED BY <2>1, <2>2, <2>3, <2>5, Together
<1>2. ASSUME NEW c \in Mine(r),
             containers' = (containers \ {c})
                             \cup {[c EXCEPT !.conf = Edited(r, InPlace, @)]},
             pc' = [pc EXCEPT ![r] = AfterUpdate(r)], answer' = answer
      PROVE  EditInv'
  <2>1. c \in containers /\ c \in Containers /\ c.id = id[r]
        /\ c.conf \in [Fields -> Values]
    BY DEF Mine, TypeOK, Containers
  <2>2. Edited(r, InPlace, c.conf) \in [Fields -> Values] BY <2>1, EditedType
  <2>3. PICK d \in Containers :
             /\ d.id = c.id /\ d.first = c.first /\ d.name = c.name /\ d.auto = c.auto
             /\ d.was = c.was /\ d.up = c.up /\ d.conf = Edited(r, InPlace, c.conf)
             /\ containers' = (containers \ {c}) \cup {d}
    BY <1>2, <2>1, <2>2, Limited
  <2>4. containers' = (containers \ {c}) \cup {d} BY <2>3
  <2>5. /\ pc'[r] = AfterUpdate(r) /\ pc'[r] \in {"again", "answer"} /\ answer'[r] = answer[r]
        /\ \A q \in Requests \ {r} : pc'[q] = pc[q] /\ answer'[q] = answer[q]
    BY <1>2 DEF TypeOK, AfterUpdate
  <2>6. Daemon' /\ OneOfEach' /\ Waits' /\ \A q \in Requests \ {r} : Held(q)'
    BY <1>0, <2>1, <2>3, <2>4, <2>5, Replaced
  <2>7. pc' = [pc EXCEPT ![r] = AfterUpdate(r)] /\ answer' = answer BY <1>2
  <2>8. TypeOK' BY <1>0, <2>6, <2>7 DEF TypeOK, Daemon, Steps, AfterUpdate
  <2>9. Held(r)' BY <1>0, <2>1, <2>5 DEF TypeOK, Held
  <2>10. ASSUME Sole(r) PROVE Alone(r)'
    <3>1. d \in Mine(r)' /\ d \in containers' BY <1>0, <2>1, <2>3, <2>4 DEF Mine
    <3>2. PICK e \in Mine(r) : Made(r, e, {}) /\ e.up = e.was
      BY <1>0, <2>10 DEF Alone
    <3>3. Made(r, c, {}) /\ c.up = c.was BY <2>1, <3>2 DEF Mine, TypeOK
    <3>4. \A f \in Copied : d.conf[f] = IF f \in InPlace \cap edit[r].fields THEN r
                                                                           ELSE "original"
      BY <2>3, <3>3 DEF Made, Edited, Fields
    <3>5. Made(r, d, InPlace)' /\ d.up = d.was BY <1>0, <2>3, <3>3, <3>4 DEF Made, Target
    <3>6. d \in Present' BY <3>1, <3>5 DEF Present, Made
    <3>7. ~Recreates(r) => Made(r, d, Copied)'
      BY <1>0, <3>5, UneditedCopied DEF Made, Target, TypeOK, Edits
    <3>8. QED BY <1>0, <2>5, <3>1, <3>5, <3>6, <3>7 DEF Alone, AfterUpdate
  <2>11. \A q \in Requests : Alone(q)' BY <2>5, <2>10, OnlyMover
  <2>12. QED BY <2>6, <2>8, <2>9, <2>11, Together
<1>3. QED BY <1>1, <1>2, <1>0 DEF Update

-----------------------------------------------------------------------------
(* The container is recreated. *)

LEMMA InspectAgainStep ==
    ASSUME NEW r \in Requests, EditInv, InspectAgain(r) PROVE EditInv'
<1> USE DEF EditInv
<1>0. /\ pc[r] = "again" /\ answer[r] = "none"
      /\ UNCHANGED <<containers, nextId, id, name, edit>>
  BY DEF InspectAgain, Held
<1>1. ASSUME NEW c \in Mine(r), old' = [old EXCEPT ![r] = c], answer' = answer,
             pc' = [pc EXCEPT ![r] = IF c.up THEN "stop" ELSE "remove"]
      PROVE  EditInv'
  <2>1. c \in containers /\ c \in Containers /\ c.id = id[r] BY DEF Mine, TypeOK
  <2>2. TypeOK' BY <1>0, <1>1, <2>1 DEF TypeOK, Steps
  <2>3. c # None
    <3>1. c.id # 0 BY <2>1 DEF Containers, Ids
    <3>2. QED BY <3>1 DEF None
  <2>4. \A e \in Mine(r) : e = c BY <2>1 DEF Mine, TypeOK
  <2>5. old'[r] = c /\ \A q \in Requests \ {r} : old'[q] = old[q] BY <1>1 DEF TypeOK
  <2>6. \A q \in Requests : Held(q)'
    <3>1. Held(r)' BY <1>0, <1>1, <2>3, <2>4, <2>5 DEF TypeOK, Held, Mine
    <3>2. ASSUME NEW q \in Requests \ {r} PROVE Held(q)'
      BY <1>0, <1>1, <2>5, <3>2 DEF TypeOK, Held, Mine
    <3>3. QED BY <3>1, <3>2
  <2>7. OneOfEach' /\ Waits' BY <1>0, <1>1, <2>5, DaemonStays DEF TypeOK
  <2>8. ASSUME Sole(r) PROVE Alone(r)'
    <3>1. PICK e \in Mine(r) : Made(r, e, InPlace) /\ e.up = e.was
      BY <1>0, <2>8 DEF Alone
    <3>2. Made(r, c, InPlace) /\ c.up = c.was BY <2>4, <3>1
    <3>3. Made(r, old[r], InPlace)' /\ old'[r].up = old'[r].was
      BY <1>0, <2>5, <3>2 DEF Made, Target
    <3>4. pc'[r] \in {"stop", "remove"} /\ answer'[r] = "none" BY <1>0, <1>1 DEF TypeOK
    <3>5. QED BY <3>3, <3>4 DEF Alone
  <2>9. \A q \in Requests : Alone(q)' BY <1>1, <2>8, OnlyMover DEF TypeOK
  <2>10. QED BY <2>2, <2>6, <2>7, <2>9, Together
<1>2. ASSUME pc' = [pc EXCEPT ![r] = "end"], answer' = [answer EXCEPT ![r] = "again"],
             old' = old
      PROVE  EditInv'
  <2>1. TypeOK' BY <1>0, <1>2 DEF TypeOK, Steps
  <2>2. \A q \in Requests : Held(q)' BY <1>0, <1>2 DEF TypeOK, Held, Mine
  <2>3. OneOfEach' /\ Waits' BY <1>0, <1>2, DaemonStays DEF TypeOK
  <2>4. Alone(r)' BY <1>0, <1>2 DEF TypeOK, Alone
  <2>5. \A q \in Requests : Alone(q)' BY <1>2, <2>4, OnlyMover DEF TypeOK
  <2>6. QED BY <2>1, <2>2, <2>3, <2>5, Together
<1>3. QED BY <1>1, <1>2, <1>0 DEF InspectAgain

LEMMA StopStep ==
    ASSUME NEW r \in Requests, EditInv, Stop(r) PROVE EditInv'
<1> USE DEF EditInv
<1>0. /\ pc[r] = "stop" /\ answer[r] = "none"
      /\ pc' = [pc EXCEPT ![r] = "remove"]
      /\ UNCHANGED <<nextId, answer, id, name, old, edit>>
  BY DEF Stop, Held
<1>1. /\ \A q \in Requests \ {r} : pc'[q] = pc[q] /\ answer'[q] = answer[q]
      /\ pc'[r] = "remove"
  BY <1>0 DEF TypeOK
<1>2. \A q \in Requests : Alone(q)'
  <2>1. Sole(r) => Alone(r)' BY <1>0, <1>1 DEF Alone, Made, Target
  <2>2. QED BY <1>1, <2>1, OnlyMover
<1>3. CASE containers' = containers
  <2>1. TypeOK' BY <1>0, <1>3 DEF TypeOK, Steps
  <2>2. \A q \in Requests : Held(q)' BY <1>0, <1>1, <1>3 DEF Held, Mine
  <2>3. OneOfEach' /\ Waits' BY <1>0, <1>1, <1>3, DaemonStays
  <2>4. QED BY <1>2, <2>1, <2>2, <2>3, Together
<1>4. ASSUME NEW c \in Mine(r), NEW d \in Containers,
             d.id = c.id, d.first = c.first, d.name = c.name, d.auto = c.auto,
             containers' = (containers \ {c}) \cup {d}
      PROVE  EditInv'
  <2>1. c \in containers /\ c.id = id[r] /\ c.first = old[r].first /\ c.auto = old[r].auto
    BY <1>0 DEF Mine, Held
  <2>2. Daemon' /\ OneOfEach' /\ Waits' /\ \A q \in Requests \ {r} : Held(q)'
    BY <1>0, <1>1, <1>4, <2>1, Replaced
  <2>3. TypeOK' BY <1>0, <2>2 DEF TypeOK, Daemon, Steps
  <2>4. Held(r)' BY <1>0, <1>1, <1>4, <2>1 DEF Held, Mine
  <2>5. QED BY <1>2, <2>2, <2>3, <2>4, Together
<1>5. ASSUME containers' = {IF c \in Mine(r) THEN [c EXCEPT !.up = FALSE] ELSE c :
                              c \in containers}
      PROVE  EditInv'
  <2>1. CASE Mine(r) = {}
    <3>1. containers' = containers BY <1>5, <2>1
    <3>2. QED BY <1>3, <3>1
  <2>2. ASSUME NEW c \in Mine(r) PROVE EditInv'
    <3>1. c \in containers /\ c \in Containers BY DEF Mine, TypeOK
    <3>2. Mine(r) = {c} BY DEF Mine, TypeOK
    <3>3. PICK d \in Containers : /\ d.id = c.id /\ d.first = c.first /\ d.name = c.name
                                  /\ d.auto = c.auto /\ d = [c EXCEPT !.up = FALSE]
      BY <3>1, Switched
    <3>4. containers' = (containers \ {c}) \cup {[c EXCEPT !.up = FALSE]}
      BY <1>5, <3>1, <3>2
    <3>5. containers' = (containers \ {c}) \cup {d} BY <3>3, <3>4
    <3>6. d.id = c.id /\ d.first = c.first /\ d.name = c.name /\ d.auto = c.auto BY <3>3
    <3>7. QED BY <1>4, <3>5, <3>6
  <2>3. QED BY <2>1, <2>2
<1>6. ASSUME NEW c \in Mine(r), c.auto, containers' = containers \ {c} PROVE EditInv'
  <2>1. c \in containers /\ c.first = old[r].first /\ c.auto = old[r].auto
    BY <1>0 DEF Mine, Held
  <2>2. TypeOK' BY <1>0, <1>6 DEF TypeOK, Steps
  <2>3. \A q \in Requests : Held(q)' BY <1>0, <1>1, <1>6 DEF Held, Mine
  <2>4. OneOfEach' BY <1>0, <1>1, <1>6 DEF OneOfEach
  <2>5. Waits'
    <3>1. CASE c.first = 1 BY <1>0, <1>1, <1>6, <2>1, <3>1 DEF Waits
    <3>2. CASE c.first # 1
      <4>1. Present' = Present BY <1>6, <3>2 DEF Present
      <4>2. QED BY <1>0, <1>1, <4>1 DEF Waits
    <3>3. QED BY <3>1, <3>2
  <2>6. QED BY <1>2, <2>2, <2>3, <2>4, <2>5, Together
<1>7. ASSUME containers' = containers \ {c \in Mine(r) : c.auto} PROVE EditInv'
  <2>1. CASE {c \in Mine(r) : c.auto} = {}
    <3>1. containers' = containers BY <1>7, <2>1
    <3>2. QED BY <1>3, <3>1
  <2>2. ASSUME NEW c \in Mine(r), c.auto PROVE EditInv'
    <3>1. {e \in Mine(r) : e.auto} = {c} BY <2>2 DEF Mine, TypeOK
    <3>2. QED BY <1>6, <1>7, <2>2, <3>1
  <2>3. QED BY <2>1, <2>2
<1>8. QED BY <1>3, <1>5, <1>7 DEF Stop

LEMMA RemoveStep ==
    ASSUME NEW r \in Requests, EditInv, Remove(r) PROVE EditInv'
<1> USE DEF EditInv
<1>0. /\ pc[r] = "remove" /\ answer[r] = "none"
      /\ UNCHANGED <<nextId, id, name, old, edit>>
  BY DEF Remove, Held
<1>1. ASSUME NEW c \in Mine(r), containers' = containers \ Mine(r), answer' = answer,
             pc' = [pc EXCEPT ![r] = "create"]
      PROVE  EditInv'
  <2>1. /\ pc'[r] = "create"
        /\ \A q \in Requests \ {r} : pc'[q] = pc[q] /\ answer'[q] = answer[q]
    BY <1>1 DEF TypeOK
  <2>2. c \in containers /\ c.id = id[r] /\ c.first = old[r].first
    BY <1>0 DEF Mine, Held
  <2>3. containers' = containers \ {c} BY <1>1, <2>2 DEF Mine, TypeOK
  <2>4. TypeOK' BY <1>0, <1>1, <2>3 DEF TypeOK, Steps
  <2>5. \A q \in Requests : Held(q)' BY <1>0, <1>1, <2>1, <2>3 DEF Held, Mine
  <2>6. OneOfEach'
    <3>1. \A d, e \in containers' : d.first = e.first => d = e BY <2>3 DEF OneOfEach
    <3>2. \A q \in Requests, e \in containers' : pc'[q] = "create" => e.first # old'[q].first
      BY <1>0, <2>1, <2>2, <2>3 DEF OneOfEach
    <3>3. \A q, p \in Requests : pc'[q] = "create" /\ pc'[p] = "create"
                                   /\ old'[q].first = old'[p].first => q = p
      BY <1>0, <2>1, <2>2 DEF OneOfEach
    <3>4. QED BY <3>1, <3>2, <3>3 DEF OneOfEach
  <2>7. Waits'
    <3>1. CASE c.first = 1 BY <1>0, <2>1, <2>2, <3>1 DEF Waits
    <3>2. CASE c.first # 1
      <4>1. Present' = Present BY <2>3, <3>2 DEF Present
      <4>2. QED BY <1>0, <1>1, <2>1, <4>1 DEF Waits
    <3>3. QED BY <3>1, <3>2
  <2>8. Sole(r) => Alone(r)' BY <1>0, <1>1, <2>1 DEF Alone, Made, Target
  <2>9. \A q \in Requests : Alone(q)' BY <2>1, <2>8, OnlyMover
  <2>10. QED BY <2>4, <2>5, <2>6, <2>7, <2>9, Together
<1>2. ASSUME pc' = [pc EXCEPT ![r] = "end"], answer' = [answer EXCEPT ![r] = "remove"],
             containers' = containers
      PROVE  EditInv'
  <2>1. TypeOK' BY <1>0, <1>2 DEF TypeOK, Steps
  <2>2. \A q \in Requests : Held(q)' BY <1>0, <1>2 DEF TypeOK, Held, Mine
  <2>3. OneOfEach' /\ Waits' BY <1>0, <1>2, DaemonStays DEF TypeOK
  <2>4. Alone(r)' BY <1>0, <1>2 DEF TypeOK, Alone
  <2>5. \A q \in Requests : Alone(q)' BY <1>2, <2>4, OnlyMover DEF TypeOK
  <2>6. QED BY <2>1, <2>2, <2>3, <2>5, Together
<1>3. QED BY <1>1, <1>2, <1>0 DEF Remove

LEMMA CreateStep ==
    ASSUME NEW r \in Requests, EditInv, Create(r) PROVE EditInv'
<1> USE DEF EditInv
<1>0. /\ pc[r] = "create" /\ answer[r] = "none" /\ old[r] # None
      /\ UNCHANGED <<name, old, edit>>
  BY DEF Create, Held
<1>1. ASSUME \A e \in containers : e.name # NewName(r),
             containers' = containers \cup {Recreated(r)},
             id' = [id EXCEPT ![r] = nextId], nextId' = nextId + 1, answer' = answer,
             pc' = [pc EXCEPT ![r] = IF old[r].up THEN "start" ELSE "answer"]
      PROVE  EditInv'
  <2>1. PICK d : d = Recreated(r) OBVIOUS
  <2>2. /\ old[r] \in Containers /\ d \in Containers /\ d.id = nextId
        /\ d.first = old[r].first /\ d.was = old[r].was /\ d.name = NewName(r)
        /\ d.up = FALSE /\ d.conf = Merged(r)
    BY <1>0, <2>1, RecreatedFields
  <2>3. /\ containers' = containers \cup {d}
        /\ \A e \in containers : e.name # d.name /\ e.id # d.id
    BY <1>1, <2>1, <2>2 DEF TypeOK, Containers, Ids
  <2>4. /\ pc'[r] = (IF old[r].up THEN "start" ELSE "answer") /\ id'[r] = nextId
        /\ \A q \in Requests \ {r} : UNCHANGED <<pc[q], id[q]>>
    BY <1>1 DEF TypeOK
  <2>5. TypeOK'
    <3>1. containers' \subseteq Containers BY <2>2, <2>3 DEF TypeOK
    <3>2. \A c, e \in containers' : c.id = e.id \/ c.name = e.name => c = e
      BY <2>3 DEF TypeOK
    <3>3. nextId' \in Ids /\ \A c \in containers' : c.id < nextId'
      BY <1>1, <2>2, <2>3 DEF TypeOK, Ids, Containers
    <3>4. id' \in [Requests -> Ids \cup {0}] BY <1>1 DEF TypeOK
    <3>5. QED BY <1>0, <1>1, <3>1, <3>2, <3>3, <3>4 DEF TypeOK, Steps
  <2>6. \A q \in Requests : Held(q)'
    <3>1. Held(r)' BY <1>0, <1>1, <2>4 DEF Held, TypeOK, Ids
    <3>2. ASSUME NEW q \in Requests \ {r} PROVE Held(q)'
      <4>1. id[q] < nextId' BY <1>1 DEF Held, TypeOK, Ids
      <4>2. Mine(q)' = Mine(q)
        <5>1. d.id # id[q] BY <2>2 DEF Held, TypeOK, Ids
        <5>2. QED BY <2>3, <2>4, <5>1 DEF Mine
      <4>3. QED BY <1>0, <1>1, <2>4, <4>1, <4>2 DEF Held
    <3>3. QED BY <3>1, <3>2
  <2>7. OneOfEach'
    <3>1. \A c, e \in containers' : c.first = e.first => c = e
      BY <1>0, <2>2, <2>3 DEF OneOfEach
    <3>2. \A q \in Requests, e \in containers' : pc'[q] = "create" => e.first # old'[q].first
      BY <1>0, <2>2, <2>3, <2>4 DEF OneOfEach
    <3>3. \A q, p \in Requests : pc'[q] = "create" /\ pc'[p] = "create"
                                   /\ old'[q].first = old'[p].first => q = p
      BY <1>0, <2>4 DEF OneOfEach
    <3>4. QED BY <3>1, <3>2, <3>3 DEF OneOfEach
  <2>8. Waits'
    <3>1. CASE old[r].first = 1
      <4>1. d \in Present' BY <2>2, <2>3, <3>1 DEF Present
      <4>2. QED BY <4>1 DEF Waits
    <3>2. CASE old[r].first # 1
      <4>1. Present' = Present BY <2>2, <2>3, <3>2 DEF Present
      <4>2. QED BY <1>0, <1>1, <2>4, <3>2, <4>1 DEF Waits
    <3>3. QED BY <3>1, <3>2
  <2>9. ASSUME Sole(r) PROVE Alone(r)'
    <3>1. Made(r, old[r], InPlace) /\ old[r].up = old[r].was BY <1>0, <2>9 DEF Alone
    <3>2. \A f \in Copied : d.conf[f] = IF f \in Copied \cap edit[r].fields THEN r
                                                                          ELSE "original"
      BY <2>2, <3>1 DEF Made, Merged, Edited, Fields
    <3>3. d.first = 1 /\ d.name = Target(r) BY <2>2, <3>1 DEF Made, NewName, Target
    <3>4. Made(r, d, Copied)' BY <1>0, <3>2, <3>3 DEF Made, Target
    <3>5. d \in Mine(r)' /\ d \in Present'
      BY <2>2, <2>3, <2>4, <3>3 DEF Mine, Present
    <3>6. d.was = old[r].up /\ d.up = FALSE BY <2>2, <3>1
    <3>7. old[r].up \in BOOLEAN BY <2>2 DEF Containers
    <3>8. answer'[r] = "none" BY <1>0, <1>1
    <3>9. CASE old[r].up
      <4>1. pc'[r] = "start" /\ d.was BY <2>4, <3>6, <3>9
      <4>2. QED BY <3>4, <3>5, <3>8, <4>1 DEF Alone
    <3>10. CASE old[r].up = FALSE
      <4>1. pc'[r] = "answer" /\ d.up = d.was BY <2>4, <3>6, <3>10
      <4>2. QED BY <3>4, <3>5, <3>8, <4>1 DEF Alone
    <3>11. QED BY <3>7, <3>9, <3>10
  <2>10. \A q \in Requests : Alone(q)' BY <2>4, <2>9, OnlyMover
  <2>11. QED BY <2>5, <2>6, <2>7, <2>8, <2>10, Together
<1>2. ASSUME pc' = [pc EXCEPT ![r] = "end"], answer' = [answer EXCEPT ![r] = "create"],
             UNCHANGED <<containers, id, nextId>>
      PROVE  EditInv'
  <2>1. TypeOK' BY <1>0, <1>2 DEF TypeOK, Steps
  <2>2. \A q \in Requests : Held(q)' BY <1>0, <1>2 DEF TypeOK, Held, Mine
  <2>3. OneOfEach' BY <1>0, <1>2 DEF TypeOK, OneOfEach
  <2>4. Waits' BY <1>2 DEF TypeOK, Waits
  <2>5. Alone(r)' BY <1>0, <1>2 DEF TypeOK, Alone
  <2>6. \A q \in Requests : Alone(q)' BY <1>2, <2>5, OnlyMover DEF TypeOK
  <2>7. QED BY <2>1, <2>2, <2>3, <2>4, <2>6, Together
<1>3. QED BY <1>1, <1>2, <1>0 DEF Create

LEMMA StartContainerStep ==
    ASSUME NEW r \in Requests, EditInv, StartContainer(r) PROVE EditInv'
<1> USE DEF EditInv
<1>0. /\ pc[r] = "start" /\ answer[r] = "none"
      /\ UNCHANGED <<nextId, id, name, old, edit>>
  BY DEF StartContainer, Held
<1>1. ASSUME NEW c \in Mine(r),
             containers' = (containers \ {c}) \cup {[c EXCEPT !.up = TRUE]},
             pc' = [pc EXCEPT ![r] = "answer"], answer' = answer
      PROVE  EditInv'
  <2>1. c \in containers /\ c \in Containers /\ c.id = id[r] BY DEF Mine, TypeOK
  <2>2. PICK d \in Containers :
             /\ d.id = c.id /\ d.first = c.first /\ d.name = c.name /\ d.auto = c.auto
             /\ d.was = c.was /\ d.up = TRUE /\ d.conf = c.conf
             /\ containers' = (containers \ {c}) \cup {d}
    BY <1>1, <2>1, Switched
  <2>3. /\ pc' = [pc EXCEPT ![r] = "answer"] /\ answer' = answer
        /\ pc'[r] = "answer" /\ \A q \in Requests \ {r} : pc'[q] = pc[q]
    BY <1>1 DEF TypeOK
  <2>4. Daemon' /\ OneOfEach' /\ Waits' /\ \A q \in Requests \ {r} : Held(q)'
    BY <1>0, <2>1, <2>2, <2>3, Replaced
  <2>5. TypeOK' BY <1>0, <2>3, <2>4 DEF TypeOK, Daemon, Steps
  <2>6. Held(r)' BY <1>0, <2>3 DEF Held
  <2>7. ASSUME Sole(r) PROVE Alone(r)'
    <3>1. PICK e \in Mine(r) : Made(r, e, Copied) /\ e.was
      BY <1>0, <2>7 DEF Alone
    <3>2. Made(r, c, Copied) /\ c.was BY <2>1, <3>1 DEF Mine, TypeOK
    <3>3. Made(r, d, Copied)' BY <1>0, <2>2, <3>2 DEF Made, Target
    <3>4. c.was \in BOOLEAN BY <2>1 DEF Containers
    <3>5. d.up = d.was BY <2>2, <3>2, <3>4
    <3>6. d \in Present' BY <2>2, <3>3 DEF Present, Made
    <3>7. QED BY <1>0, <2>3, <3>3, <3>5, <3>6 DEF Alone
  <2>8. \A q \in Requests : Alone(q)' BY <2>3, <2>7, OnlyMover
  <2>9. QED BY <2>4, <2>5, <2>6, <2>8, Together
<1>2. ASSUME pc' = [pc EXCEPT ![r] = "end"], answer' = [answer EXCEPT ![r] = "start"],
             containers' = containers
      PROVE  EditInv'
  <2>1. TypeOK' BY <1>0, <1>2 DEF TypeOK, Steps
  <2>2. \A q \in Requests : Held(q)' BY <1>0, <1>2 DEF TypeOK, Held, Mine
  <2>3. OneOfEach' /\ Waits' BY <1>0, <1>2, DaemonStays DEF TypeOK
  <2>4. Alone(r)' BY <1>0, <1>2 DEF TypeOK, Alone
  <2>5. \A q \in Requests : Alone(q)' BY <1>2, <2>4, OnlyMover DEF TypeOK
  <2>6. QED BY <2>1, <2>2, <2>3, <2>5, Together
<1>3. QED BY <1>1, <1>2, <1>0 DEF StartContainer

LEMMA AnswerStep ==
    ASSUME NEW r \in Requests, EditInv, AnswerByName(r) PROVE EditInv'
<1> USE DEF EditInv
<1>0. /\ pc[r] = "answer" /\ answer[r] = "none"
      /\ UNCHANGED <<containers, nextId, id, name, old, edit>>
      /\ pc' = [pc EXCEPT ![r] = "end"]
      /\ \E a \in {"ok", "answer"} : answer' = [answer EXCEPT ![r] = a]
  BY DEF AnswerByName, Held
<1>1. TypeOK' BY <1>0 DEF TypeOK, Steps
<1>2. \A q \in Requests : Held(q)' BY <1>0 DEF TypeOK, Held, Mine
<1>3. OneOfEach' /\ Waits' BY <1>0, DaemonStays DEF TypeOK
<1>4. ASSUME Sole(r) PROVE Alone(r)'
  <2>1. PICK c \in Present : Made(r, c, Copied) /\ c.up = c.was BY <1>0, <1>4 DEF Alone
  <2>2. c \in Present' /\ Made(r, c, Copied)' BY <1>0, <2>1 DEF Present, Made, Target
  <2>3. pc'[r] = "end" BY <1>0 DEF TypeOK
  <2>4. QED BY <2>1, <2>2, <2>3 DEF Alone
<1>5. \A q \in Requests : Alone(q)' BY <1>0, <1>4, OnlyMover DEF TypeOK
<1>6. QED BY <1>1, <1>2, <1>3, <1>5, Together

-----------------------------------------------------------------------------
(* The invariant, and what follows. *)

LEMMA OriginalFields ==
    ASSUME NEW i \in Ids, NEW n \in Names, NEW up \in BOOLEAN, NEW auto \in BOOLEAN
    PROVE  LET c == Original(i, n, up, auto)
           IN  /\ c \in Containers /\ c.id = i /\ c.first = i /\ c.was = up /\ c.up = up
               /\ c.name = n /\ \A f \in Fields : c.conf[f] = "original"
BY DEF Original, Containers, Values

LEMMA InitEditInv == Init => EditInv
<1> SUFFICES ASSUME Init PROVE EditInv
  OBVIOUS
<1>1. PICK up \in BOOLEAN, auto \in BOOLEAN, taken \in BOOLEAN :
        containers = {Original(1, "web", up, auto)}
                       \cup (IF taken THEN {Original(2, "api", TRUE, FALSE)} ELSE {})
  BY DEF Init
<1>2. PICK w \in Containers, a \in Containers :
        /\ w.id = 1 /\ w.first = 1 /\ w.was = up /\ w.up = up /\ w.name = "web"
        /\ \A f \in Fields : w.conf[f] = "original"
        /\ a.id = 2 /\ a.first = 2 /\ a.name = "api"
        /\ containers = {w} \cup (IF taken THEN {a} ELSE {})
  <2>1. 1 \in Ids /\ 2 \in Ids /\ "web" \in Names /\ "api" \in Names BY DEF Ids, Names
  <2> DEFINE w == Original(1, "web", up, auto)
             a == Original(2, "api", TRUE, FALSE)
  <2>2. /\ w \in Containers /\ w.id = 1 /\ w.first = 1 /\ w.was = up /\ w.up = up
        /\ w.name = "web" /\ \A f \in Fields : w.conf[f] = "original"
    BY <2>1, OriginalFields
  <2>3. a \in Containers /\ a.id = 2 /\ a.first = 2 /\ a.name = "api"
    BY <2>1 DEF Original, Containers, Values
  <2>4. containers = {w} \cup (IF taken THEN {a} ELSE {}) BY <1>1
  <2> HIDE DEF w, a
  <2>5. QED BY <2>2, <2>3, <2>4
<1>3. w \in containers /\ containers \subseteq {w, a} BY <1>2
<1>4. TypeOK
  <2>1. \A c, d \in containers : c.id = d.id \/ c.name = d.name => c = d BY <1>2, <1>3
  <2>2. nextId \in Ids /\ \A c \in containers : c.id < nextId
    <3>1. nextId = 3 BY DEF Init
    <3>2. QED BY <1>2, <1>3, <3>1 DEF Ids
  <2>3. QED BY <1>2, <1>3, <2>1, <2>2 DEF Init, TypeOK, Steps, NoEdit, Edits
<1>5. OneOfEach /\ Waits
  <2>1. \A c, d \in containers : c.first = d.first => c = d BY <1>2, <1>3
  <2>2. w \in Present BY <1>2, <1>3 DEF Present
  <2>3. QED BY <2>1, <2>2 DEF Init, OneOfEach, Waits
<1>6. AtMostOnce
  <2>1. \A c, d \in Present : c = d BY <1>5 DEF OneOfEach, Present
  <2>2. QED BY <2>1, OneIsOne DEF AtMostOnce
<1>7. ASSUME NEW r \in Requests PROVE Held(r) /\ Alone(r)
  <2>1. Held(r) BY DEF Init, Held
  <2>2. w \in Present /\ \A f \in Copied : w.conf[f] = "original"
    BY <1>2, <1>3 DEF Present, Fields
  <2>3. Alone(r) BY <1>2, <2>2 DEF Init, Alone
  <2>4. QED BY <2>1, <2>3
<1>8. QED BY <1>4, <1>5, <1>6, <1>7 DEF EditInv

LEMMA NextEditInv == EditInv /\ [Next]_vars => EditInv'
<1> SUFFICES ASSUME EditInv, [Next]_vars PROVE EditInv'
  OBVIOUS
<1>1. ASSUME NEW r \in Requests, Start(r) \/ Step(r) PROVE EditInv'
  BY <1>1, StartStep, InspectStep, RenameStep, UpdateStep, InspectAgainStep, StopStep,
     RemoveStep, CreateStep, StartContainerStep, AnswerStep DEF Step
<1>2. CASE UNCHANGED vars
  BY <1>2 DEF vars, EditInv, TypeOK, AtMostOnce, Present, Held, Alone, Sole, Made, Target,
     Mine, OneOfEach, Waits
<1>3. QED BY <1>1, <1>2 DEF Next

(* However edits of one container interleave and fail, the parts of EditInv
   hold: the container exists at most once, each edit works on the container
   its ID was given out for, and a sole edit is as far as it says it is
   (containers.go:261-319). *)
THEOREM EditInvariant == Spec => []EditInv
BY InitEditInv, NextEditInv, PTL DEF Spec

(* A container that is gone waits for an edit to create it again, or an edit
   was answered that it could not create it, or that it could not remove what
   had removed itself (containers.go:440-475). *)
THEOREM GoneReported == Spec => []GoneIsReported
<1>1. EditInv => GoneIsReported BY DEF EditInv, Waits, GoneIsReported
<1>2. QED BY <1>1, EditInvariant, PTL

(* A sole edit that is answered as made has set every field it edits, has kept
   those it copies, has the name it was to have, and runs the container if the
   container ran (containers.go:322-475). *)
THEOREM EditDone == Spec => []EditApplied
<1>1. ASSUME EditInv PROVE EditApplied
  <2>1. SUFFICES ASSUME NEW r \in Requests, answer[r] = "ok", Sole(r)
                 PROVE  \E c \in Present :
                          /\ c.name = Target(r)
                          /\ \A f \in Copied : c.conf[f] = IF f \in edit[r].fields THEN r
                                                                                 ELSE "original"
                          /\ c.up = c.was
    BY DEF EditApplied, Target
  <2>2. PICK c \in Present : Made(r, c, Copied) /\ c.up = c.was
    BY <1>1, <2>1 DEF EditInv, Alone
  <2>3. QED BY <2>2 DEF Made
<1>2. QED BY <1>1, EditInvariant, PTL
=============================================================================
