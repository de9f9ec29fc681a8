------------------------------- MODULE FatProofs -------------------------------
(***************************************************************************)
(* Theorems about Fat for every number of tasks, clusters and directory    *)
(* records, every size of file and every number of failures.               *)
(***************************************************************************)
EXTENDS Fat, FiniteSetTheorems, WellFoundedInduction, SequenceTheorems, TLAPS

-----------------------------------------------------------------------------
(* Induction over the length of a chain.                                   *)

LEMMA LeastElement ==
    ASSUME NEW T, T \subseteq Nat, T # {}
    PROVE  \E x \in T : \A y \in T : x <= y
<1> DEFINE R == {p \in Nat \X Nat : p[1] < p[2]}
<1>1. R = OpToRel(<, Nat)
  BY DEF OpToRel
<1>2. IsWellFoundedOn(R, Nat)
  BY <1>1, NatLessThanWellFounded
<1>3. PICK x \in T : \A y \in T : ~(<<y, x>> \in R)
  <2> HIDE DEF R
  <2> QED
    BY <1>2, WFMin
<1>4. \A y \in T : ~(y < x)
  <2> TAKE y \in T
  <2>1. <<y, x>> \in Nat \X Nat
    OBVIOUS
  <2> QED
    BY <1>3, <2>1
<1> QED
  BY <1>4

\* Induction up to n, for the set T of the numbers of which something holds.
LEMMA UpTo ==
    ASSUME NEW n \in Nat, NEW T, 0 \in T, \A i \in 0 .. n : i \in T /\ i < n => i + 1 \in T
    PROVE  0 .. n \subseteq T
<1> SUFFICES ASSUME (0 .. n) \ T # {} PROVE FALSE
  OBVIOUS
<1>1. PICK x \in (0 .. n) \ T : \A y \in (0 .. n) \ T : x <= y
  <2>1. (0 .. n) \ T \subseteq Nat
    OBVIOUS
  <2> QED
    BY <2>1, LeastElement
<1>2. x # 0 /\ x - 1 \in 0 .. n /\ x - 1 < x /\ x - 1 < n /\ (x - 1) + 1 = x
  BY <1>1
<1>3. x - 1 \in T
  BY <1>1, <1>2
<1> QED
  BY <1>1, <1>2, <1>3

\* A sequence of steps, each of which keeps to S, can be taken one by one.
Keeps(n, S, step) == \A i \in 1 .. n, x \in S : step[i][x] \in S

Iterates(n, S, a, step, f) ==
    f \in [0 .. n -> S] /\ f[0] = a /\ \A i \in 1 .. n : f[i] = step[i][f[i - 1]]

LEMMA Iterate ==
    ASSUME NEW n \in Nat, NEW S, NEW a \in S, NEW step, Keeps(n, S, step)
    PROVE  \E f : Iterates(n, S, a, step, f)
<1> USE DEF Keeps, Iterates
<1> DEFINE T == {k \in 0 .. n : \E f \in [0 .. k -> S] :
                                   f[0] = a /\ \A i \in 1 .. k : f[i] = step[i][f[i - 1]]}
<1>1. 0 \in T
  <2> DEFINE f == [j \in 0 .. 0 |-> a]
  <2>1. f \in [0 .. 0 -> S] /\ f[0] = a /\ \A i \in 1 .. 0 : f[i] = step[i][f[i - 1]]
    OBVIOUS
  <2> HIDE DEF f
  <2> QED
    BY <2>1
<1>2. ASSUME NEW k \in 0 .. n, k \in T, k < n PROVE k + 1 \in T
  <2>1. PICK f \in [0 .. k -> S] : f[0] = a /\ \A i \in 1 .. k : f[i] = step[i][f[i - 1]]
    BY <1>2
  <2> DEFINE g == [j \in 0 .. k + 1 |-> IF j = k + 1 THEN step[k + 1][f[k]] ELSE f[j]]
  <2>2. f[k] \in S /\ k + 1 \in 1 .. n
    BY <1>2
  <2>3. step[k + 1][f[k]] \in S
    BY <2>2
  <2>4. g \in [0 .. k + 1 -> S]
    BY <2>1, <2>3
  <2>5. g[0] = a
    BY <2>1
  <2>6. ASSUME NEW i \in 1 .. k + 1 PROVE g[i] = step[i][g[i - 1]]
    <3>1. i - 1 \in 0 .. k + 1 /\ i - 1 # k + 1 /\ i \in 0 .. k + 1
      BY <1>2
    <3>2. g[i - 1] = f[i - 1]
      BY <3>1
    <3>3. CASE i = k + 1
      <4>1. i - 1 = k
        BY <1>2, <3>3
      <4> QED
        BY <3>1, <3>2, <3>3, <4>1
    <3>4. CASE i # k + 1
      <4>1. i \in 1 .. k
        BY <1>2, <3>4
      <4> QED
        BY <2>1, <3>1, <3>2, <3>4, <4>1
    <3> QED
      BY <3>3, <3>4
  <2> HIDE DEF g
  <2> QED
    BY <1>2, <2>2, <2>4, <2>5, <2>6
<1>3. n \in T
  <2> HIDE DEF T
  <2>1. 0 .. n \subseteq T
    BY <1>1, <1>2, UpTo
  <2> QED
    BY <2>1
<1> QED
  BY <1>3

-----------------------------------------------------------------------------
(* Following a table.                                                      *)

Links == Cluster \cup {Free, EOC}

LEMMA Numbers == /\ Cluster \subseteq Nat \ {0, 1} /\ Slot \subseteq Nat /\ MaxSize \in Nat /\ MaxFailures \in Nat
                 /\ Free = 0 /\ EOC = 1 /\ Free \notin Cluster /\ EOC \notin Cluster
BY FatAssumption DEF Free, EOC

\* go[n] is what follows n links.
Follows(f, c, n, go) ==
    go \in [0 .. n -> Links] /\ \A i \in 0 .. n : go[i] = IF i = 0 THEN c
                                    ELSE IF Valid(go[i - 1]) THEN f[go[i - 1]] ELSE go[i - 1]

LEMMA FollowsExists ==
    ASSUME NEW f \in [Cluster -> Links], NEW c \in Links, NEW n \in Nat
    PROVE  \E go : Follows(f, c, n, go)
<1> DEFINE step == [i \in 1 .. n |-> [x \in Links |-> IF Valid(x) THEN f[x] ELSE x]]
<1>1. Keeps(n, Links, step)
  BY DEF Keeps, Valid
<1>2. PICK go : Iterates(n, Links, c, step, go)
  <2> HIDE DEF step
  <2> QED
    BY <1>1, Iterate
<1>3. go \in [0 .. n -> Links] /\ go[0] = c
  BY <1>2 DEF Iterates
<1>4. ASSUME NEW i \in 1 .. n PROVE go[i] = IF Valid(go[i - 1]) THEN f[go[i - 1]] ELSE go[i - 1]
  <2>1. go[i] = step[i][go[i - 1]]
    BY <1>2 DEF Iterates
  <2>2. i - 1 \in 0 .. n
    OBVIOUS
  <2>3. go[i - 1] \in Links
    BY <1>3, <2>2
  <2> QED
    BY <2>1, <2>3
<1>5. \A i \in 0 .. n : i # 0 => i \in 1 .. n
  OBVIOUS
<1> QED
  BY <1>3, <1>4, <1>5 DEF Follows

LEMMA FollowsUnique ==
    ASSUME NEW f \in [Cluster -> Links], NEW c \in Links, NEW n \in Nat, NEW m \in Nat, n <= m,
           NEW g, NEW h, Follows(f, c, n, g), Follows(f, c, m, h)
    PROVE  \A i \in 0 .. n : g[i] = h[i]
<1> DEFINE T == {i \in 0 .. n : g[i] = h[i]}
<1>1. 0 \in T
  BY DEF Follows
<1>2. ASSUME NEW i \in 0 .. n, i \in T, i < n PROVE i + 1 \in T
  <2>1. i + 1 \in 0 .. n /\ i + 1 \in 0 .. m /\ (i + 1) - 1 = i /\ i + 1 # 0
    BY <1>2
  <2>2. g[i + 1] = IF Valid(g[i]) THEN f[g[i]] ELSE g[i]
    BY <2>1 DEF Follows
  <2>3. h[i + 1] = IF Valid(h[i]) THEN f[h[i]] ELSE h[i]
    BY <2>1 DEF Follows
  <2> QED
    BY <1>2, <2>1, <2>2, <2>3
<1>3. 0 .. n \subseteq T
  <2> HIDE DEF T
  <2> QED
    BY <1>1, <1>2, UpTo
<1> QED
  BY <1>3

LEMMA NthFollows ==
    ASSUME NEW f \in [Cluster -> Links], NEW c \in Links
    PROVE  /\ Nth(f, c, 0) = c
           /\ \A n \in Nat : /\ Nth(f, c, n) \in Links
                             /\ Nth(f, c, n + 1) = IF Valid(Nth(f, c, n)) THEN f[Nth(f, c, n)] ELSE Nth(f, c, n)
<1> DEFINE F(g) == g = [i \in Nat |-> IF i = 0 THEN c ELSE IF Valid(g[i - 1]) THEN f[g[i - 1]] ELSE g[i - 1]]
           h(n) == CHOOSE go : Follows(f, c, n, go)
           g == [n \in Nat |-> h(n)[n]]
<1>1. ASSUME NEW n \in Nat PROVE Follows(f, c, n, h(n))
  BY FollowsExists, Zenon
<1> HIDE DEF h
<1>2. ASSUME NEW n \in Nat PROVE g[n] = h(n)[n] /\ g[n] \in Links
  <2>1. n \in 0 .. n
    OBVIOUS
  <2> QED
    BY <1>1, <2>1 DEF Follows
<1>3. ASSUME NEW n \in Nat, n # 0
      PROVE  g[n] = IF Valid(g[n - 1]) THEN f[g[n - 1]] ELSE g[n - 1]
  <2>1. n - 1 \in Nat /\ n \in 0 .. n /\ n - 1 \in 0 .. n - 1 /\ n - 1 <= n
    BY <1>3
  <2>2. h(n)[n] = IF Valid(h(n)[n - 1]) THEN f[h(n)[n - 1]] ELSE h(n)[n - 1]
    BY <1>1, <1>3, <2>1 DEF Follows
  <2>3. h(n - 1)[n - 1] = h(n)[n - 1]
    BY <1>1, <2>1, FollowsUnique
  <2> QED
    BY <1>2, <2>1, <2>2, <2>3
<1>4. g[0] = c
  <2>1. 0 \in 0 .. 0
    OBVIOUS
  <2> QED
    BY <1>1, <2>1 DEF Follows
<1>5. F(g)
  <2> DEFINE k == [i \in Nat |-> IF i = 0 THEN c ELSE IF Valid(g[i - 1]) THEN f[g[i - 1]] ELSE g[i - 1]]
  <2>1. \A i \in Nat : g[i] = k[i]
    BY <1>3, <1>4
  <2>2. g = k
    BY <2>1, Zenon
  <2> QED
    BY <2>2
<1> DEFINE go == CHOOSE x : F(x)
<1>6. F(go)
  BY <1>5, Zenon
<1>7. \A n : Nth(f, c, n) = go[n]
  BY DEF Nth
<1> HIDE DEF go
<1>8. go[0] = c /\ \A n \in Nat : go[n + 1] = IF Valid(go[n]) THEN f[go[n]] ELSE go[n]
  <2>1. \A n \in Nat : n + 1 \in Nat /\ n + 1 # 0 /\ (n + 1) - 1 = n
    OBVIOUS
  <2> QED
    BY <1>6, <2>1
<1> DEFINE T == {n \in Nat : go[n] \in Links}
<1>9. ASSUME NEW n \in Nat PROVE go[n] \in Links
  <2>1. 0 \in T
    BY <1>8
  <2>2. ASSUME NEW i \in 0 .. n, i \in T, i < n PROVE i + 1 \in T
    BY <1>8, <2>2 DEF Valid
  <2>3. 0 .. n \subseteq T
    <3> HIDE DEF T
    <3> QED
      BY <2>1, <2>2, UpTo
  <2> QED
    BY <2>3
<1> QED
  BY <1>7, <1>8, <1>9

\* Once a chain has left the clusters it stays where it is: those of the
\* first m + 1 numbers at which it has not are the first ones.
LEMMA Reaches ==
    ASSUME NEW f \in [Cluster -> Links], NEW c \in Links, NEW m \in Nat
    PROVE  LET k == Cardinality({n \in 0 .. m : Valid(Nth(f, c, n))})
           IN  k \in 0 .. m + 1 /\ \A n \in 0 .. m : Valid(Nth(f, c, n)) <=> n < k
<1> DEFINE at(n) == Nth(f, c, n)
           V == {n \in 0 .. m : Valid(at(n))}
<1>1. \A n \in Nat : at(n + 1) = IF Valid(at(n)) THEN f[at(n)] ELSE at(n)
  BY NthFollows
<1> HIDE DEF at
<1> SUFFICES Cardinality(V) \in 0 .. m + 1 /\ \A n \in 0 .. m : Valid(at(n)) <=> n < Cardinality(V)
  BY DEF at
<1>2. CASE \A n \in 0 .. m : Valid(at(n))
  <2>1. V = 0 .. m
    BY <1>2
  <2>2. Cardinality(0 .. m) = m + 1
    BY FS_Interval
  <2> HIDE DEF V
  <2> QED
    BY <1>2, <2>1, <2>2
<1>3. CASE \E n \in 0 .. m : ~Valid(at(n))
  <2> DEFINE I == {n \in 0 .. m : ~Valid(at(n))}
  <2>1. PICK k \in I : \A n \in I : k <= n
    <3>1. I \subseteq Nat /\ I # {}
      BY <1>3
    <3> HIDE DEF I
    <3> QED
      BY <3>1, LeastElement
  <2>2. k \in 0 .. m /\ ~Valid(at(k)) /\ \A n \in 0 .. m : n < k => Valid(at(n))
    BY <2>1
  <2>3. ASSUME NEW n \in 0 .. m, k <= n PROVE ~Valid(at(n))
    <3> DEFINE T == {i \in 0 .. n - k : ~Valid(at(k + i))}
    <3>1. 0 \in T
      BY <2>2, <2>3
    <3>2. ASSUME NEW i \in 0 .. n - k, i \in T, i < n - k PROVE i + 1 \in T
      <4>1. at((k + i) + 1) = at(k + i) /\ (k + i) + 1 = k + (i + 1) /\ i + 1 \in 0 .. n - k
        BY <1>1, <2>2, <2>3, <3>2
      <4> QED
        BY <3>2, <4>1
    <3>3. n - k \in Nat
      BY <2>2, <2>3
    <3>4. 0 .. n - k \subseteq T
      <4> HIDE DEF T
      <4> QED
        BY <3>1, <3>2, <3>3, UpTo
    <3>5. n - k \in T /\ k + (n - k) = n
      BY <2>2, <3>3, <3>4
    <3> QED
      BY <3>5
  <2>4. V = 0 .. k - 1
    BY <2>2, <2>3
  <2>5. Cardinality(0 .. k - 1) = k
    BY <2>2, FS_Interval
  <2>6. \A n \in 0 .. m : Valid(at(n)) <=> n < k
    BY <2>2, <2>3
  <2> HIDE DEF V
  <2> QED
    BY <2>2, <2>4, <2>5, <2>6
<1> QED
  BY <1>2, <1>3

\* The clusters q are a chain of the table f: each names the next and the
\* last ends it.
Path(f, q) ==
    /\ q \in Seq(Cluster)
    /\ \A i \in 1 .. Len(q) : f[q[i]] = IF i = Len(q) THEN EOC ELSE q[i + 1]
    /\ \A i, j \in 1 .. Len(q) : q[i] = q[j] => i = j

On(q) == {q[i] : i \in 1 .. Len(q)}

LEMMA PathLength ==
    ASSUME NEW f, NEW q, Path(f, q)
    PROVE  Len(q) \in Nat /\ Len(q) <= Cardinality(Cluster) /\ Cardinality(Cluster) \in Nat
<1>1. q \in [1 .. Len(q) -> Cluster] /\ Len(q) \in Nat
  BY DEF Path
<1>2. q \in Injection(1 .. Len(q), Cluster)
  BY <1>1 DEF Path, Injection, IsInjective
<1>3. IsFiniteSet(Cluster)
  BY FatAssumption
<1>4. Cardinality(1 .. Len(q)) = Len(q)
  <2>1. 1 \in Int /\ Len(q) \in Int
    BY <1>1
  <2>2. Cardinality(1 .. Len(q)) = IF 1 > Len(q) THEN 0 ELSE Len(q) - 1 + 1
    BY <2>1, FS_Interval
  <2> QED
    BY <1>1, <2>2
<1>5. Cardinality(1 .. Len(q)) <= Cardinality(Cluster)
  BY <1>2, <1>3, FS_Injection
<1> QED
  BY <1>1, <1>3, <1>4, <1>5, FS_CardinalityType

LEMMA NthPath ==
    ASSUME NEW f \in [Cluster -> Links], NEW q, Path(f, q), q # <<>>, NEW n \in Nat
    PROVE  Nth(f, q[1], n) = IF n < Len(q) THEN q[n + 1] ELSE EOC
<1> DEFINE at(i) == Nth(f, q[1], i)
           want(i) == IF i < Len(q) THEN q[i + 1] ELSE EOC
           T == {i \in 0 .. n : at(i) = want(i)}
<1>1. Len(q) \in Nat /\ Len(q) # 0 /\ \A i \in 1 .. Len(q) : q[i] \in Cluster
  BY DEF Path
<1>2. q[1] \in Links
  BY <1>1 DEF Links
<1>3. at(0) = q[1] /\ \A i \in Nat : at(i + 1) = IF Valid(at(i)) THEN f[at(i)] ELSE at(i)
  BY <1>2, NthFollows
<1> HIDE DEF at
<1>4. 0 \in T
  BY <1>1, <1>3
<1>5. ASSUME NEW i \in 0 .. n, i \in T, i < n PROVE i + 1 \in T
  <2>0. at(i) = want(i) /\ i \in Nat
    BY <1>5
  <2>1. at(i + 1) = IF Valid(want(i)) THEN f[want(i)] ELSE want(i)
    <3> HIDE DEF want
    <3> QED
      BY <1>3, <2>0
  <2>2. CASE i < Len(q)
    <3>1. i + 1 \in 1 .. Len(q) /\ want(i) = q[i + 1] /\ Valid(want(i))
      BY <1>1, <2>2 DEF Valid
    <3>2. f[q[i + 1]] = IF i + 1 = Len(q) THEN EOC ELSE q[(i + 1) + 1]
      BY <3>1 DEF Path
    <3> QED
      BY <1>1, <1>5, <2>1, <2>2, <3>1, <3>2
  <2>3. CASE ~(i < Len(q))
    BY <1>1, <1>5, <2>1, <2>3, Numbers DEF Valid
  <2> QED
    BY <2>2, <2>3
<1>6. 0 .. n \subseteq T
  <2> HIDE DEF T
  <2> QED
    BY <1>4, <1>5, UpTo
<1>7. at(n) = want(n)
  BY <1>6
<1> QED
  BY <1>7 DEF at

\* What VolumeSound asks of a chain.
LEMMA PathEnds ==
    ASSUME NEW f \in [Cluster -> Links], NEW q, Path(f, q), q # <<>>
    PROVE  /\ EOC \in {Nth(f, q[1], n) : n \in 0 .. Cardinality(Cluster)}
           /\ Chain(f, q[1]) = On(q)
<1>1. Len(q) \in Nat /\ Len(q) <= Cardinality(Cluster) /\ Cardinality(Cluster) \in Nat
  BY PathLength
<1>2. Nth(f, q[1], Len(q)) = EOC
  BY <1>1, NthPath
<1>3. ASSUME NEW d \in Cluster, NEW n \in 0 .. Cardinality(Cluster), Nth(f, q[1], n) = d PROVE d \in On(q)
  <2>1. n < Len(q)
    BY <1>1, <1>3, NthPath, Numbers
  <2>2. n + 1 \in 1 .. Len(q) /\ d = q[n + 1]
    BY <1>1, <1>3, <2>1, NthPath
  <2> QED
    BY <2>2 DEF On
<1>4. ASSUME NEW i \in 1 .. Len(q) PROVE q[i] \in Cluster /\ \E n \in 0 .. Cardinality(Cluster) : Nth(f, q[1], n) = q[i]
  <2>1. i - 1 \in 0 .. Cardinality(Cluster) /\ i - 1 < Len(q) /\ (i - 1) + 1 = i /\ i - 1 \in Nat
    BY <1>1
  <2>2. Nth(f, q[1], i - 1) = q[i]
    BY <2>1, NthPath
  <2> QED
    BY <2>1, <2>2 DEF Path
<1> QED
  BY <1>1, <1>2, <1>3, <1>4 DEF Chain, On

-----------------------------------------------------------------------------
(* Records: the local variables of a call and an open file.                *)

Kinds == {None, "write", "truncate", "unlink", "file", "dir", "rename"}
Locals == [kind : Kinds, slot : Slot \cup {None}, to : Slot \cup {None}, cur : Links,
           at : Cluster \cup {None}, new : Cluster \cup {0}, off : 0 .. MaxSize, left : 0 .. MaxSize,
           done : 0 .. MaxSize, val : Value \cup {Zero}, freed : BOOLEAN, buf : [Slot -> Entry] \cup {None}]
Files == [slot : Slot \cup {None}, ino : Cluster \cup {0}, size : 0 .. MaxSize, pos : 0 .. MaxSize]

LEMMA NoLocalsType == NoLocals \in Locals
BY Numbers DEF NoLocals, Locals, Kinds, Links

LEMMA NoFileType == NoFile \in Files
BY Numbers DEF NoFile, Files

LEMMA NoLocalsFields ==
    /\ NoLocals.slot = None /\ NoLocals.to = None /\ NoLocals.cur = 0 /\ NoLocals.at = None
    /\ NoLocals.new = 0 /\ NoLocals.off = 0 /\ NoLocals.left = 0 /\ NoLocals.done = 0
    /\ NoLocals.val = Zero /\ NoLocals.freed = FALSE /\ NoLocals.buf = None /\ NoLocals.kind = None
BY DEF NoLocals

LEMMA LocalsFields ==
    ASSUME NEW l \in Locals
    PROVE  /\ l.kind \in Kinds /\ l.slot \in Slot \cup {None} /\ l.to \in Slot \cup {None}
           /\ l.cur \in Links /\ l.at \in Cluster \cup {None} /\ l.new \in Cluster \cup {0}
           /\ l.off \in 0 .. MaxSize /\ l.left \in 0 .. MaxSize /\ l.done \in 0 .. MaxSize
           /\ l.val \in Value \cup {Zero} /\ l.freed \in BOOLEAN /\ l.buf \in [Slot -> Entry] \cup {None}
BY DEF Locals

LEMMA FilesFields ==
    ASSUME NEW f \in Files
    PROVE  /\ f.slot \in Slot \cup {None} /\ f.ino \in Cluster \cup {0}
           /\ f.size \in 0 .. MaxSize /\ f.pos \in 0 .. MaxSize
BY DEF Files

LEMMA SetKind ==
    ASSUME NEW l \in Locals, NEW x \in Kinds
    PROVE  LET m == [l EXCEPT !.kind = x]
           IN  /\ m \in Locals /\ m.kind = x
               /\ m.slot = l.slot /\ m.to = l.to /\ m.cur = l.cur /\ m.at = l.at /\ m.new = l.new
               /\ m.off = l.off /\ m.left = l.left /\ m.done = l.done /\ m.val = l.val /\ m.freed = l.freed
               /\ m.buf = l.buf
BY DEF Locals

LEMMA SetSlot ==
    ASSUME NEW l \in Locals, NEW x \in Slot \cup {None}
    PROVE  LET m == [l EXCEPT !.slot = x]
           IN  /\ m \in Locals /\ m.slot = x
               /\ m.kind = l.kind /\ m.to = l.to /\ m.cur = l.cur /\ m.at = l.at /\ m.new = l.new
               /\ m.off = l.off /\ m.left = l.left /\ m.done = l.done /\ m.val = l.val /\ m.freed = l.freed
               /\ m.buf = l.buf
BY DEF Locals

LEMMA SetTo ==
    ASSUME NEW l \in Locals, NEW x \in Slot \cup {None}
    PROVE  LET m == [l EXCEPT !.to = x]
           IN  /\ m \in Locals /\ m.to = x
               /\ m.kind = l.kind /\ m.slot = l.slot /\ m.cur = l.cur /\ m.at = l.at /\ m.new = l.new
               /\ m.off = l.off /\ m.left = l.left /\ m.done = l.done /\ m.val = l.val /\ m.freed = l.freed
               /\ m.buf = l.buf
BY DEF Locals

LEMMA SetCur ==
    ASSUME NEW l \in Locals, NEW x \in Links
    PROVE  LET m == [l EXCEPT !.cur = x]
           IN  /\ m \in Locals /\ m.cur = x
               /\ m.kind = l.kind /\ m.slot = l.slot /\ m.to = l.to /\ m.at = l.at /\ m.new = l.new
               /\ m.off = l.off /\ m.left = l.left /\ m.done = l.done /\ m.val = l.val /\ m.freed = l.freed
               /\ m.buf = l.buf
BY DEF Locals

LEMMA SetAt ==
    ASSUME NEW l \in Locals, NEW x \in Cluster \cup {None}
    PROVE  LET m == [l EXCEPT !.at = x]
           IN  /\ m \in Locals /\ m.at = x
               /\ m.kind = l.kind /\ m.slot = l.slot /\ m.to = l.to /\ m.cur = l.cur /\ m.new = l.new
               /\ m.off = l.off /\ m.left = l.left /\ m.done = l.done /\ m.val = l.val /\ m.freed = l.freed
               /\ m.buf = l.buf
BY DEF Locals

LEMMA SetNew ==
    ASSUME NEW l \in Locals, NEW x \in Cluster \cup {0}
    PROVE  LET m == [l EXCEPT !.new = x]
           IN  /\ m \in Locals /\ m.new = x
               /\ m.kind = l.kind /\ m.slot = l.slot /\ m.to = l.to /\ m.cur = l.cur /\ m.at = l.at
               /\ m.off = l.off /\ m.left = l.left /\ m.done = l.done /\ m.val = l.val /\ m.freed = l.freed
               /\ m.buf = l.buf
BY DEF Locals

LEMMA SetOff ==
    ASSUME NEW l \in Locals, NEW x \in 0 .. MaxSize
    PROVE  LET m == [l EXCEPT !.off = x]
           IN  /\ m \in Locals /\ m.off = x
               /\ m.kind = l.kind /\ m.slot = l.slot /\ m.to = l.to /\ m.cur = l.cur /\ m.at = l.at
               /\ m.new = l.new /\ m.left = l.left /\ m.done = l.done /\ m.val = l.val /\ m.freed = l.freed
               /\ m.buf = l.buf
BY DEF Locals

LEMMA SetLeft ==
    ASSUME NEW l \in Locals, NEW x \in 0 .. MaxSize
    PROVE  LET m == [l EXCEPT !.left = x]
           IN  /\ m \in Locals /\ m.left = x
               /\ m.kind = l.kind /\ m.slot = l.slot /\ m.to = l.to /\ m.cur = l.cur /\ m.at = l.at
               /\ m.new = l.new /\ m.off = l.off /\ m.done = l.done /\ m.val = l.val /\ m.freed = l.freed
               /\ m.buf = l.buf
BY DEF Locals

LEMMA SetDone ==
    ASSUME NEW l \in Locals, NEW x \in 0 .. MaxSize
    PROVE  LET m == [l EXCEPT !.done = x]
           IN  /\ m \in Locals /\ m.done = x
               /\ m.kind = l.kind /\ m.slot = l.slot /\ m.to = l.to /\ m.cur = l.cur /\ m.at = l.at
               /\ m.new = l.new /\ m.off = l.off /\ m.left = l.left /\ m.val = l.val /\ m.freed = l.freed
               /\ m.buf = l.buf
BY DEF Locals

LEMMA SetVal ==
    ASSUME NEW l \in Locals, NEW x \in Value \cup {Zero}
    PROVE  LET m == [l EXCEPT !.val = x]
           IN  /\ m \in Locals /\ m.val = x
               /\ m.kind = l.kind /\ m.slot = l.slot /\ m.to = l.to /\ m.cur = l.cur /\ m.at = l.at
               /\ m.new = l.new /\ m.off = l.off /\ m.left = l.left /\ m.done = l.done /\ m.freed = l.freed
               /\ m.buf = l.buf
BY DEF Locals

LEMMA SetFreed ==
    ASSUME NEW l \in Locals, NEW x \in BOOLEAN
    PROVE  LET m == [l EXCEPT !.freed = x]
           IN  /\ m \in Locals /\ m.freed = x
               /\ m.kind = l.kind /\ m.slot = l.slot /\ m.to = l.to /\ m.cur = l.cur /\ m.at = l.at
               /\ m.new = l.new /\ m.off = l.off /\ m.left = l.left /\ m.done = l.done /\ m.val = l.val
               /\ m.buf = l.buf
BY DEF Locals

LEMMA SetBuf ==
    ASSUME NEW l \in Locals, NEW x \in [Slot -> Entry] \cup {None}
    PROVE  LET m == [l EXCEPT !.buf = x]
           IN  /\ m \in Locals /\ m.buf = x
               /\ m.kind = l.kind /\ m.slot = l.slot /\ m.to = l.to /\ m.cur = l.cur /\ m.at = l.at
               /\ m.new = l.new /\ m.off = l.off /\ m.left = l.left /\ m.done = l.done /\ m.val = l.val
               /\ m.freed = l.freed
BY DEF Locals

-----------------------------------------------------------------------------
(* The local variables that an action leaves.                              *)

Turned(l, n, x) == [l EXCEPT !.new = n, !.at = x]

LEMMA TurnLocals ==
    ASSUME NEW l \in Locals, NEW n \in Cluster \cup {0}, NEW x \in Cluster \cup {None}
    PROVE  LET m == Turned(l, n, x)
           IN  /\ m \in Locals /\ m.new = n /\ m.at = x
               /\ m.kind = l.kind /\ m.slot = l.slot /\ m.to = l.to /\ m.cur = l.cur /\ m.off = l.off
               /\ m.left = l.left /\ m.done = l.done /\ m.val = l.val /\ m.freed = l.freed /\ m.buf = l.buf
<1>0. l \in Locals /\ n \in Cluster \cup {0} /\ x \in Cluster \cup {None}
  BY NoLocalsType, Numbers, LocalsFields DEF Kinds, Links
<1> DEFINE u1 == [l EXCEPT !.new = n]
<1>1. /\ u1 \in Locals /\ u1.new = n
      /\ u1.kind = l.kind /\ u1.slot = l.slot /\ u1.to = l.to /\ u1.cur = l.cur /\ u1.at = l.at
      /\ u1.off = l.off /\ u1.left = l.left /\ u1.done = l.done /\ u1.val = l.val /\ u1.freed = l.freed
      /\ u1.buf = l.buf
  BY <1>0, SetNew
<1> HIDE DEF u1
<1> DEFINE u2 == [u1 EXCEPT !.at = x]
<1>2. /\ u2 \in Locals /\ u2.at = x
      /\ u2.kind = u1.kind /\ u2.slot = u1.slot /\ u2.to = u1.to /\ u2.cur = u1.cur /\ u2.new = u1.new
      /\ u2.off = u1.off /\ u2.left = u1.left /\ u2.done = u1.done /\ u2.val = u1.val /\ u2.freed = u1.freed
      /\ u2.buf = u1.buf
  BY <1>0, <1>1, SetAt
<1>3. Turned(l, n, x) = u2
  BY DEF Turned, u1, u2
<1> HIDE DEF u2
<1> QED
  BY <1>1, <1>2, <1>3

Stepped(l) == [l EXCEPT !.off = l.off + 1, !.left = l.left - 1, !.done = l.done + 1]

LEMMA DataLocals ==
    ASSUME NEW l \in Locals, l.left >= 1, l.off < MaxSize, l.done < MaxSize
    PROVE  LET m == Stepped(l)
           IN  /\ m \in Locals /\ m.off = l.off + 1 /\ m.left = l.left - 1 /\ m.done = l.done + 1
               /\ m.kind = l.kind /\ m.slot = l.slot /\ m.to = l.to /\ m.cur = l.cur /\ m.at = l.at
               /\ m.new = l.new /\ m.val = l.val /\ m.freed = l.freed /\ m.buf = l.buf
<1>0. l \in Locals /\ l.off + 1 \in 0 .. MaxSize /\ l.left - 1 \in 0 .. MaxSize /\ l.done + 1 \in 0 .. MaxSize
  BY NoLocalsType, Numbers, LocalsFields DEF Kinds, Links
<1> DEFINE u1 == [l EXCEPT !.off = l.off + 1]
<1>1. /\ u1 \in Locals /\ u1.off = l.off + 1
      /\ u1.kind = l.kind /\ u1.slot = l.slot /\ u1.to = l.to /\ u1.cur = l.cur /\ u1.at = l.at
      /\ u1.new = l.new /\ u1.left = l.left /\ u1.done = l.done /\ u1.val = l.val /\ u1.freed = l.freed
      /\ u1.buf = l.buf
  BY <1>0, SetOff
<1> HIDE DEF u1
<1> DEFINE u2 == [u1 EXCEPT !.left = l.left - 1]
<1>2. /\ u2 \in Locals /\ u2.left = l.left - 1
      /\ u2.kind = u1.kind /\ u2.slot = u1.slot /\ u2.to = u1.to /\ u2.cur = u1.cur /\ u2.at = u1.at
      /\ u2.new = u1.new /\ u2.off = u1.off /\ u2.done = u1.done /\ u2.val = u1.val /\ u2.freed = u1.freed
      /\ u2.buf = u1.buf
  BY <1>0, <1>1, SetLeft
<1> HIDE DEF u2
<1> DEFINE u3 == [u2 EXCEPT !.done = l.done + 1]
<1>3. /\ u3 \in Locals /\ u3.done = l.done + 1
      /\ u3.kind = u2.kind /\ u3.slot = u2.slot /\ u3.to = u2.to /\ u3.cur = u2.cur /\ u3.at = u2.at
      /\ u3.new = u2.new /\ u3.off = u2.off /\ u3.left = u2.left /\ u3.val = u2.val /\ u3.freed = u2.freed
      /\ u3.buf = u2.buf
  BY <1>0, <1>2, SetDone
<1>4. Stepped(l) = u3
  BY DEF Stepped, u1, u2, u3
<1> HIDE DEF u3
<1> QED
  BY <1>1, <1>2, <1>3, <1>4

FreedTo(l, c) == [l EXCEPT !.cur = c, !.freed = TRUE]

LEMMA FreeLocals ==
    ASSUME NEW l \in Locals, NEW c \in Links
    PROVE  LET m == FreedTo(l, c)
           IN  /\ m \in Locals /\ m.cur = c /\ m.freed = TRUE
               /\ m.kind = l.kind /\ m.slot = l.slot /\ m.to = l.to /\ m.at = l.at /\ m.new = l.new
               /\ m.off = l.off /\ m.left = l.left /\ m.done = l.done /\ m.val = l.val /\ m.buf = l.buf
<1>0. l \in Locals /\ c \in Links /\ TRUE \in BOOLEAN
  BY NoLocalsType, Numbers, LocalsFields DEF Kinds, Links
<1> DEFINE u1 == [l EXCEPT !.cur = c]
<1>1. /\ u1 \in Locals /\ u1.cur = c
      /\ u1.kind = l.kind /\ u1.slot = l.slot /\ u1.to = l.to /\ u1.at = l.at /\ u1.new = l.new
      /\ u1.off = l.off /\ u1.left = l.left /\ u1.done = l.done /\ u1.val = l.val /\ u1.freed = l.freed
      /\ u1.buf = l.buf
  BY <1>0, SetCur
<1> HIDE DEF u1
<1> DEFINE u2 == [u1 EXCEPT !.freed = TRUE]
<1>2. /\ u2 \in Locals /\ u2.freed = TRUE
      /\ u2.kind = u1.kind /\ u2.slot = u1.slot /\ u2.to = u1.to /\ u2.cur = u1.cur /\ u2.at = u1.at
      /\ u2.new = u1.new /\ u2.off = u1.off /\ u2.left = u1.left /\ u2.done = u1.done /\ u2.val = u1.val
      /\ u2.buf = u1.buf
  BY <1>0, <1>1, SetFreed
<1>3. FreedTo(l, c) = u2
  BY DEF FreedTo, u1, u2
<1> HIDE DEF u2
<1> QED
  BY <1>1, <1>2, <1>3

WriteCall(f, n, v) == [NoLocals EXCEPT !.kind = "write", !.cur = f.ino, !.off = f.pos, !.left = n, !.val = v]

LEMMA WriteLocals ==
    ASSUME NEW f \in Files, NEW n \in 1 .. MaxSize, NEW v \in Value
    PROVE  LET m == WriteCall(f, n, v)
           IN  /\ m \in Locals /\ m.kind = "write" /\ m.cur = f.ino /\ m.off = f.pos /\ m.left = n /\ m.val = v
               /\ m.slot = NoLocals.slot /\ m.to = NoLocals.to /\ m.at = NoLocals.at /\ m.new = NoLocals.new /\ m.done = NoLocals.done
               /\ m.freed = NoLocals.freed /\ m.buf = NoLocals.buf
<1>0. NoLocals \in Locals /\ "write" \in Kinds /\ f.ino \in Links /\ f.pos \in 0 .. MaxSize /\ n \in 0 .. MaxSize /\ v \in Value \cup {Zero}
  BY NoLocalsType, Numbers, FilesFields DEF Kinds, Links
<1> DEFINE u1 == [NoLocals EXCEPT !.kind = "write"]
<1>1. /\ u1 \in Locals /\ u1.kind = "write"
      /\ u1.slot = NoLocals.slot /\ u1.to = NoLocals.to /\ u1.cur = NoLocals.cur /\ u1.at = NoLocals.at /\ u1.new = NoLocals.new
      /\ u1.off = NoLocals.off /\ u1.left = NoLocals.left /\ u1.done = NoLocals.done /\ u1.val = NoLocals.val /\ u1.freed = NoLocals.freed
      /\ u1.buf = NoLocals.buf
  BY <1>0, SetKind
<1> HIDE DEF u1
<1> DEFINE u2 == [u1 EXCEPT !.cur = f.ino]
<1>2. /\ u2 \in Locals /\ u2.cur = f.ino
      /\ u2.kind = u1.kind /\ u2.slot = u1.slot /\ u2.to = u1.to /\ u2.at = u1.at /\ u2.new = u1.new
      /\ u2.off = u1.off /\ u2.left = u1.left /\ u2.done = u1.done /\ u2.val = u1.val /\ u2.freed = u1.freed
      /\ u2.buf = u1.buf
  BY <1>0, <1>1, SetCur
<1> HIDE DEF u2
<1> DEFINE u3 == [u2 EXCEPT !.off = f.pos]
<1>3. /\ u3 \in Locals /\ u3.off = f.pos
      /\ u3.kind = u2.kind /\ u3.slot = u2.slot /\ u3.to = u2.to /\ u3.cur = u2.cur /\ u3.at = u2.at
      /\ u3.new = u2.new /\ u3.left = u2.left /\ u3.done = u2.done /\ u3.val = u2.val /\ u3.freed = u2.freed
      /\ u3.buf = u2.buf
  BY <1>0, <1>2, SetOff
<1> HIDE DEF u3
<1> DEFINE u4 == [u3 EXCEPT !.left = n]
<1>4. /\ u4 \in Locals /\ u4.left = n
      /\ u4.kind = u3.kind /\ u4.slot = u3.slot /\ u4.to = u3.to /\ u4.cur = u3.cur /\ u4.at = u3.at
      /\ u4.new = u3.new /\ u4.off = u3.off /\ u4.done = u3.done /\ u4.val = u3.val /\ u4.freed = u3.freed
      /\ u4.buf = u3.buf
  BY <1>0, <1>3, SetLeft
<1> HIDE DEF u4
<1> DEFINE u5 == [u4 EXCEPT !.val = v]
<1>5. /\ u5 \in Locals /\ u5.val = v
      /\ u5.kind = u4.kind /\ u5.slot = u4.slot /\ u5.to = u4.to /\ u5.cur = u4.cur /\ u5.at = u4.at
      /\ u5.new = u4.new /\ u5.off = u4.off /\ u5.left = u4.left /\ u5.done = u4.done /\ u5.freed = u4.freed
      /\ u5.buf = u4.buf
  BY <1>0, <1>4, SetVal
<1>6. WriteCall(f, n, v) = u5
  BY DEF WriteCall, u1, u2, u3, u4, u5
<1> HIDE DEF u5
<1> QED
  BY <1>1, <1>2, <1>3, <1>4, <1>5, <1>6

TruncateCall(f) == [NoLocals EXCEPT !.kind = "truncate", !.cur = f.ino]

LEMMA TruncateLocals ==
    ASSUME NEW f \in Files
    PROVE  LET m == TruncateCall(f)
           IN  /\ m \in Locals /\ m.kind = "truncate" /\ m.cur = f.ino
               /\ m.slot = NoLocals.slot /\ m.to = NoLocals.to /\ m.at = NoLocals.at /\ m.new = NoLocals.new /\ m.off = NoLocals.off
               /\ m.left = NoLocals.left /\ m.done = NoLocals.done /\ m.val = NoLocals.val /\ m.freed = NoLocals.freed /\ m.buf = NoLocals.buf
<1>0. NoLocals \in Locals /\ "truncate" \in Kinds /\ f.ino \in Links
  BY NoLocalsType, Numbers, FilesFields DEF Kinds, Links
<1> DEFINE u1 == [NoLocals EXCEPT !.kind = "truncate"]
<1>1. /\ u1 \in Locals /\ u1.kind = "truncate"
      /\ u1.slot = NoLocals.slot /\ u1.to = NoLocals.to /\ u1.cur = NoLocals.cur /\ u1.at = NoLocals.at /\ u1.new = NoLocals.new
      /\ u1.off = NoLocals.off /\ u1.left = NoLocals.left /\ u1.done = NoLocals.done /\ u1.val = NoLocals.val /\ u1.freed = NoLocals.freed
      /\ u1.buf = NoLocals.buf
  BY <1>0, SetKind
<1> HIDE DEF u1
<1> DEFINE u2 == [u1 EXCEPT !.cur = f.ino]
<1>2. /\ u2 \in Locals /\ u2.cur = f.ino
      /\ u2.kind = u1.kind /\ u2.slot = u1.slot /\ u2.to = u1.to /\ u2.at = u1.at /\ u2.new = u1.new
      /\ u2.off = u1.off /\ u2.left = u1.left /\ u2.done = u1.done /\ u2.val = u1.val /\ u2.freed = u1.freed
      /\ u2.buf = u1.buf
  BY <1>0, <1>1, SetCur
<1>3. TruncateCall(f) = u2
  BY DEF TruncateCall, u1, u2
<1> HIDE DEF u2
<1> QED
  BY <1>1, <1>2, <1>3

UnlinkCall(s, c) == [NoLocals EXCEPT !.kind = "unlink", !.slot = s, !.cur = c]

LEMMA UnlinkLocals ==
    ASSUME NEW s \in Slot, NEW c \in Cluster \cup {0}
    PROVE  LET m == UnlinkCall(s, c)
           IN  /\ m \in Locals /\ m.kind = "unlink" /\ m.slot = s /\ m.cur = c
               /\ m.to = NoLocals.to /\ m.at = NoLocals.at /\ m.new = NoLocals.new /\ m.off = NoLocals.off /\ m.left = NoLocals.left
               /\ m.done = NoLocals.done /\ m.val = NoLocals.val /\ m.freed = NoLocals.freed /\ m.buf = NoLocals.buf
<1>0. NoLocals \in Locals /\ "unlink" \in Kinds /\ s \in Slot \cup {None} /\ c \in Links
  BY NoLocalsType, Numbers, LocalsFields DEF Kinds, Links
<1> DEFINE u1 == [NoLocals EXCEPT !.kind = "unlink"]
<1>1. /\ u1 \in Locals /\ u1.kind = "unlink"
      /\ u1.slot = NoLocals.slot /\ u1.to = NoLocals.to /\ u1.cur = NoLocals.cur /\ u1.at = NoLocals.at /\ u1.new = NoLocals.new
      /\ u1.off = NoLocals.off /\ u1.left = NoLocals.left /\ u1.done = NoLocals.done /\ u1.val = NoLocals.val /\ u1.freed = NoLocals.freed
      /\ u1.buf = NoLocals.buf
  BY <1>0, SetKind
<1> HIDE DEF u1
<1> DEFINE u2 == [u1 EXCEPT !.slot = s]
<1>2. /\ u2 \in Locals /\ u2.slot = s
      /\ u2.kind = u1.kind /\ u2.to = u1.to /\ u2.cur = u1.cur /\ u2.at = u1.at /\ u2.new = u1.new
      /\ u2.off = u1.off /\ u2.left = u1.left /\ u2.done = u1.done /\ u2.val = u1.val /\ u2.freed = u1.freed
      /\ u2.buf = u1.buf
  BY <1>0, <1>1, SetSlot
<1> HIDE DEF u2
<1> DEFINE u3 == [u2 EXCEPT !.cur = c]
<1>3. /\ u3 \in Locals /\ u3.cur = c
      /\ u3.kind = u2.kind /\ u3.slot = u2.slot /\ u3.to = u2.to /\ u3.at = u2.at /\ u3.new = u2.new
      /\ u3.off = u2.off /\ u3.left = u2.left /\ u3.done = u2.done /\ u3.val = u2.val /\ u3.freed = u2.freed
      /\ u3.buf = u2.buf
  BY <1>0, <1>2, SetCur
<1>4. UnlinkCall(s, c) = u3
  BY DEF UnlinkCall, u1, u2, u3
<1> HIDE DEF u3
<1> QED
  BY <1>1, <1>2, <1>3, <1>4

CreateCall(k, s, r, b, n) == [NoLocals EXCEPT !.kind = k, !.slot = s, !.to = r, !.buf = b, !.new = n]

LEMMA CreateLocals ==
    ASSUME NEW k \in Kinds, NEW s \in Slot \cup {None}, NEW r \in Slot,
           NEW b \in [Slot -> Entry], NEW n \in Cluster \cup {0}
    PROVE  LET m == CreateCall(k, s, r, b, n)
           IN  /\ m \in Locals /\ m.kind = k /\ m.slot = s /\ m.to = r /\ m.buf = b /\ m.new = n
               /\ m.cur = NoLocals.cur /\ m.at = NoLocals.at /\ m.off = NoLocals.off /\ m.left = NoLocals.left /\ m.done = NoLocals.done
               /\ m.val = NoLocals.val /\ m.freed = NoLocals.freed
<1>0. NoLocals \in Locals /\ k \in Kinds /\ s \in Slot \cup {None} /\ r \in Slot \cup {None} /\ b \in [Slot -> Entry] \cup {None} /\ n \in Cluster \cup {0}
  BY NoLocalsType, Numbers, LocalsFields DEF Kinds, Links
<1> DEFINE u1 == [NoLocals EXCEPT !.kind = k]
<1>1. /\ u1 \in Locals /\ u1.kind = k
      /\ u1.slot = NoLocals.slot /\ u1.to = NoLocals.to /\ u1.cur = NoLocals.cur /\ u1.at = NoLocals.at /\ u1.new = NoLocals.new
      /\ u1.off = NoLocals.off /\ u1.left = NoLocals.left /\ u1.done = NoLocals.done /\ u1.val = NoLocals.val /\ u1.freed = NoLocals.freed
      /\ u1.buf = NoLocals.buf
  BY <1>0, SetKind
<1> HIDE DEF u1
<1> DEFINE u2 == [u1 EXCEPT !.slot = s]
<1>2. /\ u2 \in Locals /\ u2.slot = s
      /\ u2.kind = u1.kind /\ u2.to = u1.to /\ u2.cur = u1.cur /\ u2.at = u1.at /\ u2.new = u1.new
      /\ u2.off = u1.off /\ u2.left = u1.left /\ u2.done = u1.done /\ u2.val = u1.val /\ u2.freed = u1.freed
      /\ u2.buf = u1.buf
  BY <1>0, <1>1, SetSlot
<1> HIDE DEF u2
<1> DEFINE u3 == [u2 EXCEPT !.to = r]
<1>3. /\ u3 \in Locals /\ u3.to = r
      /\ u3.kind = u2.kind /\ u3.slot = u2.slot /\ u3.cur = u2.cur /\ u3.at = u2.at /\ u3.new = u2.new
      /\ u3.off = u2.off /\ u3.left = u2.left /\ u3.done = u2.done /\ u3.val = u2.val /\ u3.freed = u2.freed
      /\ u3.buf = u2.buf
  BY <1>0, <1>2, SetTo
<1> HIDE DEF u3
<1> DEFINE u4 == [u3 EXCEPT !.buf = b]
<1>4. /\ u4 \in Locals /\ u4.buf = b
      /\ u4.kind = u3.kind /\ u4.slot = u3.slot /\ u4.to = u3.to /\ u4.cur = u3.cur /\ u4.at = u3.at
      /\ u4.new = u3.new /\ u4.off = u3.off /\ u4.left = u3.left /\ u4.done = u3.done /\ u4.val = u3.val
      /\ u4.freed = u3.freed
  BY <1>0, <1>3, SetBuf
<1> HIDE DEF u4
<1> DEFINE u5 == [u4 EXCEPT !.new = n]
<1>5. /\ u5 \in Locals /\ u5.new = n
      /\ u5.kind = u4.kind /\ u5.slot = u4.slot /\ u5.to = u4.to /\ u5.cur = u4.cur /\ u5.at = u4.at
      /\ u5.off = u4.off /\ u5.left = u4.left /\ u5.done = u4.done /\ u5.val = u4.val /\ u5.freed = u4.freed
      /\ u5.buf = u4.buf
  BY <1>0, <1>4, SetNew
<1>6. CreateCall(k, s, r, b, n) = u5
  BY DEF CreateCall, u1, u2, u3, u4, u5
<1> HIDE DEF u5
<1> QED
  BY <1>1, <1>2, <1>3, <1>4, <1>5, <1>6

\* An open file at the end of a write, and once it has been truncated.
Grown(f, c, n) == [f EXCEPT !.ino = c, !.size = n]
Emptied(f) == [f EXCEPT !.ino = 0, !.size = 0, !.pos = 0]

LEMMA GrownFile ==
    ASSUME NEW f \in Files, NEW c \in Cluster \cup {0}, NEW n \in 0 .. MaxSize
    PROVE  Grown(f, c, n) = [slot |-> f.slot, ino |-> c, size |-> n, pos |-> f.pos]
<1> DEFINE g == [f EXCEPT !.ino = c]
<1>1. g \in Files /\ g.slot = f.slot /\ g.ino = c /\ g.pos = f.pos
  BY DEF Files
<1>2. Grown(f, c, n) = [g EXCEPT !.size = n]
  BY DEF Grown
<1> HIDE DEF g
<1> QED
  BY <1>1, <1>2 DEF Files

LEMMA EmptiedFile ==
    ASSUME NEW f \in Files
    PROVE  Emptied(f) = [slot |-> f.slot, ino |-> 0, size |-> 0, pos |-> 0]
<1> DEFINE g == [f EXCEPT !.ino = 0]
           h == [g EXCEPT !.size = 0]
<1>1. g \in Files /\ g.slot = f.slot /\ g.ino = 0
  BY DEF Files
<1>2. Emptied(f) = [h EXCEPT !.pos = 0]
  BY DEF Emptied
<1> HIDE DEF g
<1>3. h \in Files /\ h.slot = f.slot /\ h.ino = 0 /\ h.size = 0
  BY <1>1, Numbers DEF Files
<1> HIDE DEF h
<1> QED
  BY <1>2, <1>3 DEF Files

-----------------------------------------------------------------------------
(* The types of all variables.                                             *)

Writing == {"w_lock", "w_top", "w_zero", "w_mark", "w_link", "w_undo", "w_data", "w_end", "w_dir"}
Cutting == {"t_lock", "t_free", "t_dir"}
Removing == {"r_lock", "r_read", "r_dir", "r_free"}
Renaming == {"n_lock", "n_read", "n_dir"}
Making == {"c_mark", "c_dir", "c_prep"}
PCs == {"idle"} \cup Writing \cup Cutting \cup Removing \cup Renaming \cup Making
Waiting == {"w_lock", "t_lock", "r_lock", "n_lock"}
Held == {"w_top", "w_zero", "w_mark", "w_link", "w_undo", "w_data", "w_end", "w_dir",
         "t_free", "t_dir", "r_read", "r_dir", "r_free", "n_read", "n_dir"}

\* What the local variables l and the open file f of a task at p are good for.
Fit(p, l, f) ==
    /\ p = "idle" => l = NoLocals
    /\ f.slot = None => f = NoFile
    /\ p \in Writing \cup Cutting => f.slot # None
    /\ p \in Removing \cup Renaming => l.slot # None
    /\ p \in Renaming \cup Making => l.to # None
    /\ p = "c_dir" /\ l.kind = "rename" => l.slot # None
    /\ p \in Writing => /\ l.off = f.pos + l.done /\ l.off + l.left <= MaxSize
                        /\ l.cur \in Cluster \cup {0}
    /\ p \in Writing \ {"w_end", "w_dir"} => l.left >= 1
    /\ p \in {"w_zero", "w_mark", "w_link", "w_undo"} => l.new # 0
    /\ p \in {"w_link", "w_undo", "w_data"} => l.at # None
    /\ p \in {"w_dir", "t_dir", "r_dir", "n_dir", "c_mark", "c_dir"} => l.buf \in [Slot -> Entry]
    /\ p \in Making => /\ l.new # 0 \/ (p = "c_dir" /\ l.kind # "dir")
                       /\ l.kind \in {"file", "dir", "rename"}
    /\ p \in {"c_mark", "c_prep"} => l.kind = "dir"

Volume ==
    /\ fat \in [Cluster -> Links] /\ dfat \in [Cluster -> Links]
    /\ dir \in [Slot -> Entry] /\ data \in [Cluster -> Value \cup {Zero}]

Tasks ==
    /\ lock \in Task \cup {None}
    /\ pc \in [Task -> PCs] /\ loc \in [Task -> Locals] /\ file \in [Task -> Files]
    /\ \A t \in Task : lock = t <=> pc[t] \in Held
    /\ \A t \in Task : Fit(pc[t], loc[t], file[t])

TInv == Volume /\ Tasks

\* The task t moves to p, with the local variables l and the open file f.
Moves(t, p, l, f) ==
    /\ pc' = [pc EXCEPT ![t] = p] /\ loc' = [loc EXCEPT ![t] = l] /\ file' = [file EXCEPT ![t] = f]

LEMMA Still ==
    ASSUME Tasks, NEW t \in Task
    PROVE  /\ pc = [pc EXCEPT ![t] = pc[t]] /\ loc = [loc EXCEPT ![t] = loc[t]]
           /\ file = [file EXCEPT ![t] = file[t]]
           /\ pc[t] \in PCs /\ loc[t] \in Locals /\ file[t] \in Files
           /\ Fit(pc[t], loc[t], file[t])
BY DEF Tasks

LEMMA Moved ==
    ASSUME Tasks, NEW t \in Task, NEW p, NEW l, NEW f, Moves(t, p, l, f)
    PROVE  /\ pc'[t] = p /\ loc'[t] = l /\ file'[t] = f
           /\ \A u \in Task \ {t} : pc'[u] = pc[u] /\ loc'[u] = loc[u] /\ file'[u] = file[u]
BY DEF Tasks, Moves

LEMMA TaskStep ==
    ASSUME Tasks, NEW t \in Task, NEW p \in PCs, NEW l \in Locals, NEW f \in Files,
           Moves(t, p, l, f), Fit(p, l, f),
           \/ lock' = lock /\ (p \in Held <=> pc[t] \in Held)
           \/ lock = None /\ lock' = t /\ p \in Held
           \/ lock' = None /\ pc[t] \in Held /\ p \notin Held
    PROVE  Tasks'
<1>1. /\ pc' \in [Task -> PCs] /\ loc' \in [Task -> Locals] /\ file' \in [Task -> Files]
  BY DEF Tasks, Moves
<1>2. \A u \in Task : Fit(pc'[u], loc'[u], file'[u])
  <2> TAKE u \in Task
  <2>1. CASE u = t
    BY <2>1, Moved
  <2>2. CASE u # t
    BY <2>2, Moved DEF Tasks
  <2> QED
    BY <2>1, <2>2
<1>3. lock' \in Task \cup {None} /\ \A u \in Task : lock' = u <=> pc'[u] \in Held
  <2>1. None \notin Task
    BY FatAssumption
  <2>2. pc'[t] = p /\ \A u \in Task \ {t} : pc'[u] = pc[u]
    BY Moved
  <2>3. lock \in Task \cup {None} /\ \A u \in Task : lock = u <=> pc[u] \in Held
    BY DEF Tasks
  <2> QED
    BY <2>1, <2>2, <2>3
<1> QED
  BY <1>1, <1>2, <1>3 DEF Tasks

LEMMA InitTypes == Init => TInv
<1> SUFFICES ASSUME Init PROVE TInv
  OBVIOUS
<1>1. Volume
  BY Numbers DEF Init, Volume, Links, Entry
<1>2. Tasks
  <2>1. \A t \in Task : pc[t] = "idle" /\ loc[t] = NoLocals /\ file[t] = NoFile
    BY DEF Init
  <2>2. Fit("idle", NoLocals, NoFile)
    BY DEF Fit, Writing, Cutting, Removing, Renaming, Making
  <2>3. lock = None /\ None \notin Task /\ "idle" \notin Held /\ "idle" \in PCs
    BY FatAssumption DEF Init, Held, PCs
  <2> QED
    BY <2>1, <2>2, <2>3, NoLocalsType, NoFileType DEF Init, Tasks
<1> QED
  BY <1>1, <1>2 DEF TInv

\* A write of one entry of the table, which may fail.
LEMMA SetFatTypes ==
    ASSUME Volume, NEW c \in Cluster, NEW v \in Links, SetFat(c, v) \/ SetFatFails(c, v)
    PROVE  fat' \in [Cluster -> Links] /\ dfat' \in [Cluster -> Links]
BY DEF Volume, SetFat, SetFatFails

LEMMA FindFreeIs ==
    ASSUME Volume, FindFree # 0
    PROVE  FindFree \in Cluster /\ fat[FindFree] = Free
<1> DEFINE free == {c \in Cluster : fat[c] = Free}
<1>1. free \subseteq Nat /\ free # {}
  BY Numbers DEF FindFree
<1>2. \E c \in free : \A d \in free : c <= d
  <2> HIDE DEF free
  <2> QED
    BY <1>1, LeastElement
<1>3. (CHOOSE c \in free : \A d \in free : c <= d) \in free
  <2> HIDE DEF free
  <2> QED
    BY <1>2
<1> QED
  BY <1>1, <1>3 DEF FindFree

LEMMA FindFreeType == Volume => FindFree \in Cluster \cup {0}
BY FindFreeIs

LEMMA OpenTypes == ASSUME TInv, NEW t \in Task, NEW s \in Slot, Open(t, s) PROVE TInv'
<1> DEFINE f == [slot |-> s, ino |-> dir[s].first, size |-> dir[s].size, pos |-> 0]
<1>1. Volume'
  BY DEF TInv, Volume, Open, disk
<1>2. Moves(t, "idle", loc[t], f) /\ lock' = lock /\ pc[t] = "idle"
  BY Still DEF TInv, Open, Moves
<1>3. f \in Files
  <2>1. dir[s].first \in Cluster \cup {0} /\ dir[s].size \in 0 .. MaxSize
    BY DEF TInv, Volume, Entry
  <2> QED
    BY <2>1, Numbers DEF Files
<1>4. Fit("idle", loc[t], f)
  <2>1. loc[t] = NoLocals /\ f.slot # None
    BY <1>2, Still, FatAssumption DEF TInv, Fit
  <2> QED
    BY <2>1 DEF Fit, Writing, Cutting, Removing, Renaming, Making
<1> QED
  BY <1>1, <1>2, <1>3, <1>4, TaskStep, Still DEF TInv, PCs, Held

LEMMA CloseTypes == ASSUME TInv, NEW t \in Task, Close(t) PROVE TInv'
<1>1. Volume'
  BY DEF TInv, Volume, Close, disk
<1>2. Moves(t, "idle", loc[t], NoFile) /\ lock' = lock /\ pc[t] = "idle"
  BY Still DEF TInv, Close, Moves
<1>3. Fit("idle", loc[t], NoFile)
  BY <1>2, Still DEF TInv, Fit, Writing, Cutting, Removing, Renaming, Making
<1> QED
  BY <1>1, <1>2, <1>3, NoFileType, TaskStep, Still DEF TInv, PCs, Held

LEMMA SeekTypes == ASSUME TInv, NEW t \in Task, NEW n \in 0 .. MaxSize - 1, Seek(t, n) PROVE TInv'
<1> DEFINE f == [file[t] EXCEPT !.pos = n]
<1>0. file[t] \in Files /\ n \in 0 .. MaxSize
  BY Still, Numbers DEF TInv
<1>1. Volume'
  BY DEF TInv, Volume, Seek, disk
<1>2. Moves(t, "idle", loc[t], f) /\ lock' = lock /\ pc[t] = "idle" /\ file[t].slot # None
  BY Still DEF TInv, Seek, Moves
<1>3. f \in Files /\ f.slot = file[t].slot
  BY <1>0 DEF Files
<1> HIDE DEF f
<1>4. Fit("idle", loc[t], f)
  BY <1>2, <1>3, Still DEF TInv, Fit, Writing, Cutting, Removing, Renaming, Making
<1> QED
  BY <1>1, <1>2, <1>3, <1>4, TaskStep, Still DEF TInv, PCs, Held

LEMMA AcquireTypes == ASSUME TInv, NEW t \in Task, Acquire(t) PROVE TInv'
<1> DEFINE p == CASE pc[t] = "w_lock" -> "w_top" [] pc[t] = "t_lock" -> "t_free"
                  [] pc[t] = "r_lock" -> "r_read" [] pc[t] = "n_lock" -> "n_read"
<1>1. Volume'
  BY DEF TInv, Volume, Acquire, disk
<1>2. Moves(t, p, loc[t], file[t]) /\ lock = None /\ lock' = t
  BY Still DEF TInv, Acquire, Moves, Goto
<1>3. \/ pc[t] = "w_lock" /\ p = "w_top"
      \/ pc[t] = "t_lock" /\ p = "t_free"
      \/ pc[t] = "r_lock" /\ p = "r_read"
      \/ pc[t] = "n_lock" /\ p = "n_read"
  BY DEF Acquire
<1> HIDE DEF p
<1>4. Fit(p, loc[t], file[t])
  BY <1>3, Still DEF TInv, Fit, Writing, Cutting, Removing, Renaming, Making
<1> QED
  BY <1>1, <1>2, <1>3, <1>4, TaskStep, Still
  DEF TInv, PCs, Held, Writing, Cutting, Removing, Renaming

\* A task that gives up fat_lock and returns.
LEMMA LeaveTypes ==
    ASSUME TInv, Volume', NEW t \in Task, pc[t] \in Held, Leave(t), NEW f \in Files,
           file' = [file EXCEPT ![t] = f], f.slot # None \/ f = NoFile
    PROVE  TInv'
<1>1. Moves(t, "idle", NoLocals, f) /\ lock' = None
  BY DEF Moves, Leave, Return, Goto, Set
<1>2. Fit("idle", NoLocals, f)
  BY DEF Fit, Writing, Cutting, Removing, Renaming, Making
<1>3. "idle" \in PCs /\ "idle" \notin Held
  BY DEF PCs, Held
<1> QED
  BY <1>1, <1>2, <1>3, NoLocalsType, TaskStep DEF TInv

LEMMA LeaveStill ==
    ASSUME TInv, Volume', NEW t \in Task, pc[t] \in Held, Leave(t), UNCHANGED file
    PROVE  TInv'
<1>1. /\ file' = [file EXCEPT ![t] = file[t]] /\ file[t] \in Files
      /\ file[t].slot # None \/ file[t] = NoFile
  BY Still DEF TInv, Fit
<1> QED
  BY <1>1, LeaveTypes

LEMMA WriteTypes ==
    ASSUME TInv, NEW t \in Task, NEW n \in 1 .. MaxSize, NEW v \in Value, Write(t, n, v)
    PROVE  TInv'
<1> DEFINE f == file[t]
           l == WriteCall(f, n, v)
<1>1. Volume'
  BY DEF TInv, Volume, Write, disk
<1>2. /\ Moves(t, "w_lock", l, f) /\ lock' = lock /\ pc[t] = "idle"
      /\ f.slot # None /\ f.pos + n <= MaxSize
  BY Still DEF TInv, Write, Moves, Goto, Set, WriteCall
<1>3. f \in Files /\ f.ino \in Cluster \cup {0} /\ f.pos \in 0 .. MaxSize
  BY Still, FilesFields DEF TInv
<1> HIDE DEF f
<1>4. l \in Locals /\ l.cur = f.ino /\ l.off = f.pos /\ l.left = n /\ l.done = 0
  <2>1. l \in Locals /\ l.cur = f.ino /\ l.off = f.pos /\ l.left = n /\ l.done = NoLocals.done
    BY <1>3, WriteLocals
  <2> QED
    BY <2>1, NoLocalsFields
<1> HIDE DEF l
<1>5. Fit("w_lock", l, f)
  BY <1>2, <1>3, <1>4, Numbers DEF Fit, Writing, Cutting, Removing, Renaming, Making
<1> QED
  BY <1>1, <1>2, <1>3, <1>4, <1>5, TaskStep DEF TInv, PCs, Held, Writing

\* What WriteTurn finds.
LEMMA TurnFacts ==
    ASSUME TInv, NEW t \in Task, pc[t] = "w_top"
    PROVE  LET l == loc[t]
               at(n) == Nth(fat, l.cur, n)
               reached == Cardinality({n \in 0 .. l.off : Valid(at(n))})
           IN  /\ l.off \in Nat /\ l.cur \in Cluster \cup {0} /\ reached \in 0 .. l.off + 1
               /\ \A n \in 0 .. l.off : Valid(at(n)) <=> n < reached
               /\ reached = 0 <=> l.cur = 0
<1> DEFINE l == loc[t]
           at(n) == Nth(fat, l.cur, n)
           reached == Cardinality({n \in 0 .. l.off : Valid(at(n))})
<1>1. l.cur \in Cluster \cup {0} /\ l.off \in 0 .. MaxSize
  BY Still, LocalsFields DEF TInv, Fit, Writing
<1>2. l.cur \in Links /\ l.off \in Nat /\ fat \in [Cluster -> Links]
  BY <1>1, Numbers DEF TInv, Volume, Links
<1>3. reached \in 0 .. l.off + 1 /\ \A n \in 0 .. l.off : Valid(at(n)) <=> n < reached
  BY <1>2, Reaches
<1>4. at(0) = l.cur
  BY <1>2, NthFollows
<1> HIDE DEF at, reached
<1>5. reached = 0 <=> l.cur = 0
  <2>1. 0 \in 0 .. l.off
    BY <1>2
  <2>2. Valid(at(0)) <=> 0 < reached
    BY <1>3, <2>1
  <2>3. Valid(at(0)) <=> l.cur # 0
    BY <1>1, <1>4, Numbers DEF Valid
  <2> QED
    BY <1>2, <1>3, <2>2, <2>3
<1> QED
  BY <1>1, <1>2, <1>3, <1>5 DEF at, reached

LEMMA WriteTurnTypes == ASSUME TInv, NEW t \in Task, WriteTurn(t) PROVE TInv'
<1> DEFINE l == loc[t]
           at(n) == Nth(fat, l.cur, n)
           reached == Cardinality({n \in 0 .. l.off : Valid(at(n))})
           lacks == l.cur = 0 \/ (reached <= l.off /\ at(reached) = EOC)
           x == IF reached = 0 THEN None ELSE at(reached - 1)
           data1 == [l EXCEPT !.at = at(l.off)]
           zero1 == Turned(l, FindFree, x)
<1>1. Volume'
  BY DEF TInv, Volume, WriteTurn, disk
<1>2. pc[t] = "w_top" /\ lock' = lock /\ l \in Locals /\ Fit("w_top", l, file[t]) /\ file[t] \in Files
  BY Still DEF TInv, WriteTurn
<1>3. /\ l.off \in Nat /\ reached \in 0 .. l.off + 1
      /\ \A n \in 0 .. l.off : Valid(at(n)) <=> n < reached
  BY <1>2, TurnFacts
<1>4. \/ reached = l.off + 1 /\ Moves(t, "w_data", data1, file[t])
      \/ FindFree # 0 /\ Moves(t, "w_zero", zero1, file[t])
      \/ Moves(t, "w_end", l, file[t])
  BY Still DEF TInv, WriteTurn, Moves, Goto, Set, Turned
<1> HIDE DEF at, reached, l
<1>5. CASE reached = l.off + 1 /\ Moves(t, "w_data", data1, file[t])
  <2>1. at(l.off) \in Cluster
    BY <1>3, <1>5 DEF Valid
  <2>2. /\ data1 \in Locals /\ data1.at = at(l.off) /\ data1.off = l.off /\ data1.left = l.left
        /\ data1.done = l.done /\ data1.cur = l.cur
    BY <1>2, <2>1, SetAt
  <2> HIDE DEF data1
  <2>3. Fit("w_data", data1, file[t])
    BY <1>2, <2>1, <2>2, FatAssumption DEF Fit, Writing, Cutting, Removing, Renaming, Making
  <2> QED
    BY <1>1, <1>2, <1>5, <2>2, <2>3, TaskStep DEF TInv, PCs, Held, Writing
<1>6. CASE FindFree # 0 /\ Moves(t, "w_zero", zero1, file[t])
  <2>1. x \in Cluster \cup {None}
    BY <1>3 DEF Valid
  <2>2. FindFree \in Cluster /\ FindFree # 0
    BY <1>6, FindFreeIs DEF TInv
  <2> HIDE DEF x
  <2>3. /\ zero1 \in Locals /\ zero1.new = FindFree /\ zero1.off = l.off /\ zero1.left = l.left
        /\ zero1.done = l.done /\ zero1.cur = l.cur
    BY <1>2, <2>1, <2>2, TurnLocals
  <2> HIDE DEF zero1
  <2>4. Fit("w_zero", zero1, file[t])
    BY <1>2, <2>2, <2>3 DEF Fit, Writing, Cutting, Removing, Renaming, Making
  <2> QED
    BY <1>1, <1>2, <1>6, <2>3, <2>4, TaskStep DEF TInv, PCs, Held, Writing
<1>7. CASE Moves(t, "w_end", l, file[t])
  <2>1. Fit("w_end", l, file[t])
    BY <1>2 DEF Fit, Writing, Cutting, Removing, Renaming, Making
  <2> QED
    BY <1>1, <1>2, <1>7, <2>1, TaskStep DEF TInv, PCs, Held, Writing
<1> QED
  BY <1>4, <1>5, <1>6, <1>7

\* A step of a write to p, which leaves the local variables and the open file.
LEMMA WritePasses ==
    ASSUME TInv, Volume', NEW t \in Task, NEW p \in Writing \ {"w_lock", "w_dir"}, pc[t] \in Held \cap Writing,
           Goto(t, p), UNCHANGED <<lock, loc, file>>,
           p \notin {"w_end"} => pc[t] \notin {"w_end", "w_dir"},
           p \in {"w_zero", "w_mark", "w_link", "w_undo"} => loc[t].new # 0,
           p \in {"w_link", "w_undo", "w_data"} => loc[t].at # None
    PROVE  TInv'
<1>1. /\ Moves(t, p, loc[t], file[t]) /\ lock' = lock
      /\ loc[t] \in Locals /\ file[t] \in Files /\ Fit(pc[t], loc[t], file[t])
  BY Still DEF TInv, Moves, Goto
<1>2. Fit(p, loc[t], file[t])
  BY <1>1 DEF Fit, Writing, Cutting, Removing, Renaming, Making
<1>3. p \in PCs /\ p \in Held
  BY DEF PCs, Held, Writing
<1> QED
  BY <1>1, <1>2, <1>3, TaskStep DEF TInv

LEMMA WriteZeroTypes == ASSUME TInv, NEW t \in Task, WriteZero(t) PROVE TInv'
<1>1. /\ pc[t] = "w_zero" /\ loc[t] \in Locals /\ Fit("w_zero", loc[t], file[t])
      /\ (Goto(t, "w_mark") \/ Goto(t, "w_end")) /\ UNCHANGED <<lock, loc, file>>
  BY Still DEF TInv, WriteZero
<1>2. Volume'
  BY DEF TInv, Volume, WriteZero
<1>3. loc[t].new # 0
  BY <1>1 DEF Fit
<1> QED
  BY <1>1, <1>2, <1>3, WritePasses DEF Writing, Held

LEMMA WriteMarkTypes == ASSUME TInv, NEW t \in Task, WriteMark(t) PROVE TInv'
<1>1. /\ pc[t] = "w_mark" /\ loc[t] \in Locals /\ Fit("w_mark", loc[t], file[t]) /\ file[t] \in Files
      /\ UNCHANGED <<dir, data, lock, file>>
  BY Still DEF TInv, WriteMark
<1>2. loc[t].new \in Cluster /\ loc[t].new # 0
  BY <1>1, LocalsFields DEF Fit
<1>3. Volume'
  BY <1>1, <1>2, SetFatTypes DEF TInv, Volume, WriteMark, Links
<1>4. CASE loc[t].at = None /\ Goto(t, "w_top") /\ Set(t, [loc[t] EXCEPT !.cur = loc[t].new])
  <2> DEFINE l == [loc[t] EXCEPT !.cur = loc[t].new]
  <2>1. l \in Locals /\ l.cur \in Cluster /\ l.off = loc[t].off /\ l.left = loc[t].left /\ l.done = loc[t].done
    BY <1>1, <1>2, SetCur DEF Links
  <2>2. Moves(t, "w_top", l, file[t])
    BY <1>1, <1>4, Still DEF TInv, Moves, Goto, Set
  <2> HIDE DEF l
  <2>3. Fit("w_top", l, file[t])
    BY <1>1, <2>1 DEF Fit, Writing, Cutting, Removing, Renaming, Making
  <2> QED
    BY <1>1, <1>3, <2>1, <2>2, <2>3, TaskStep DEF TInv, PCs, Held, Writing
<1>5. CASE loc[t].at # None /\ Goto(t, "w_link") /\ UNCHANGED loc
  BY <1>1, <1>2, <1>3, <1>5, WritePasses DEF Writing, Held
<1>6. CASE Goto(t, "w_end") /\ UNCHANGED loc
  BY <1>1, <1>3, <1>6, WritePasses DEF Writing, Held
<1> QED
  BY <1>4, <1>5, <1>6 DEF WriteMark

LEMMA WriteLinkTypes == ASSUME TInv, NEW t \in Task, WriteLink(t) PROVE TInv'
<1>1. /\ pc[t] = "w_link" /\ loc[t] \in Locals /\ Fit("w_link", loc[t], file[t])
      /\ UNCHANGED <<dir, data, lock, loc, file>>
  BY Still DEF TInv, WriteLink
<1>2. loc[t].new \in Cluster /\ loc[t].at \in Cluster /\ loc[t].new # 0 /\ loc[t].at # None
  BY <1>1, LocalsFields DEF Fit
<1>3. Volume'
  BY <1>1, <1>2, SetFatTypes DEF TInv, Volume, WriteLink, Links
<1>4. Goto(t, "w_top") \/ Goto(t, "w_undo")
  BY DEF WriteLink
<1> QED
  BY <1>1, <1>2, <1>3, <1>4, WritePasses DEF Writing, Held

LEMMA WriteUndoTypes == ASSUME TInv, NEW t \in Task, WriteUndo(t) PROVE TInv'
<1>1. /\ pc[t] = "w_undo" /\ loc[t] \in Locals /\ Fit("w_undo", loc[t], file[t])
      /\ UNCHANGED <<dir, data, lock, loc, file>> /\ Goto(t, "w_end")
  BY Still DEF TInv, WriteUndo
<1>2. loc[t].new \in Cluster
  BY <1>1, LocalsFields DEF Fit
<1>3. Volume'
  BY <1>1, <1>2, SetFatTypes DEF TInv, Volume, WriteUndo, Links
<1> QED
  BY <1>1, <1>3, WritePasses DEF Writing, Held

LEMMA WriteDataTypes == ASSUME TInv, NEW t \in Task, WriteData(t) PROVE TInv'
<1>1. /\ pc[t] = "w_data" /\ loc[t] \in Locals /\ Fit("w_data", loc[t], file[t]) /\ file[t] \in Files
      /\ UNCHANGED <<fat, dfat, dir, lock, file>>
  BY Still DEF TInv, WriteData
<1>2. /\ loc[t].at \in Cluster /\ loc[t].val \in Value \cup {Zero}
      /\ loc[t].off \in 0 .. MaxSize /\ loc[t].left \in 0 .. MaxSize /\ loc[t].done \in 0 .. MaxSize
      /\ loc[t].off = file[t].pos + loc[t].done /\ loc[t].off + loc[t].left <= MaxSize /\ loc[t].left >= 1
      /\ loc[t].cur \in Cluster \cup {0} /\ file[t].slot # None /\ file[t].pos \in 0 .. MaxSize
  <2>1. loc[t].at \in Cluster
    BY <1>1, LocalsFields DEF Fit
  <2>2. /\ loc[t].val \in Value \cup {Zero}
        /\ loc[t].off \in 0 .. MaxSize /\ loc[t].left \in 0 .. MaxSize /\ loc[t].done \in 0 .. MaxSize
    BY <1>1, LocalsFields
  <2>3. file[t].pos \in 0 .. MaxSize
    BY <1>1, FilesFields
  <2> QED
    BY <1>1, <2>1, <2>2, <2>3 DEF Fit, Writing
<1>3. Volume'
  BY <1>1, <1>2 DEF TInv, Volume, WriteData
<1>4. CASE Goto(t, "w_end") /\ UNCHANGED loc
  BY <1>1, <1>3, <1>4, WritePasses DEF Writing, Held
<1>5. CASE /\ Goto(t, IF loc[t].left = 1 THEN "w_end" ELSE "w_top")
           /\ Set(t, [loc[t] EXCEPT !.off = @ + 1, !.left = @ - 1, !.done = @ + 1])
  <2> DEFINE l == Stepped(loc[t])
             q == IF loc[t].left = 1 THEN "w_end" ELSE "w_top"
  <2>1. loc[t].off < MaxSize /\ loc[t].done < MaxSize
    BY <1>2, Numbers
  <2>2. /\ l \in Locals /\ l.cur = loc[t].cur /\ l.off = loc[t].off + 1 /\ l.left = loc[t].left - 1
        /\ l.done = loc[t].done + 1
    BY <1>1, <1>2, <2>1, DataLocals
  <2>3. Moves(t, q, l, file[t])
    BY <1>1, <1>5, Still DEF TInv, Moves, Goto, Set, Stepped
  <2> HIDE DEF l
  <2>4. q = "w_end" \/ (q = "w_top" /\ l.left >= 1)
    BY <1>2, <2>2
  <2> HIDE DEF q
  <2>5. l.off = file[t].pos + l.done /\ l.off + l.left <= MaxSize
    BY <1>2, <2>2, Numbers
  <2>6. Fit(q, l, file[t])
    BY <1>2, <2>2, <2>4, <2>5 DEF Fit, Writing, Cutting, Removing, Renaming, Making
  <2> QED
    BY <1>1, <1>3, <2>2, <2>3, <2>4, <2>6, TaskStep DEF TInv, PCs, Held, Writing
<1> QED
  BY <1>4, <1>5 DEF WriteData

\* What the open file becomes at the end of a write.
Ended(t) ==
    LET size == IF file[t].size < file[t].pos + loc[t].done THEN file[t].pos + loc[t].done ELSE file[t].size
    IN  [slot |-> file[t].slot, ino |-> loc[t].cur, size |-> size, pos |-> file[t].pos]

LEMMA WriteEndIs ==
    ASSUME TInv, NEW t \in Task, WriteEnd(t)
    PROVE  /\ pc[t] = "w_end" /\ UNCHANGED <<fat, disk, failures, torn, content>>
           /\ \/ loc[t].done = 0 /\ Leave(t) /\ UNCHANGED file /\ leaky' = (IF loc[t].cur = file[t].ino THEN leaky ELSE TRUE)
              \/ /\ loc[t].done # 0 /\ UNCHANGED <<lock, leaky>>
                 /\ Moves(t, "w_dir", [loc[t] EXCEPT !.buf = dir], Ended(t)) /\ Ended(t) \in Files
<1>1. file[t] \in Files /\ loc[t] \in Locals /\ Fit(pc[t], loc[t], file[t])
  BY Still DEF TInv
<1>2. pc[t] = "w_end"
  BY DEF WriteEnd
<1>3. /\ file[t].size \in 0 .. MaxSize /\ file[t].pos \in 0 .. MaxSize /\ loc[t].done \in 0 .. MaxSize
      /\ loc[t].cur \in Cluster \cup {0} /\ loc[t].off = file[t].pos + loc[t].done
      /\ loc[t].off + loc[t].left <= MaxSize /\ loc[t].left \in 0 .. MaxSize
      /\ file[t].slot \in Slot \cup {None}
  <2>1. /\ file[t].size \in 0 .. MaxSize /\ file[t].pos \in 0 .. MaxSize /\ file[t].slot \in Slot \cup {None}
    BY <1>1, FilesFields
  <2>2. loc[t].done \in 0 .. MaxSize /\ loc[t].left \in 0 .. MaxSize
    BY <1>1, LocalsFields
  <2> QED
    BY <1>1, <1>2, <2>1, <2>2 DEF Fit, Writing
<1> DEFINE size == IF file[t].size < file[t].pos + loc[t].done THEN file[t].pos + loc[t].done ELSE file[t].size
<1>4. size \in 0 .. MaxSize
  BY <1>3, Numbers
<1>5. Ended(t) \in Files
  BY <1>3, <1>4 DEF Ended, Files
<1>6. CASE loc[t].done # 0
  <2>1. file' = [file EXCEPT ![t] = Grown(file[t], loc[t].cur, size)]
    <3>1. file' = [file EXCEPT ![t].ino = loc[t].cur,
                               ![t].size = IF @ < file[t].pos + loc[t].done THEN file[t].pos + loc[t].done ELSE @]
      BY <1>6 DEF WriteEnd
    <3>2. file \in [Task -> Files]
      BY DEF TInv, Tasks
    <3> DEFINE g == [file EXCEPT ![t].ino = loc[t].cur]
    <3>3. g = [file EXCEPT ![t] = [file[t] EXCEPT !.ino = loc[t].cur]]
      OBVIOUS
    <3>4. g \in [Task -> Files] /\ g[t] = [file[t] EXCEPT !.ino = loc[t].cur] /\ g[t].size = file[t].size
      BY <1>3, <3>2 DEF Files
    <3>5. file' = [g EXCEPT ![t].size = IF @ < file[t].pos + loc[t].done THEN file[t].pos + loc[t].done ELSE @]
      BY <3>1
    <3>6. file' = [g EXCEPT ![t] = [g[t] EXCEPT !.size = size]]
      BY <3>4, <3>5
    <3> QED
      BY <3>2, <3>3, <3>4, <3>6 DEF Grown
  <2>2. Grown(file[t], loc[t].cur, size) = Ended(t)
    <3> HIDE DEF size
    <3>1. Grown(file[t], loc[t].cur, size) = [slot |-> file[t].slot, ino |-> loc[t].cur, size |-> size, pos |-> file[t].pos]
      BY <1>1, <1>3, <1>4, GrownFile
    <3> QED
      BY <3>1 DEF Ended, size
  <2> QED
    BY <1>2, <1>5, <1>6, <2>1, <2>2 DEF WriteEnd, Moves, Goto, Set
<1>7. CASE loc[t].done = 0
  BY <1>2, <1>7 DEF WriteEnd
<1> QED
  BY <1>2, <1>6, <1>7 DEF WriteEnd

LEMMA WriteEndTypes == ASSUME TInv, NEW t \in Task, WriteEnd(t) PROVE TInv'
<1>1. Volume'
  BY DEF TInv, Volume, WriteEnd, disk
<1>2. pc[t] = "w_end" /\ loc[t] \in Locals /\ Fit("w_end", loc[t], file[t])
  BY WriteEndIs, Still DEF TInv
<1>3. CASE loc[t].done = 0 /\ Leave(t) /\ UNCHANGED file
  BY <1>1, <1>2, <1>3, LeaveStill DEF Held
<1>4. CASE /\ UNCHANGED lock /\ Ended(t) \in Files
           /\ Moves(t, "w_dir", [loc[t] EXCEPT !.buf = dir], Ended(t))
  <2> DEFINE l == [loc[t] EXCEPT !.buf = dir]
  <2>1. dir \in [Slot -> Entry]
    BY DEF TInv, Volume
  <2>2. /\ l \in Locals /\ l.buf = dir /\ l.off = loc[t].off /\ l.left = loc[t].left /\ l.done = loc[t].done
        /\ l.cur = loc[t].cur
    BY <1>2, <2>1, SetBuf
  <2>5. Moves(t, "w_dir", l, Ended(t))
    BY <1>4
  <2> HIDE DEF l
  <2>3. Ended(t).slot = file[t].slot /\ Ended(t).pos = file[t].pos
    BY DEF Ended
  <2>4. Fit("w_dir", l, Ended(t))
    BY <1>2, <2>1, <2>2, <2>3 DEF Fit, Writing, Cutting, Removing, Renaming, Making
  <2> QED
    BY <1>1, <1>2, <1>4, <2>2, <2>4, <2>5, TaskStep DEF TInv, PCs, Held, Writing
<1> QED
  BY <1>3, <1>4, WriteEndIs

LEMMA WriteDirTypes == ASSUME TInv, NEW t \in Task, WriteDir(t) PROVE TInv'
<1> DEFINE f == file[t]
           l == loc[t]
           entry == [l.buf[f.slot] EXCEPT !.first = f.ino, !.size = f.size]
           g == [f EXCEPT !.pos = f.pos + l.done]
<1>1. /\ pc[t] = "w_dir" /\ l \in Locals /\ f \in Files /\ Fit("w_dir", l, f)
      /\ Leave(t) /\ UNCHANGED <<fat, dfat, data>>
  BY Still DEF TInv, WriteDir
<1>2. /\ f.slot \in Slot /\ f.ino \in Cluster \cup {0} /\ f.size \in 0 .. MaxSize /\ l.buf \in [Slot -> Entry]
      /\ f.pos \in 0 .. MaxSize /\ l.done \in 0 .. MaxSize /\ l.left \in 0 .. MaxSize
      /\ l.off = f.pos + l.done /\ l.off + l.left <= MaxSize
  BY <1>1, FilesFields, LocalsFields DEF Fit, Writing
<1> DEFINE named == [l.buf EXCEPT ![f.slot] = entry]
<1>3. \/ dir' = named /\ file' = [file EXCEPT ![t] = g]
      \/ dir' \in {dir, named} /\ UNCHANGED file
  BY DEF WriteDir, InDoubt
<1>4. entry \in Entry
  <2> DEFINE e == l.buf[f.slot]
             e1 == [e EXCEPT !.first = f.ino]
  <2>1. e \in Entry
    BY <1>2
  <2>2. entry = [e1 EXCEPT !.size = f.size]
    OBVIOUS
  <2> HIDE DEF e
  <2>3. e1 \in Entry
    BY <1>2, <2>1 DEF Entry
  <2> HIDE DEF e1
  <2> QED
    BY <1>2, <2>2, <2>3 DEF Entry
<1>5. g \in Files /\ g.slot = f.slot
  <2>1. f.pos + l.done \in 0 .. MaxSize
    BY <1>2, Numbers
  <2> QED
    BY <1>1, <2>1 DEF Files
<1>6. Volume'
  <2> HIDE DEF f, l, entry
  <2> QED
    BY <1>1, <1>2, <1>3, <1>4 DEF TInv, Volume
<1>7. CASE UNCHANGED file
  BY <1>1, <1>6, <1>7, LeaveStill DEF Held
<1> HIDE DEF f, l, entry, g, named
<1>8. CASE file' = [file EXCEPT ![t] = g]
  <2>2. g.slot # None \/ g = NoFile
    BY <1>1, <1>2, <1>5, FatAssumption
  <2> QED
    BY <1>1, <1>5, <1>6, <1>8, <2>2, LeaveTypes DEF Held
<1> QED
  BY <1>3, <1>7, <1>8

LEMMA TruncateTypes == ASSUME TInv, NEW t \in Task, Truncate(t) PROVE TInv'
<1> DEFINE f == file[t]
           l == TruncateCall(f)
<1>1. Volume'
  BY DEF TInv, Volume, Truncate, disk
<1>2. /\ Moves(t, "t_lock", l, f) /\ lock' = lock /\ pc[t] = "idle" /\ f.slot # None /\ f \in Files
  BY Still DEF TInv, Truncate, Moves, Goto, Set, TruncateCall
<1> HIDE DEF f
<1>3. l \in Locals
  BY <1>2, TruncateLocals
<1> HIDE DEF l
<1>4. Fit("t_lock", l, f)
  BY <1>2 DEF Fit, Writing, Cutting, Removing, Renaming, Making
<1> QED
  BY <1>1, <1>2, <1>3, <1>4, TaskStep DEF TInv, PCs, Held, Cutting

LEMMA FreeOneTypes == ASSUME TInv, NEW t \in Task, FreeOne(t) PROVE TInv'
<1> DEFINE l == FreedTo(loc[t], fat[loc[t].cur])
<1>1. /\ pc[t] \in {"t_free", "r_free"} /\ loc[t].cur \in Cluster /\ loc[t] \in Locals /\ file[t] \in Files
      /\ Fit(pc[t], loc[t], file[t]) /\ UNCHANGED <<dir, data, file>>
  BY Still DEF TInv, FreeOne, Valid
<1>2. Volume'
  <2>1. SetFat(loc[t].cur, Free) \/ SetFatFails(loc[t].cur, Free)
    BY DEF FreeOne
  <2> QED
    BY <1>1, <2>1, SetFatTypes DEF TInv, Volume, Links
<1>3. CASE UNCHANGED <<pc, lock>> /\ loc' = [loc EXCEPT ![t] = l]
  <2>1. fat[loc[t].cur] \in Links
    BY <1>1 DEF TInv, Volume
  <2>2. /\ l \in Locals /\ l.slot = loc[t].slot /\ l.to = loc[t].to /\ l.buf = loc[t].buf
    BY <1>1, <2>1, FreeLocals
  <2> HIDE DEF l
  <2>3. Moves(t, pc[t], l, file[t])
    BY <1>1, <1>3, Still DEF TInv, Moves
  <2>4. Fit(pc[t], l, file[t])
    BY <1>1, <2>2 DEF Fit, Writing, Cutting, Removing, Renaming, Making
  <2> QED
    BY <1>1, <1>2, <1>3, <2>2, <2>3, <2>4, TaskStep, Still DEF TInv
<1>4. CASE Leave(t)
  BY <1>1, <1>2, <1>4, LeaveStill DEF Held
<1> QED
  BY <1>3, <1>4 DEF FreeOne, FreedTo, Set

\* A step that reads the directory and goes to p.
LEMMA ReadTypes ==
    ASSUME TInv, NEW t \in Task, UNCHANGED <<fat, disk, lock, file>>, Set(t, [loc[t] EXCEPT !.buf = dir]), NEW p,
           Goto(t, p), <<pc[t], p>> \in {<<"t_free", "t_dir">>, <<"r_read", "r_dir">>, <<"n_read", "n_dir">>}
    PROVE  TInv'
<1> DEFINE l == [loc[t] EXCEPT !.buf = dir]
<1>1. Volume'
  BY DEF TInv, Volume, disk
<1>2. Moves(t, p, l, file[t]) /\ loc[t] \in Locals /\ file[t] \in Files /\ Fit(pc[t], loc[t], file[t])
  BY Still DEF TInv, Moves, Goto, Set
<1>3. dir \in [Slot -> Entry]
  BY DEF TInv, Volume
<1>4. l \in Locals /\ l.buf = dir /\ l.slot = loc[t].slot /\ l.to = loc[t].to
  BY <1>2, <1>3, SetBuf
<1> HIDE DEF l
<1>5. \/ pc[t] = "t_free" /\ p = "t_dir"
      \/ pc[t] = "r_read" /\ p = "r_dir"
      \/ pc[t] = "n_read" /\ p = "n_dir"
  OBVIOUS
<1>6. Fit(p, l, file[t])
  BY <1>2, <1>3, <1>4, <1>5 DEF Fit, Writing, Cutting, Removing, Renaming, Making
<1> QED
  BY <1>1, <1>2, <1>4, <1>5, <1>6, TaskStep DEF TInv, PCs, Held, Cutting, Removing, Renaming

LEMMA TruncateReadTypes == ASSUME TInv, NEW t \in Task, TruncateRead(t) PROVE TInv'
BY ReadTypes DEF TruncateRead

LEMMA RemoveReadTypes == ASSUME TInv, NEW t \in Task, RemoveRead(t) PROVE TInv'
<1>1. Volume'
  BY DEF TInv, Volume, RemoveRead, disk
<1> QED
  BY <1>1, ReadTypes, LeaveStill DEF RemoveRead, Held

LEMMA RenameReadTypes == ASSUME TInv, NEW t \in Task, RenameRead(t) PROVE TInv'
<1>1. Volume'
  BY DEF TInv, Volume, RenameRead, disk
<1> QED
  BY <1>1, ReadTypes, LeaveStill DEF RenameRead, Held

LEMMA TruncateDirTypes == ASSUME TInv, NEW t \in Task, TruncateDir(t) PROVE TInv'
<1> DEFINE f == file[t]
           b == loc[t].buf
           b1 == [b EXCEPT ![f.slot].first = 0]
           b2 == [b EXCEPT ![f.slot].first = 0, ![f.slot].size = 0]
           g == Emptied(f)
<1>1. /\ pc[t] = "t_dir" /\ f \in Files /\ Fit("t_dir", loc[t], f) /\ Leave(t) /\ UNCHANGED <<fat, dfat, data>>
      /\ loc[t] \in Locals
  BY Still DEF TInv, TruncateDir
<1>2. f.slot \in Slot /\ b \in [Slot -> Entry]
  BY <1>1, FilesFields DEF Fit, Cutting
<1>3. \/ dir' = b2 /\ file' = [file EXCEPT ![t] = g]
      \/ dir' \in {dir, b2} /\ UNCHANGED file
  BY DEF TruncateDir, InDoubt, Emptied
<1>5. b2 \in [Slot -> Entry]
  <2> HIDE DEF f, b
  <2>1. b2 = [b1 EXCEPT ![f.slot].size = 0]
    OBVIOUS
  <2>2. b1 \in [Slot -> Entry]
    BY <1>2 DEF Entry
  <2> HIDE DEF b1
  <2>3. [b1 EXCEPT ![f.slot].size = 0] \in [Slot -> Entry]
    BY <1>2, <2>2, Numbers DEF Entry
  <2> QED
    BY <2>1, <2>3
<1>6. g \in Files /\ g.slot # None
  <2>1. g = [slot |-> f.slot, ino |-> 0, size |-> 0, pos |-> 0]
    BY <1>1, EmptiedFile
  <2> HIDE DEF g
  <2> QED
    BY <1>1, <1>2, <2>1, Numbers, FatAssumption DEF Files
<1> HIDE DEF f, b, b2, g
<1>4. Volume'
  BY <1>1, <1>3, <1>5 DEF TInv, Volume
<1>7. CASE UNCHANGED file
  BY <1>1, <1>4, <1>7, LeaveStill DEF Held
<1>8. CASE file' = [file EXCEPT ![t] = g]
  BY <1>1, <1>4, <1>6, <1>8, LeaveTypes DEF Held
<1> QED
  BY <1>3, <1>7, <1>8

LEMMA UnlinkTypes == ASSUME TInv, NEW t \in Task, NEW s \in Slot, Unlink(t, s) PROVE TInv'
<1> DEFINE l == UnlinkCall(s, dir[s].first)
<1>1. Volume'
  BY DEF TInv, Volume, Unlink, disk
<1>2. /\ Moves(t, "r_lock", l, file[t]) /\ lock' = lock /\ pc[t] = "idle" /\ file[t] \in Files
      /\ Fit("idle", loc[t], file[t])
  BY Still DEF TInv, Unlink, Moves, Goto, Set, UnlinkCall
<1>3. dir[s].first \in Cluster \cup {0}
  BY DEF TInv, Volume, Entry
<1>4. l \in Locals /\ l.slot = s
  BY <1>3, UnlinkLocals
<1> HIDE DEF l
<1>5. Fit("r_lock", l, file[t])
  BY <1>2, <1>4, FatAssumption DEF Fit, Writing, Cutting, Removing, Renaming, Making
<1> QED
  BY <1>1, <1>2, <1>4, <1>5, TaskStep DEF TInv, PCs, Held, Removing

LEMMA RemoveDirTypes == ASSUME TInv, NEW t \in Task, RemoveDir(t) PROVE TInv'
<1>1. /\ pc[t] = "r_dir" /\ loc[t] \in Locals /\ file[t] \in Files /\ Fit("r_dir", loc[t], file[t])
      /\ UNCHANGED <<fat, dfat, data, file>>
  BY Still DEF TInv, RemoveDir
<1>2. loc[t].buf \in [Slot -> Entry] /\ loc[t].slot \in Slot
  BY <1>1, LocalsFields DEF Fit, Removing
<1>3. CASE dir' = [loc[t].buf EXCEPT ![loc[t].slot].used = FALSE] /\ Goto(t, "r_free") /\ UNCHANGED <<lock, loc>>
  <2>1. dir' \in [Slot -> Entry]
    BY <1>2, <1>3 DEF Entry
  <2>2. Volume'
    BY <1>1, <2>1 DEF TInv, Volume
  <2>3. Moves(t, "r_free", loc[t], file[t])
    BY <1>1, <1>3, Still DEF TInv, Moves, Goto
  <2>4. Fit("r_free", loc[t], file[t])
    BY <1>1 DEF Fit, Writing, Cutting, Removing, Renaming, Making
  <2> QED
    BY <1>1, <1>3, <2>2, <2>3, <2>4, TaskStep DEF TInv, PCs, Held, Removing
<1>4. CASE Leave(t) /\ dir' \in {dir, [loc[t].buf EXCEPT ![loc[t].slot].used = FALSE]}
  <2>1. dir' \in [Slot -> Entry]
    <3>1. [loc[t].buf EXCEPT ![loc[t].slot].used = FALSE] \in [Slot -> Entry]
      BY <1>2 DEF Entry
    <3> QED
      BY <1>4, <3>1 DEF TInv, Volume
  <2>2. Volume'
    BY <1>1, <2>1 DEF TInv, Volume
  <2> QED
    BY <1>1, <1>4, <2>2, LeaveStill DEF Held
<1> QED
  BY <1>3, <1>4 DEF RemoveDir, InDoubt

LEMMA RemoveEndTypes == ASSUME TInv, NEW t \in Task, RemoveEnd(t) PROVE TInv'
BY LeaveStill DEF RemoveEnd, TInv, Volume, Held, disk

\* The record that a create takes.
FirstUnused == LET unused == {s \in Slot : ~dir[s].used} IN CHOOSE s \in unused : \A r \in unused : s <= r
NewCluster(kind) == IF kind = "dir" THEN FindFree ELSE 0
CreatesWith(kind, from) == CreateCall(kind, from, FirstUnused, dir, NewCluster(kind))

LEMMA FirstUnusedIs ==
    ASSUME {s \in Slot : ~dir[s].used} # {}
    PROVE  FirstUnused \in Slot /\ ~dir[FirstUnused].used
<1> DEFINE unused == {s \in Slot : ~dir[s].used}
<1>1. unused \subseteq Nat /\ unused # {}
  BY Numbers
<1>2. \E s \in unused : \A r \in unused : s <= r
  <2> HIDE DEF unused
  <2> QED
    BY <1>1, LeastElement
<1>3. FirstUnused \in unused
  <2>1. FirstUnused = CHOOSE s \in unused : \A r \in unused : s <= r
    BY DEF FirstUnused
  <2> HIDE DEF unused
  <2> QED
    BY <1>2, <2>1
<1> QED
  BY <1>3

CreateArgs(k, s, r, b, n) ==
    /\ k \in Kinds /\ s \in Slot \cup {None} /\ r \in Slot
    /\ b \in [Slot -> Entry] /\ n \in Cluster \cup {0}

LEMMA CreateFields ==
    ASSUME NEW k, NEW s, NEW r, NEW b, NEW n, CreateArgs(k, s, r, b, n), NEW m, m = CreateCall(k, s, r, b, n)
    PROVE  m \in Locals /\ m.kind = k /\ m.slot = s /\ m.to = r /\ m.buf = b /\ m.new = n
<1>1. k \in Kinds /\ s \in Slot \cup {None} /\ r \in Slot /\ b \in [Slot -> Entry] /\ n \in Cluster \cup {0}
  BY DEF CreateArgs
<1> QED
  BY <1>1, CreateLocals

LEMMA CreatesWithIs ==
    ASSUME TInv, FirstUnused \in Slot, NEW kind \in Kinds, NEW from \in Slot \cup {None}
    PROVE  LET l == CreatesWith(kind, from)
           IN  /\ l \in Locals /\ l.kind = kind /\ l.slot = from /\ l.to = FirstUnused /\ l.buf = dir
               /\ l.new = NewCluster(kind) /\ NewCluster(kind) \in Cluster \cup {0} /\ dir \in [Slot -> Entry]
<1>1. NewCluster(kind) \in Cluster \cup {0} /\ dir \in [Slot -> Entry]
  BY FindFreeType DEF TInv, Volume, NewCluster
<1>2. CreateArgs(kind, from, FirstUnused, dir, NewCluster(kind))
  BY <1>1 DEF CreateArgs
<1> QED
  BY <1>1, <1>2, CreateFields DEF CreatesWith

LEMMA CreateTypes ==
    ASSUME TInv, NEW t \in Task, NEW kind \in {"file", "dir", "rename"}, NEW from \in Slot \cup {None},
           Create(t, kind, from)
    PROVE  TInv'
<1> DEFINE l == CreatesWith(kind, from)
           p == IF kind = "dir" THEN "c_mark" ELSE "c_dir"
<1>1. Volume'
  BY DEF TInv, Volume, Create, disk
<1>2. /\ Moves(t, p, l, file[t]) /\ lock' = lock /\ pc[t] = "idle" /\ file[t] \in Files
      /\ Fit("idle", loc[t], file[t]) /\ {s \in Slot : ~dir[s].used} # {}
  BY Still DEF TInv, Create, Moves, Goto, Set, CreatesWith, CreateCall, FirstUnused, NewCluster
<1>3. FirstUnused \in Slot /\ kind \in Kinds
  BY <1>2, FirstUnusedIs DEF Kinds
<1>4. /\ l \in Locals /\ l.kind = kind /\ l.slot = from /\ l.to = FirstUnused /\ l.buf = dir
      /\ l.new = NewCluster(kind) /\ dir \in [Slot -> Entry]
  BY <1>3, CreatesWithIs
<1>5. (kind = "dir" => NewCluster(kind) # 0) /\ (kind = "rename" => from # None)
  BY DEF Create, NewCluster
<1> HIDE DEF l
<1>7. \/ p = "c_mark" /\ kind = "dir"
      \/ p = "c_dir" /\ kind # "dir"
  OBVIOUS
<1> HIDE DEF p
<1>8. Fit(p, l, file[t])
  BY <1>2, <1>3, <1>4, <1>5, <1>7, FatAssumption DEF Fit, Writing, Cutting, Removing, Renaming, Making
<1> QED
  BY <1>1, <1>2, <1>4, <1>7, <1>8, TaskStep DEF TInv, PCs, Held, Making

\* A task that returns from a call that does not hold fat_lock.
LEMMA ReturnTypes ==
    ASSUME TInv, Volume', NEW t \in Task, pc[t] \notin Held, Return(t), UNCHANGED lock, NEW f \in Files,
           file' = [file EXCEPT ![t] = f], f.slot # None \/ f = NoFile
    PROVE  TInv'
<1>1. Moves(t, "idle", NoLocals, f)
  BY DEF Moves, Return, Goto, Set
<1>2. Fit("idle", NoLocals, f)
  BY DEF Fit, Writing, Cutting, Removing, Renaming, Making
<1>3. "idle" \in PCs /\ "idle" \notin Held
  BY DEF PCs, Held
<1> QED
  BY <1>1, <1>2, <1>3, NoLocalsType, TaskStep DEF TInv

LEMMA ReturnStill ==
    ASSUME TInv, Volume', NEW t \in Task, pc[t] \notin Held, Return(t), UNCHANGED <<lock, file>>
    PROVE  TInv'
<1>1. /\ file' = [file EXCEPT ![t] = file[t]] /\ file[t] \in Files
      /\ file[t].slot # None \/ file[t] = NoFile
  BY Still DEF TInv, Fit
<1> QED
  BY <1>1, ReturnTypes

LEMMA CreateMarkTypes == ASSUME TInv, NEW t \in Task, CreateMark(t) PROVE TInv'
<1>1. /\ pc[t] = "c_mark" /\ loc[t] \in Locals /\ file[t] \in Files /\ Fit("c_mark", loc[t], file[t])
      /\ UNCHANGED <<dir, data, lock, file>>
  BY Still DEF TInv, CreateMark
<1>2. loc[t].new \in Cluster
  BY <1>1, LocalsFields DEF Fit, Making
<1>3. Volume'
  <2>1. SetFat(loc[t].new, EOC) \/ SetFatFails(loc[t].new, EOC)
    BY DEF CreateMark
  <2> QED
    BY <1>1, <1>2, <2>1, SetFatTypes DEF TInv, Volume, Links
<1>4. CASE Goto(t, "c_dir") /\ UNCHANGED loc
  <2>1. Moves(t, "c_dir", loc[t], file[t])
    BY <1>1, <1>4, Still DEF TInv, Moves, Goto
  <2>2. Fit("c_dir", loc[t], file[t])
    BY <1>1 DEF Fit, Writing, Cutting, Removing, Renaming, Making
  <2> QED
    BY <1>1, <1>3, <1>4, <2>1, <2>2, TaskStep DEF TInv, PCs, Held, Making
<1>5. CASE Return(t)
  BY <1>1, <1>3, <1>5, ReturnStill DEF Held
<1> QED
  BY <1>4, <1>5 DEF CreateMark

LEMMA CreateDirTypes == ASSUME TInv, NEW t \in Task, CreateDir(t) PROVE TInv'
<1> DEFINE l == loc[t]
           e == [used |-> TRUE, isdir |-> l.kind = "dir", first |-> l.new, size |-> 0]
<1>1. /\ pc[t] = "c_dir" /\ l \in Locals /\ file[t] \in Files /\ Fit("c_dir", l, file[t])
      /\ UNCHANGED <<fat, dfat, data, lock>>
  BY Still DEF TInv, CreateDir
<1>2. l.buf \in [Slot -> Entry] /\ l.to \in Slot /\ l.new \in Cluster \cup {0}
  BY <1>1, LocalsFields DEF Fit, Making
<1>3. dir' = [l.buf EXCEPT ![l.to] = e] \/ UNCHANGED dir
  BY DEF CreateDir, InDoubt
<1>4. e \in Entry
  BY <1>2, Numbers DEF Entry
<1>5. /\ l.kind = "file" => Return(t) /\ file' = [file EXCEPT ![t] = [NoFile EXCEPT !.slot = l.to]]
      /\ l.kind = "rename" => UNCHANGED file /\ Goto(t, "n_lock") /\ UNCHANGED loc
      /\ l.kind \notin {"file", "rename"} => UNCHANGED file /\ (Return(t) \/ (Goto(t, "c_prep") /\ UNCHANGED loc))
  BY DEF CreateDir
<1>6. l = loc[t]
  OBVIOUS
<1> HIDE DEF e, l
<1>7. Volume'
  BY <1>1, <1>2, <1>3, <1>4 DEF TInv, Volume
<1>8. CASE l.kind = "file"
  <2> DEFINE f == [NoFile EXCEPT !.slot = l.to]
  <2>1. f \in Files /\ f.slot = l.to
    BY <1>2, NoFileType DEF Files
  <2>2. Return(t) /\ file' = [file EXCEPT ![t] = f]
    BY <1>5, <1>8
  <2> HIDE DEF f
  <2> QED
    BY <1>1, <1>2, <1>7, <2>1, <2>2, ReturnTypes, FatAssumption DEF Held
<1>9. CASE l.kind = "rename"
  <2>1. Moves(t, "n_lock", l, file[t])
    BY <1>5, <1>6, <1>9, Still DEF TInv, Moves, Goto
  <2>2. Fit("n_lock", l, file[t])
    BY <1>1, <1>9 DEF Fit, Writing, Cutting, Removing, Renaming, Making
  <2> QED
    BY <1>1, <1>7, <2>1, <2>2, TaskStep DEF TInv, PCs, Held, Renaming
<1>10. CASE Return(t) /\ UNCHANGED file
  BY <1>1, <1>7, <1>10, ReturnStill DEF Held
<1>11. CASE l.kind \notin {"file", "rename"} /\ UNCHANGED file /\ Goto(t, "c_prep") /\ UNCHANGED loc
  <2>1. Moves(t, "c_prep", l, file[t])
    BY <1>6, <1>11, Still DEF TInv, Moves, Goto
  <2>2. Fit("c_prep", l, file[t])
    BY <1>1, <1>11 DEF Fit, Writing, Cutting, Removing, Renaming, Making
  <2> QED
    BY <1>1, <1>7, <2>1, <2>2, TaskStep DEF TInv, PCs, Held, Making
<1> QED
  BY <1>5, <1>8, <1>9, <1>10, <1>11

LEMMA CreatePrepareTypes == ASSUME TInv, NEW t \in Task, CreatePrepare(t) PROVE TInv'
<1>1. /\ pc[t] = "c_prep" /\ Return(t) /\ UNCHANGED <<fat, dfat, dir, lock, file>>
      /\ loc[t] \in Locals
  BY Still DEF TInv, CreatePrepare
<1>2. Volume'
  BY <1>1 DEF TInv, Volume, CreatePrepare
<1> QED
  BY <1>1, <1>2, ReturnStill DEF Held

LEMMA RenameDirTypes == ASSUME TInv, NEW t \in Task, RenameDir(t) PROVE TInv'
<1> DEFINE l == loc[t]
           b1 == [l.buf EXCEPT ![l.slot].used = FALSE]
<1>1. /\ pc[t] = "n_dir" /\ l \in Locals /\ Fit("n_dir", l, file[t]) /\ Leave(t)
      /\ UNCHANGED <<fat, dfat, data, file>>
  BY Still DEF TInv, RenameDir
<1>2. l.buf \in [Slot -> Entry] /\ l.slot \in Slot /\ l.to \in Slot
  BY <1>1, LocalsFields DEF Fit, Renaming
<1>3. dir' = [b1 EXCEPT ![l.to] = l.buf[l.slot]] \/ UNCHANGED dir
  BY DEF RenameDir, InDoubt
<1> HIDE DEF l
<1>4. b1 \in [Slot -> Entry]
  BY <1>2 DEF Entry
<1> HIDE DEF b1
<1>5. Volume'
  BY <1>1, <1>2, <1>3, <1>4 DEF TInv, Volume
<1> QED
  BY <1>1, <1>5, LeaveStill DEF Held

LEMMA CrashTypes == ASSUME TInv, Crash PROVE TInv'
<1>1. Volume'
  BY DEF TInv, Volume, Crash, disk
<1>2. \A t \in Task : pc'[t] = "idle" /\ loc'[t] = NoLocals /\ file'[t] = NoFile
  BY DEF Crash
<1>3. Fit("idle", NoLocals, NoFile)
  BY DEF Fit, Writing, Cutting, Removing, Renaming, Making
<1>4. lock' = None /\ None \notin Task /\ "idle" \notin Held /\ "idle" \in PCs
  BY FatAssumption DEF Crash, Held, PCs
<1>5. Tasks'
  BY <1>2, <1>3, <1>4, NoLocalsType, NoFileType DEF Crash, Tasks
<1> QED
  BY <1>1, <1>5 DEF TInv

LEMMA NextTypes == TInv /\ [Next]_vars => TInv'
<1> SUFFICES ASSUME TInv, [Next]_vars PROVE TInv'
  OBVIOUS
<1>1. CASE UNCHANGED vars
  BY <1>1 DEF TInv, Volume, Tasks, Fit, vars
<1>2. CASE Crash
  BY <1>2, CrashTypes
<1>3. ASSUME NEW t \in Task, NEW s \in Slot, Open(t, s) PROVE TInv'
  BY <1>3, OpenTypes
<1>4. ASSUME NEW t \in Task, Close(t) PROVE TInv'
  BY <1>4, CloseTypes
<1>5. ASSUME NEW t \in Task, NEW p \in 0 .. MaxSize - 1, Seek(t, p) PROVE TInv'
  BY <1>5, SeekTypes
<1>6. ASSUME NEW t \in Task, Acquire(t) PROVE TInv'
  BY <1>6, AcquireTypes
<1>7. ASSUME NEW t \in Task, WriteStep(t) PROVE TInv'
  BY <1>7, WriteTypes, WriteTurnTypes, WriteZeroTypes, WriteMarkTypes, WriteLinkTypes, WriteUndoTypes,
     WriteDataTypes, WriteEndTypes, WriteDirTypes DEF WriteStep
<1>8. ASSUME NEW t \in Task, NameStep(t) PROVE TInv'
  BY <1>8, CreateTypes, CreateMarkTypes, CreateDirTypes, CreatePrepareTypes, RenameReadTypes, RenameDirTypes,
     UnlinkTypes, RemoveReadTypes, RemoveDirTypes, RemoveEndTypes DEF NameStep
<1>9. ASSUME NEW t \in Task, Truncate(t) \/ FreeOne(t) \/ TruncateRead(t) \/ TruncateDir(t) PROVE TInv'
  BY <1>9, TruncateTypes, FreeOneTypes, TruncateReadTypes, TruncateDirTypes
<1> QED
  BY <1>1, <1>2, <1>3, <1>4, <1>5, <1>6, <1>7, <1>8, <1>9 DEF Next

\* The types of the variables, and fat_lock is held by the task that is
\* between taking it and giving it back, and by no other.
THEOREM StaysTyped == Spec => []TypeOK
<1>1. TInv => TypeOK
  <2> SUFFICES ASSUME TInv PROVE TypeOK
    OBVIOUS
  <2>1. ASSUME NEW t \in Task
        PROVE  file[t] = NoFile \/ (file[t].slot \in Slot /\ file[t].ino \in Cluster \cup {0}
                                    /\ file[t].size \in 0 .. MaxSize /\ file[t].pos \in 0 .. MaxSize)
    BY Still, FilesFields DEF TInv, Fit
  <2> QED
    BY <2>1 DEF TypeOK, TInv, Volume, Tasks, Held, Links
<1> QED
  BY <1>1, InitTypes, NextTypes, PTL DEF Spec

-----------------------------------------------------------------------------
(* Chains under a change of the table.                                     *)

LEMMA PathElements ==
    ASSUME NEW f, NEW q, Path(f, q)
    PROVE  /\ Len(q) \in Nat /\ q \in Seq(Cluster) /\ On(q) \subseteq Cluster
           /\ \A i \in 1 .. Len(q) : q[i] \in Cluster /\ q[i] \in On(q) /\ f[q[i]] # Free
           /\ \A c \in On(q) : c \in Cluster /\ f[c] # Free
           /\ q = <<>> <=> Len(q) = 0
<1>1. Len(q) \in Nat /\ q \in Seq(Cluster) /\ \A i \in 1 .. Len(q) : q[i] \in Cluster
  BY DEF Path
<1>2. \A i \in 1 .. Len(q) : f[q[i]] # Free
  <2> TAKE i \in 1 .. Len(q)
  <2>1. f[q[i]] = IF i = Len(q) THEN EOC ELSE q[i + 1]
    BY DEF Path
  <2>2. i = Len(q) \/ i + 1 \in 1 .. Len(q)
    BY <1>1
  <2> QED
    BY <1>1, <2>1, <2>2, Numbers
<1>3. q = <<>> <=> Len(q) = 0
  BY <1>1
<1> QED
  BY <1>1, <1>2, <1>3 DEF On

LEMMA NoPath == ASSUME NEW f PROVE Path(f, <<>>) /\ On(<<>>) = {}
BY DEF Path, On

LEMMA PathOne ==
    ASSUME NEW f, NEW c \in Cluster, f[c] = EOC
    PROVE  Path(f, <<c>>) /\ On(<<c>>) = {c}
BY DEF Path, On

LEMMA PathKept ==
    ASSUME NEW f \in [Cluster -> Links], NEW q, Path(f, q), NEW c \in Cluster, c \notin On(q), NEW v
    PROVE  Path([f EXCEPT ![c] = v], q)
<1>1. \A i \in 1 .. Len(q) : q[i] \in Cluster /\ q[i] # c
  BY PathElements
<1> QED
  BY <1>1 DEF Path

LEMMA OnLonger == ASSUME NEW q \in Seq(Cluster), NEW c \in Cluster PROVE On(Append(q, c)) = On(q) \cup {c}
<1> DEFINE n == Len(q)
           r == Append(q, c)
<1>1. n \in Nat /\ Len(r) = n + 1 /\ r[n + 1] = c /\ \A i \in 1 .. n : r[i] = q[i]
  OBVIOUS
<1> HIDE DEF r
<1>2. \A i \in 1 .. n + 1 : i = n + 1 \/ i \in 1 .. n
  BY <1>1
<1>3. n + 1 \in 1 .. n + 1 /\ \A i \in 1 .. n : i \in 1 .. n + 1
  BY <1>1
<1>4. On(r) = On(q) \cup {c}
  BY <1>1, <1>2, <1>3 DEF On
<1> QED
  BY <1>4 DEF r

LEMMA PathLonger ==
    ASSUME NEW f \in [Cluster -> Links], NEW q, Path(f, q), q # <<>>, NEW c \in Cluster, c \notin On(q), f[c] = EOC
    PROVE  Path([f EXCEPT ![q[Len(q)]] = c], Append(q, c))
<1> DEFINE n == Len(q)
           r == Append(q, c)
           g == [f EXCEPT ![q[n]] = c]
<1>1. /\ n \in Nat /\ n # 0 /\ n \in 1 .. n /\ q \in Seq(Cluster)
      /\ \A i \in 1 .. n : q[i] \in Cluster /\ q[i] # c /\ q[i] \in On(q)
  BY PathElements
<1>2. r \in Seq(Cluster) /\ Len(r) = n + 1 /\ r[n + 1] = c /\ \A i \in 1 .. n : r[i] = q[i]
  BY <1>1
<1>3. q[n] \in Cluster /\ g[q[n]] = c /\ \A d \in Cluster \ {q[n]} : g[d] = f[d]
  BY <1>1
<1> HIDE DEF r, g
<1>4. \A i, j \in 1 .. n : q[i] = q[j] => i = j
  BY DEF Path
<1>5. \A i \in 1 .. n : f[q[i]] = IF i = n THEN EOC ELSE q[i + 1]
  BY DEF Path
<1>6. ASSUME NEW i \in 1 .. n + 1 PROVE g[r[i]] = IF i = n + 1 THEN EOC ELSE r[i + 1]
  <2>1. CASE i = n + 1
    BY <1>1, <1>2, <1>3, <2>1
  <2>2. CASE i = n
    BY <1>1, <1>2, <1>3, <2>2
  <2>3. CASE i < n
    <3>1. i \in 1 .. n /\ i + 1 \in 1 .. n /\ q[i] # q[n] /\ i # n /\ i # n + 1
      BY <1>1, <1>4, <2>3
    <3>2. g[q[i]] = q[i + 1]
      BY <1>1, <1>3, <1>5, <3>1
    <3> QED
      BY <1>2, <3>1, <3>2
  <2> QED
    BY <1>1, <2>1, <2>2, <2>3
<1>7. \A i, j \in 1 .. n + 1 : r[i] = r[j] => i = j
  <2>1. \A i \in 1 .. n + 1 : i = n + 1 \/ i \in 1 .. n
    BY <1>1
  <2> QED
    BY <1>1, <1>2, <1>4, <2>1
<1> QED
  BY <1>2, <1>6, <1>7 DEF Path, r, g

\* The sequences begin: the first cluster is c, or there is none.
Starts(q, c) == IF q = <<>> THEN c \notin Cluster ELSE q[1] = c

LEMMA TailIs ==
    ASSUME NEW f, NEW q, Path(f, q), q # <<>>
    PROVE  /\ Len(q) \in Nat /\ Len(q) # 0 /\ 1 \in 1 .. Len(q)
           /\ \A i \in 1 .. Len(q) : q[i] \in Cluster
           /\ Tail(q) \in Seq(Cluster) /\ Len(Tail(q)) = Len(q) - 1
           /\ \A i \in 1 .. Len(q) - 1 : Tail(q)[i] = q[i + 1]
           /\ \A i \in 1 .. Len(q) - 1 : i + 1 \in 1 .. Len(q) /\ i + 1 # 1 /\ q[i + 1] # q[1] /\ Tail(q)[i] # q[1]
<1> DEFINE n == Len(q)
           r == Tail(q)
<1>1. /\ n \in Nat /\ n # 0 /\ 1 \in 1 .. n /\ q \in Seq(Cluster)
      /\ \A i \in 1 .. n : q[i] \in Cluster
  BY PathElements
<1>2. r \in Seq(Cluster) /\ Len(r) = n - 1 /\ \A i \in 1 .. n - 1 : r[i] = q[i + 1]
  BY <1>1
<1> HIDE DEF r
<1>3. \A i, j \in 1 .. n : q[i] = q[j] => i = j
  BY DEF Path
<1>4. \A i \in 1 .. n - 1 : i + 1 \in 1 .. n /\ i + 1 # 1 /\ q[i + 1] # q[1] /\ r[i] # q[1]
  <2> TAKE i \in 1 .. n - 1
  <2>1. i + 1 \in 1 .. n /\ i + 1 # 1
    BY <1>1
  <2> QED
    BY <1>1, <1>2, <1>3, <2>1
<1> QED
  BY <1>1, <1>2, <1>4 DEF r

LEMMA PathTail ==
    ASSUME NEW f \in [Cluster -> Links], NEW q, Path(f, q), q # <<>>, NEW v
    PROVE  Path([f EXCEPT ![q[1]] = v], Tail(q))
<1> DEFINE n == Len(q)
           r == Tail(q)
           g == [f EXCEPT ![q[1]] = v]
<1>1. n \in Nat /\ n # 0 /\ 1 \in 1 .. n /\ \A i \in 1 .. n : q[i] \in Cluster
  BY TailIs
<1>2. r \in Seq(Cluster) /\ Len(r) = n - 1 /\ \A i \in 1 .. n - 1 : r[i] = q[i + 1]
  BY TailIs
<1>3. \A d \in Cluster \ {q[1]} : g[d] = f[d]
  OBVIOUS
<1>6. \A i \in 1 .. n - 1 : i + 1 \in 1 .. n /\ i + 1 # 1 /\ q[i + 1] # q[1] /\ r[i] # q[1]
  BY TailIs
<1> HIDE DEF r, g
<1>4. \A i, j \in 1 .. n : q[i] = q[j] => i = j
  BY DEF Path
<1>5. \A i \in 1 .. n : f[q[i]] = IF i = n THEN EOC ELSE q[i + 1]
  BY DEF Path
<1>7. ASSUME NEW i \in 1 .. n - 1 PROVE g[r[i]] = IF i = n - 1 THEN EOC ELSE r[i + 1]
  <2>1. g[q[i + 1]] = IF i + 1 = n THEN EOC ELSE q[(i + 1) + 1]
    BY <1>1, <1>3, <1>5, <1>6
  <2>2. i = n - 1 \/ i + 1 \in 1 .. n - 1
    BY <1>1
  <2>3. i + 1 = n <=> i = n - 1
    BY <1>1
  <2> QED
    BY <1>2, <2>1, <2>2, <2>3
<1>8. \A i, j \in 1 .. n - 1 : r[i] = r[j] => i = j
  <2> SUFFICES ASSUME NEW i \in 1 .. n - 1, NEW j \in 1 .. n - 1, r[i] = r[j] PROVE i = j
    OBVIOUS
  <2>1. i + 1 = j + 1
    BY <1>2, <1>4, <1>6
  <2> QED
    BY <2>1
<1>9. Path(g, r)
  BY <1>2, <1>7, <1>8 DEF Path
<1> QED
  BY <1>9 DEF r, g

LEMMA PathShorter ==
    ASSUME NEW f \in [Cluster -> Links], NEW q, Path(f, q), q # <<>>
    PROVE  /\ q[1] \in Cluster /\ q[1] \in On(q)
           /\ On(q) = On(Tail(q)) \cup {q[1]} /\ q[1] \notin On(Tail(q))
           /\ Starts(Tail(q), f[q[1]])
<1> DEFINE n == Len(q)
           r == Tail(q)
<1>1. n \in Nat /\ n # 0 /\ 1 \in 1 .. n /\ \A i \in 1 .. n : q[i] \in Cluster
  BY TailIs
<1>2. r \in Seq(Cluster) /\ Len(r) = n - 1 /\ \A i \in 1 .. n - 1 : r[i] = q[i + 1]
  BY TailIs
<1>6. \A i \in 1 .. n - 1 : i + 1 \in 1 .. n /\ i + 1 # 1 /\ q[i + 1] # q[1] /\ r[i] # q[1]
  BY TailIs
<1> HIDE DEF r
<1>5. \A i \in 1 .. n : f[q[i]] = IF i = n THEN EOC ELSE q[i + 1]
  BY DEF Path
<1>9. On(q) = On(r) \cup {q[1]} /\ q[1] \notin On(r) /\ q[1] \in On(q)
  <2>1. \A i \in 1 .. n : i = 1 \/ (i - 1 \in 1 .. n - 1 /\ (i - 1) + 1 = i)
    BY <1>1
  <2>2. On(r) \subseteq On(q) /\ q[1] \in On(q)
    BY <1>1, <1>2, <1>6 DEF On
  <2>3. ASSUME NEW i \in 1 .. n PROVE q[i] \in On(r) \cup {q[1]}
    <3>1. CASE i = 1
      BY <3>1
    <3>2. CASE i - 1 \in 1 .. n - 1 /\ (i - 1) + 1 = i
      <4>1. r[i - 1] = q[i] /\ i - 1 \in 1 .. Len(r)
        BY <1>2, <3>2
      <4> QED
        BY <4>1 DEF On
    <3> QED
      BY <2>1, <3>1, <3>2
  <2>4. q[1] \notin On(r)
    BY <1>2, <1>6 DEF On
  <2> QED
    BY <2>2, <2>3, <2>4 DEF On
<1>10. Starts(r, f[q[1]])
  <2>1. f[q[1]] = IF 1 = n THEN EOC ELSE q[1 + 1]
    BY <1>1, <1>5
  <2>2. CASE n = 1
    <3>1. r = <<>>
      BY <1>2, <2>2
    <3> QED
      BY <2>1, <2>2, <3>1, Numbers DEF Starts
  <2>3. CASE n # 1
    <3>1. 1 \in 1 .. n - 1 /\ r # <<>>
      BY <1>1, <1>2, <2>3
    <3> QED
      BY <1>2, <2>1, <2>3, <3>1 DEF Starts
  <2> QED
    BY <2>2, <2>3
<1> QED
  BY <1>1, <1>9, <1>10 DEF r

-----------------------------------------------------------------------------
(* The chains of the directory.  ch[s] is the chain that belongs to the    *)
(* record s: that of an open file starts where the task that uses it says, *)
(* that of any other record where the record says.                         *)

Active(p) == p \in Held \cup Making
Busy == {"w_top", "w_zero", "w_mark", "w_link", "w_undo", "w_data", "w_end", "w_dir", "t_free", "t_dir"}
UsedBy(l, f) == {f.slot, l.slot, l.to} \cap Slot

\* No two tasks use a record, and one at a time changes the volume.
Exclusive ==
    /\ \A t, u \in Task : t # u => UsedBy(loc[t], file[t]) \cap UsedBy(loc[u], file[u]) = {}
    /\ \A t, u \in Task : Active(pc[t]) /\ Active(pc[u]) => t = u

Chains(F, D, ch) ==
    /\ ch \in [Slot -> Seq(Cluster)]
    /\ \A s \in Slot : Path(F, ch[s]) /\ Path(D, ch[s])
    /\ \A r, s \in Slot : r # s => On(ch[r]) \cap On(ch[s]) = {}

Freed(p, l) == p \in {"t_free", "t_dir"} /\ l.freed
Mine(p, l, f) == IF p \in Busy THEN l.cur ELSE f.ino

\* The open file f of a task at p with the local variables l, in the directory R.
Owner(R, p, l, f, ch) ==
    f.slot # None =>
        /\ p \in {"idle"} \cup Writing \cup Cutting
        /\ Starts(ch[f.slot], Mine(p, l, f))
        /\ p \in {"w_lock", "t_lock", "w_dir"} => l.cur = f.ino
        /\ p \in Writing => l.cur = f.ino \/ f.ino = 0
        /\ p \in {"t_free", "t_dir"} /\ ~l.freed => l.cur = f.ino
        /\ p \in Writing \cup {"t_lock"} => ~l.freed
        /\ p = "t_dir" => l.cur \notin Cluster
        /\ R[f.slot].used /\ ~Freed(p, l) => R[f.slot].first \in {0, f.ino}

\* What a task knows of the directory.
Namer(R, p, l, ch) ==
    /\ p \in {"w_dir", "t_dir", "r_dir", "n_dir", "c_mark", "c_dir"} => l.buf = R
    /\ p \in {"r_lock", "r_read", "r_dir"} => R[l.slot].used /\ R[l.slot].first = l.cur
    /\ p = "r_free" => ~R[l.slot].used /\ Starts(ch[l.slot], l.cur)
    /\ p \in Renaming => l.to # l.slot /\ (R[l.to].used => R[l.to].first = 0)
    /\ p \in {"c_mark", "c_dir"} => ~R[l.to].used
    /\ p = "c_dir" /\ l.kind # "dir" => l.new = 0
    /\ p = "c_dir" /\ l.kind = "rename" => l.to # l.slot
    /\ p = "n_dir" => R[l.slot].used

\* A cluster that a task has taken and not linked yet.
Loose(p, l) == p \in {"w_link", "w_undo"} \/ (p = "c_dir" /\ l.kind = "dir")

\* What it knows of the clusters.
Grower(F, D, A, p, l, f, ch) ==
    /\ p \in {"w_zero", "w_mark", "c_mark"} => F[l.new] = Free
    /\ Loose(p, l) => F[l.new] = EOC /\ D[l.new] = EOC /\ \A s \in Slot : l.new \notin On(ch[s])
    /\ p \in {"w_zero", "w_mark"} => (l.at = None <=> l.cur = 0)
    /\ p \in {"w_zero", "w_mark", "w_link"} /\ l.at # None =>
            ch[f.slot] # <<>> /\ l.at = ch[f.slot][Len(ch[f.slot])]
    /\ p \in {"w_mark", "w_link"} => A[l.new] = Zero
    /\ p = "w_data" => l.off + 1 \in 1 .. Len(ch[f.slot]) /\ l.at = ch[f.slot][l.off + 1]
    /\ p \in Writing /\ l.done > 0 => l.off <= Len(ch[f.slot])
    /\ p = "c_prep" => ch[l.to] = <<l.new>>

Sane(F, D, R, A, p, l, f, ch) == Owner(R, p, l, f, ch) /\ Namer(R, p, l, ch) /\ Grower(F, D, A, p, l, f, ch)

\* The record s, when no task works on its chain.
Holds(p, l, f, s) == f.slot = s \/ (p = "r_free" /\ l.slot = s)
Closed(R, ch, s) == Starts(ch[s], IF R[s].used THEN R[s].first ELSE 0)

Owned(ch) ==
    /\ Chains(fat, dfat, ch)
    /\ \A t \in Task : Sane(fat, dfat, dir, data, pc[t], loc[t], file[t], ch)
    /\ \A s \in Slot : (\A t \in Task : ~Holds(pc[t], loc[t], file[t], s)) => Closed(dir, ch, s)

LEMMA NamedStarts ==
    ASSUME TInv, Exclusive, NEW ch, Owned(ch), NEW s \in Slot, dir[s].used, dir[s].first # 0, ~Truncating(s)
    PROVE  ch[s] # <<>> /\ ch[s][1] = dir[s].first
<1>1. dir[s].first \in Cluster
  BY DEF TInv, Volume, Entry
<1>2. Starts(ch[s], dir[s].first)
  <2>1. CASE \E t \in Task : file[t].slot = s
    <3>1. PICK t \in Task : file[t].slot = s
      BY <2>1
    <3>2. Owner(dir, pc[t], loc[t], file[t], ch)
      BY DEF Owned, Sane
    <3>3. ~Freed(pc[t], loc[t]) /\ file[t].slot # None
      BY <3>1, FatAssumption DEF Truncating, Freed
    <3>4. dir[s].first = file[t].ino /\ Starts(ch[s], Mine(pc[t], loc[t], file[t]))
      BY <3>1, <3>2, <3>3 DEF Owner
    <3>5. Mine(pc[t], loc[t], file[t]) = file[t].ino
      BY <3>1, <3>2, <3>3, <3>4 DEF Owner, Mine, Busy, Freed, Writing
    <3> QED
      BY <3>4, <3>5
  <2>2. CASE \A t \in Task : ~Holds(pc[t], loc[t], file[t], s)
    BY <2>2 DEF Owned, Closed
  <2>3. ASSUME NEW t \in Task, pc[t] = "r_free", loc[t].slot = s PROVE FALSE
    BY <2>3 DEF Owned, Sane, Namer
  <2> QED
    BY <2>1, <2>2, <2>3 DEF Holds
<1> QED
  BY <1>1, <1>2 DEF Starts

LEMMA OwnedSound == ASSUME TInv, Exclusive, NEW ch, Owned(ch) PROVE VolumeSound
<1> SUFFICES ASSUME NEW s \in Named
             PROVE  /\ EOC \in {Nth(dfat, dir[s].first, n) : n \in 0 .. Cardinality(Cluster)}
                    /\ \A r \in Named \ {s} : Chain(dfat, dir[s].first) \cap Chain(dfat, dir[r].first) = {}
  BY DEF VolumeSound
<1>1. ASSUME NEW r \in Named
      PROVE  /\ EOC \in {Nth(dfat, dir[r].first, n) : n \in 0 .. Cardinality(Cluster)}
             /\ Chain(dfat, dir[r].first) = On(ch[r])
  <2>1. r \in Slot /\ ch[r] # <<>> /\ ch[r][1] = dir[r].first
    BY NamedStarts DEF Named
  <2>2. dfat \in [Cluster -> Links] /\ Path(dfat, ch[r])
    BY <2>1 DEF TInv, Volume, Owned, Chains
  <2> QED
    BY <2>1, <2>2, PathEnds
<1>2. Named \subseteq Slot
  BY DEF Named
<1> QED
  BY <1>1, <1>2 DEF Owned, Chains

-----------------------------------------------------------------------------
(* A step of one task and what the others know.                            *)

\* What a task at p that changes nothing knows still holds, when the records
\* it uses and their chains are as they were, and everything is while it is
\* the one at work.
LEMMA OtherSane ==
    ASSUME NEW F, NEW D, NEW R, NEW A, NEW F1, NEW D1, NEW R1, NEW A1, NEW ch, NEW ch1,
           NEW p \in PCs, NEW l \in Locals, NEW f \in Files, Fit(p, l, f), Sane(F, D, R, A, p, l, f, ch),
           \A s \in UsedBy(l, f) : R1[s] = R[s] /\ ch1[s] = ch[s],
           Active(p) => /\ F1 = F /\ D1 = D /\ R1 = R /\ A1 = A
                        /\ \A s \in Slot : On(ch1[s]) \subseteq On(ch[s])
    PROVE  Sane(F1, D1, R1, A1, p, l, f, ch1)
<1>1. /\ f.slot # None => f.slot \in UsedBy(l, f)
      /\ l.slot # None => l.slot \in UsedBy(l, f)
      /\ l.to # None => l.to \in UsedBy(l, f)
  <2>1. f.slot \in Slot \cup {None} /\ l.slot \in Slot \cup {None} /\ l.to \in Slot \cup {None}
    BY LocalsFields, FilesFields
  <2> QED
    BY <2>1 DEF UsedBy
<1>2. Owner(R1, p, l, f, ch1)
  BY <1>1 DEF Sane, Owner
<1>3. Namer(R1, p, l, ch1)
  <2>1. /\ p \in {"w_dir", "t_dir", "r_dir", "n_dir", "c_mark", "c_dir", "r_read", "r_free", "n_read"} => Active(p)
        /\ p \in Removing \cup Renaming => l.slot # None
        /\ p \in Renaming \cup Making => l.to # None
    BY DEF Active, Held, Making, Fit
  <2>2. p \in {"w_dir", "t_dir", "r_dir", "n_dir", "c_mark", "c_dir"} => l.buf = R1
    BY <2>1 DEF Sane, Namer
  <2>3. p \in {"r_lock", "r_read", "r_dir"} => R1[l.slot].used /\ R1[l.slot].first = l.cur
    BY <1>1, <2>1 DEF Sane, Namer, Removing
  <2>4. p = "r_free" => ~R1[l.slot].used /\ Starts(ch1[l.slot], l.cur)
    BY <1>1, <2>1 DEF Sane, Namer, Removing
  <2>5. p \in Renaming => l.to # l.slot /\ (R1[l.to].used => R1[l.to].first = 0)
    BY <1>1, <2>1 DEF Sane, Namer, Renaming
  <2>6. p \in {"c_mark", "c_dir"} => ~R1[l.to].used
    BY <1>1, <2>1 DEF Sane, Namer, Making
  <2>7. /\ p = "c_dir" /\ l.kind # "dir" => l.new = 0
        /\ p = "c_dir" /\ l.kind = "rename" => l.to # l.slot
        /\ p = "n_dir" => R1[l.slot].used
    BY <2>1 DEF Sane, Namer
  <2> QED
    BY <2>2, <2>3, <2>4, <2>5, <2>6, <2>7 DEF Namer
<1>4. Grower(F1, D1, A1, p, l, f, ch1)
  <2>1. CASE Active(p)
    <3>1. p \in Writing => f.slot # None
      BY DEF Fit
    <3>2. p = "c_prep" => l.to # None
      BY DEF Fit, Making
    <3>3. Grower(F, D, A, p, l, f, ch)
      BY DEF Sane
    <3>4. /\ p \in {"w_zero", "w_mark", "c_mark"} => F1[l.new] = Free
          /\ Loose(p, l) => F1[l.new] = EOC /\ D1[l.new] = EOC /\ \A s \in Slot : l.new \notin On(ch1[s])
          /\ p \in {"w_zero", "w_mark"} => (l.at = None <=> l.cur = 0)
          /\ p \in {"w_mark", "w_link"} => A1[l.new] = Zero
      BY <2>1, <3>3 DEF Grower
    <3>5. p \in Writing => ch1[f.slot] = ch[f.slot]
      BY <1>1, <3>1
    <3>6. p = "c_prep" => ch1[l.to] = ch[l.to]
      BY <1>1, <3>2
    <3> QED
      BY <3>3, <3>4, <3>5, <3>6 DEF Grower, Writing
  <2>2. CASE ~Active(p)
    <3>1. p \notin {"w_zero", "w_mark", "w_link", "w_undo", "w_data", "c_mark", "c_dir", "c_prep"}
      BY <2>2 DEF Active, Held, Making
    <3>2. p \in Writing => f.slot # None
      BY DEF Fit
    <3>3. p \in Writing /\ l.done > 0 => l.off <= Len(ch1[f.slot])
      BY <1>1, <3>2 DEF Sane, Grower
    <3> QED
      BY <3>1, <3>3 DEF Grower, Loose
  <2> QED
    BY <2>1, <2>2
<1> QED
  BY <1>2, <1>3, <1>4 DEF Sane

LEMMA Carries ==
    ASSUME TInv, Exclusive, NEW ch, Owned(ch), NEW ch1,
           NEW t \in Task, NEW p, NEW l, NEW f, Moves(t, p, l, f),
           \A s \in UsedBy(l, f) : s \in UsedBy(loc[t], file[t]) \/ \A u \in Task \ {t} : s \notin UsedBy(loc[u], file[u]),
           Active(p) => Active(pc[t]) \/ \A u \in Task : ~Active(pc[u]),
           \A s \in Slot \ UsedBy(loc[t], file[t]) : dir'[s] = dir[s] /\ ch1[s] = ch[s],
           \/ Active(pc[t])
           \/ UNCHANGED <<fat, dfat, dir, data>> /\ \A s \in Slot : On(ch1[s]) \subseteq On(ch[s]),
           Chains(fat', dfat', ch1),
           Sane(fat', dfat', dir', data', p, l, f, ch1),
           \A s \in UsedBy(loc[t], file[t]) :
               ~Holds(p, l, f, s) /\ (Holds(pc[t], loc[t], file[t], s) \/ Closed(dir, ch, s)) => Closed(dir', ch1, s)
    PROVE  Exclusive' /\ Owned(ch1)'
<1>1. /\ pc'[t] = p /\ loc'[t] = l /\ file'[t] = f
      /\ \A u \in Task \ {t} : pc'[u] = pc[u] /\ loc'[u] = loc[u] /\ file'[u] = file[u]
  BY Moved DEF TInv
<1>2. \A u, v \in Task : u # v => UsedBy(loc'[u], file'[u]) \cap UsedBy(loc'[v], file'[v]) = {}
  <2>1. \A u \in Task \ {t} : UsedBy(l, f) \cap UsedBy(loc[u], file[u]) = {}
    BY DEF Exclusive
  <2>2. \A u, v \in Task \ {t} : u # v => UsedBy(loc[u], file[u]) \cap UsedBy(loc[v], file[v]) = {}
    BY DEF Exclusive
  <2> TAKE u, v \in Task
  <2> HAVE u # v
  <2>3. CASE u = t
    BY <1>1, <2>1, <2>3
  <2>4. CASE v = t
    BY <1>1, <2>1, <2>4
  <2>5. CASE u # t /\ v # t
    BY <1>1, <2>2, <2>5
  <2> QED
    BY <2>3, <2>4, <2>5
<1>3. \A u, v \in Task : Active(pc'[u]) /\ Active(pc'[v]) => u = v
  BY <1>1 DEF Exclusive
<1>4. \A u \in Task : Sane(fat', dfat', dir', data', pc'[u], loc'[u], file'[u], ch1)
  <2> TAKE u \in Task
  <2>1. CASE u = t
    BY <1>1, <2>1
  <2>2. CASE u # t
    <3>1. /\ pc[u] \in PCs /\ loc[u] \in Locals /\ file[u] \in Files /\ Fit(pc[u], loc[u], file[u])
      BY Still DEF TInv
    <3>2. Sane(fat, dfat, dir, data, pc[u], loc[u], file[u], ch)
      BY DEF Owned
    <3>3. \A s \in UsedBy(loc[u], file[u]) : dir'[s] = dir[s] /\ ch1[s] = ch[s]
      BY <2>2 DEF Exclusive, UsedBy
    <3>4. Active(pc[u]) => /\ fat' = fat /\ dfat' = dfat /\ dir' = dir /\ data' = data
                           /\ \A s \in Slot : On(ch1[s]) \subseteq On(ch[s])
      BY <2>2 DEF Exclusive
    <3>5. Sane(fat', dfat', dir', data', pc[u], loc[u], file[u], ch1)
      BY <3>1, <3>2, <3>3, <3>4, OtherSane
    <3> QED
      BY <1>1, <2>2, <3>5
  <2> QED
    BY <2>1, <2>2
<1>5. ASSUME NEW s \in Slot, \A u \in Task : ~Holds(pc'[u], loc'[u], file'[u], s)
      PROVE  Closed(dir', ch1, s)
  <2>1. ~Holds(p, l, f, s)
    BY <1>1, <1>5
  <2>2. CASE s \in UsedBy(loc[t], file[t])
    <3>1. CASE Holds(pc[t], loc[t], file[t], s)
      BY <2>1, <2>2, <3>1
    <3>2. CASE ~Holds(pc[t], loc[t], file[t], s)
      <4>1. \A u \in Task : ~Holds(pc[u], loc[u], file[u], s)
        BY <1>1, <1>5, <3>2
      <4>2. Closed(dir, ch, s)
        BY <4>1 DEF Owned
      <4> QED
        BY <2>1, <2>2, <4>2
    <3> QED
      BY <3>1, <3>2
  <2>3. CASE s \notin UsedBy(loc[t], file[t])
    <3>1. ~Holds(pc[t], loc[t], file[t], s)
      BY <2>3 DEF Holds, UsedBy
    <3>2. \A u \in Task : ~Holds(pc[u], loc[u], file[u], s)
      BY <1>1, <1>5, <3>1
    <3> QED
      BY <2>3, <3>2 DEF Owned, Closed
  <2> QED
    BY <2>2, <2>3
<1>6. Exclusive'
  BY <1>2, <1>3 DEF Exclusive
<1>7. Owned(ch1)'
  BY <1>4, <1>5 DEF Owned
<1> QED
  BY <1>6, <1>7

\* A step that changes neither the volume nor the chains.
LEMMA Local ==
    ASSUME TInv, Exclusive, NEW ch, Owned(ch), UNCHANGED <<fat, dfat, dir, data>>,
           NEW t \in Task, NEW p, NEW l, NEW f, Moves(t, p, l, f),
           \A s \in UsedBy(l, f) : s \in UsedBy(loc[t], file[t]) \/ \A u \in Task \ {t} : s \notin UsedBy(loc[u], file[u]),
           Active(p) => Active(pc[t]) \/ \A u \in Task : ~Active(pc[u]),
           Sane(fat, dfat, dir, data, p, l, f, ch),
           \A s \in Slot : Holds(pc[t], loc[t], file[t], s) /\ ~Holds(p, l, f, s) => Closed(dir, ch, s)
    PROVE  Exclusive' /\ Owned(ch)'
<1>1. Chains(fat', dfat', ch) /\ Sane(fat', dfat', dir', data', p, l, f, ch)
  BY DEF Owned
<1>2. \A s \in UsedBy(loc[t], file[t]) :
          ~Holds(p, l, f, s) /\ (Holds(pc[t], loc[t], file[t], s) \/ Closed(dir, ch, s)) => Closed(dir', ch, s)
  BY DEF UsedBy
<1> QED
  BY <1>1, <1>2, Carries

\* A task that keeps to the records it uses.
LEMMA SameUse ==
    ASSUME NEW l, NEW f, NEW m, NEW g, UsedBy(m, g) \subseteq UsedBy(l, f), NEW t \in Task
    PROVE  \A s \in UsedBy(m, g) : s \in UsedBy(l, f) \/ \A u \in Task \ {t} : s \notin UsedBy(loc[u], file[u])
OBVIOUS

\* After a step that does not race, what the task took no other task had.
LEMMA TakesAlone ==
    ASSUME TInv, Exclusive', NEW t \in Task, NEW p, NEW l, NEW f, Moves(t, p, l, f)
    PROVE  /\ \A u \in Task \ {t} : UsedBy(l, f) \cap UsedBy(loc[u], file[u]) = {}
           /\ Active(p) => \A u \in Task \ {t} : ~Active(pc[u])
<1>1. /\ pc'[t] = p /\ loc'[t] = l /\ file'[t] = f
      /\ \A u \in Task \ {t} : pc'[u] = pc[u] /\ loc'[u] = loc[u] /\ file'[u] = file[u]
  BY Moved DEF TInv
<1>2. ASSUME NEW u \in Task \ {t} PROVE UsedBy(l, f) \cap UsedBy(loc[u], file[u]) = {}
  BY <1>1 DEF Exclusive
<1>3. ASSUME NEW u \in Task \ {t}, Active(p) PROVE ~Active(pc[u])
  BY <1>1, <1>3 DEF Exclusive
<1> QED
  BY <1>2, <1>3

LEMMA AloneClosed ==
    ASSUME TInv, NEW ch, Owned(ch), NEW t \in Task, NEW s \in Slot, pc[t] = "idle", file[t].slot = None,
           \A u \in Task \ {t} : s \notin UsedBy(loc[u], file[u])
    PROVE  Closed(dir, ch, s)
<1>1. ~Holds(pc[t], loc[t], file[t], s)
  BY FatAssumption DEF Holds
<1> QED
  BY <1>1 DEF UsedBy, Holds, Owned

\* A task that is in no call.
LEMMA IdleSane ==
    ASSUME NEW F, NEW D, NEW R, NEW A, NEW f, NEW ch,
           f.slot # None => /\ Starts(ch[f.slot], f.ino)
                            /\ R[f.slot].used => R[f.slot].first \in {0, f.ino}
    PROVE  Sane(F, D, R, A, "idle", NoLocals, f, ch)
<1>1. Owner(R, "idle", NoLocals, f, ch)
  BY DEF Owner, Mine, Busy, Writing, Cutting
<1>2. Namer(R, "idle", NoLocals, ch)
  BY DEF Namer, Renaming
<1>3. Grower(F, D, A, "idle", NoLocals, f, ch)
  BY DEF Grower, Loose, Writing
<1> QED
  BY <1>1, <1>2, <1>3 DEF Sane

LEMMA IdleUse == ASSUME NEW f PROVE UsedBy(NoLocals, f) = {f.slot} \cap Slot
BY FatAssumption DEF UsedBy, NoLocals

LEMMA OpenOwned ==
    ASSUME TInv, Exclusive, Exclusive', NEW ch, Owned(ch), NEW t \in Task, NEW s \in Slot, Open(t, s)
    PROVE  Exclusive' /\ Owned(ch)'
<1> DEFINE f == [slot |-> s, ino |-> dir[s].first, size |-> dir[s].size, pos |-> 0]
<1>1. /\ pc[t] = "idle" /\ file[t].slot = None /\ dir[s].used
      /\ UNCHANGED <<fat, dfat, dir, data>>
  BY DEF Open, disk
<1>2. loc[t] = NoLocals
  BY <1>1, Still DEF TInv, Fit
<1>3. Moves(t, "idle", NoLocals, f)
  BY <1>1, <1>2, Still DEF TInv, Open, Moves
<1>5. f.slot = s /\ f.ino = dir[s].first
  OBVIOUS
<1> HIDE DEF f
<1>10. \A u \in Task \ {t} : s \notin UsedBy(loc[u], file[u])
  BY <1>3, <1>5, TakesAlone, IdleUse
<1>4. Closed(dir, ch, s) /\ \A u \in Task \ {t} : s \notin UsedBy(loc[u], file[u])
  BY <1>1, <1>10, AloneClosed
<1>6. Sane(fat, dfat, dir, data, "idle", NoLocals, f, ch)
  BY <1>1, <1>4, <1>5, IdleSane DEF Closed
<1>7. \A r \in UsedBy(NoLocals, f) : r \in UsedBy(loc[t], file[t]) \/ \A u \in Task \ {t} : r \notin UsedBy(loc[u], file[u])
  BY <1>4, <1>5, IdleUse
<1>8. ~Active("idle")
  BY DEF Active, Held, Making
<1>9. \A r \in Slot : ~Holds(pc[t], loc[t], file[t], r)
  BY <1>1, FatAssumption DEF Holds
<1> QED
  BY <1>1, <1>3, <1>6, <1>7, <1>8, <1>9, Local

LEMMA SeekOwned ==
    ASSUME TInv, Exclusive, NEW ch, Owned(ch), NEW t \in Task, NEW n \in 0 .. MaxSize - 1, Seek(t, n)
    PROVE  Exclusive' /\ Owned(ch)'
<1> DEFINE f == [file[t] EXCEPT !.pos = n]
<1>1. pc[t] = "idle" /\ file[t].slot # None /\ file[t] \in Files /\ UNCHANGED <<fat, dfat, dir, data>>
  BY Still DEF TInv, Seek, disk
<1>2. loc[t] = NoLocals
  BY <1>1, Still DEF TInv, Fit
<1>3. Moves(t, "idle", NoLocals, f)
  BY <1>1, <1>2, Still DEF TInv, Seek, Moves
<1>4. f.slot = file[t].slot /\ f.ino = file[t].ino
  BY <1>1 DEF Files
<1> HIDE DEF f
<1>5. Owner(dir, "idle", NoLocals, file[t], ch)
  BY <1>1, <1>2 DEF Owned, Sane
<1>6. Sane(fat, dfat, dir, data, "idle", NoLocals, f, ch)
  BY <1>4, <1>5, IdleSane DEF Owner, Mine, Busy, Freed
<1>7. UsedBy(NoLocals, f) = UsedBy(loc[t], file[t])
  BY <1>2, <1>4, IdleUse
<1>8. ~Active("idle")
  BY DEF Active, Held, Making
<1>9. \A s \in Slot : Holds(pc[t], loc[t], file[t], s) => Holds("idle", NoLocals, f, s)
  BY <1>1, <1>4 DEF Holds
<1> QED
  BY <1>1, <1>3, <1>6, <1>7, <1>8, <1>9, Local

\* What a call knows once it has fat_lock.
LEMMA AcquireOwned ==
    ASSUME TInv, Exclusive, Exclusive', NEW ch, Owned(ch), NEW t \in Task, Acquire(t)
    PROVE  Exclusive' /\ Owned(ch)'
<1> DEFINE p == CASE pc[t] = "w_lock" -> "w_top" [] pc[t] = "t_lock" -> "t_free"
                  [] pc[t] = "r_lock" -> "r_read" [] pc[t] = "n_lock" -> "n_read"
           l == loc[t]
           f == file[t]
<1>1. Moves(t, p, l, f) /\ UNCHANGED <<fat, dfat, dir, data>>
  BY Still DEF TInv, Acquire, Moves, Goto, disk
<1>2. \/ pc[t] = "w_lock" /\ p = "w_top"
      \/ pc[t] = "t_lock" /\ p = "t_free"
      \/ pc[t] = "r_lock" /\ p = "r_read"
      \/ pc[t] = "n_lock" /\ p = "n_read"
  BY DEF Acquire
<1> HIDE DEF p
<1>3. Sane(fat, dfat, dir, data, pc[t], l, f, ch)
  BY DEF Owned
<1>4. Fit(pc[t], l, f)
  BY Still DEF TInv
<1> HIDE DEF l, f
<1>5. Sane(fat, dfat, dir, data, p, l, f, ch)
  <2>1. Owner(dir, p, l, f, ch)
    BY <1>2, <1>3 DEF Sane, Owner, Mine, Busy, Freed, Writing, Cutting
  <2>2. Namer(dir, p, l, ch)
    BY <1>2, <1>3 DEF Sane, Namer, Renaming
  <2>3. Grower(fat, dfat, data, p, l, f, ch)
    BY <1>2, <1>3 DEF Sane, Grower, Loose, Writing
  <2> QED
    BY <2>1, <2>2, <2>3 DEF Sane
<1>6. \A u \in Task : ~Active(pc[u])
  <2>1. Active(p) /\ ~Active(pc[t])
    BY <1>2 DEF Active, Held, Making
  <2> QED
    BY <1>1, <2>1, TakesAlone
<1>7. \A s \in Slot : Holds(pc[t], loc[t], file[t], s) => Holds(p, l, f, s)
  BY <1>2 DEF Holds, l, f
<1> QED
  BY <1>1, <1>5, <1>6, <1>7, Local DEF l, f

\* A step of the call of t, which keeps its records.
LEMMA Goes ==
    ASSUME TInv, Exclusive, NEW ch, Owned(ch), UNCHANGED <<fat, dfat, dir, data>>,
           NEW t \in Task, NEW p, NEW l, Moves(t, p, l, file[t]),
           l.slot = loc[t].slot, l.to = loc[t].to, Active(p) => Active(pc[t]),
           Sane(fat, dfat, dir, data, p, l, file[t], ch), pc[t] = "r_free" => p = "r_free"
    PROVE  Exclusive' /\ Owned(ch)'
<1>1. UsedBy(l, file[t]) = UsedBy(loc[t], file[t])
  BY DEF UsedBy
<1>2. \A s \in Slot : Holds(pc[t], loc[t], file[t], s) => Holds(p, l, file[t], s)
  BY DEF Holds
<1> QED
  BY <1>1, <1>2, Local

LEMMA WriteOwned ==
    ASSUME TInv, Exclusive, NEW ch, Owned(ch), NEW t \in Task, NEW n \in 1 .. MaxSize, NEW v \in Value, Write(t, n, v)
    PROVE  Exclusive' /\ Owned(ch)'
<1> DEFINE f == file[t]
           l == WriteCall(f, n, v)
<1>1. /\ Moves(t, "w_lock", l, f) /\ pc[t] = "idle" /\ f.slot # None /\ f \in Files
      /\ UNCHANGED <<fat, dfat, dir, data>>
  BY Still DEF TInv, Write, Moves, Goto, Set, WriteCall, disk
<1>2. loc[t] = NoLocals
  BY <1>1, Still DEF TInv, Fit
<1>3. Owner(dir, "idle", loc[t], f, ch)
  BY <1>1 DEF Owned, Sane
<1> HIDE DEF f
<1>4. l.slot = None /\ l.to = None /\ l.cur = f.ino /\ l.done = 0 /\ l.freed = FALSE
  BY <1>1, WriteLocals, NoLocalsFields
<1> HIDE DEF l
<1>5. Sane(fat, dfat, dir, data, "w_lock", l, f, ch)
  <2>1. Owner(dir, "w_lock", l, f, ch)
    BY <1>3, <1>4 DEF Owner, Mine, Busy, Freed, Writing, Cutting
  <2>2. Namer(dir, "w_lock", l, ch)
    BY DEF Namer, Renaming
  <2>3. Grower(fat, dfat, data, "w_lock", l, f, ch)
    BY <1>4 DEF Grower, Loose
  <2> QED
    BY <2>1, <2>2, <2>3 DEF Sane
<1>6. l.slot = loc[t].slot /\ l.to = loc[t].to
  BY <1>2, <1>4, NoLocalsFields
<1>7. ~Active("w_lock")
  BY DEF Active, Held, Making
<1> QED
  BY <1>1, <1>5, <1>6, <1>7, Goes DEF f

\* How far the walk over the chain of the file gets.
LEMMA TurnReaches ==
    ASSUME TInv, NEW ch, Owned(ch), NEW t \in Task, pc[t] = "w_top"
    PROVE  LET l == loc[t]
               q == ch[file[t].slot]
               at(n) == Nth(fat, l.cur, n)
               reached == Cardinality({n \in 0 .. l.off : Valid(at(n))})
           IN  /\ l.off \in Nat /\ Len(q) \in Nat /\ file[t].slot \in Slot
               /\ q = <<>> <=> l.cur = 0
               /\ \A n \in Nat : n < Len(q) => at(n) = q[n + 1] /\ q[n + 1] \in Cluster
               /\ reached = IF Len(q) <= l.off THEN Len(q) ELSE l.off + 1
<1> DEFINE l == loc[t]
           s == file[t].slot
           q == ch[s]
           at(n) == Nth(fat, l.cur, n)
           reached == Cardinality({n \in 0 .. l.off : Valid(at(n))})
<1>1. /\ l.off \in Nat /\ l.cur \in Cluster \cup {0} /\ reached \in 0 .. l.off + 1
      /\ \A n \in 0 .. l.off : Valid(at(n)) <=> n < reached
      /\ reached = 0 <=> l.cur = 0
  BY TurnFacts
<1>2. s \in Slot
  <2>1. file[t] \in Files /\ s # None
    BY Still DEF TInv, Fit, Writing
  <2> QED
    BY <2>1, FilesFields
<1>3. Starts(q, l.cur) /\ Path(fat, q) /\ fat \in [Cluster -> Links]
  <2>1. Owner(dir, pc[t], l, file[t], ch)
    BY DEF Owned, Sane
  <2>2. s # None
    BY <1>2, FatAssumption
  <2> QED
    BY <1>2, <2>1, <2>2 DEF Owner, Mine, Busy, Owned, Chains, TInv, Volume
<1>4. /\ Len(q) \in Nat /\ (q = <<>> <=> Len(q) = 0)
      /\ \A i \in 1 .. Len(q) : q[i] \in Cluster
  BY <1>3, PathElements
<1> HIDE DEF q, s
<1>5. q = <<>> <=> l.cur = 0
  BY <1>1, <1>3, <1>4, Numbers DEF Starts
<1>6. ASSUME NEW n \in Nat PROVE at(n) = IF q = <<>> THEN 0 ELSE IF n < Len(q) THEN q[n + 1] ELSE EOC
  <2>1. CASE q = <<>>
    <3>1. l.cur = 0 /\ 0 \in Links /\ ~Valid(0)
      BY <1>5, <2>1, Numbers DEF Links, Valid
    <3> DEFINE T == {i \in Nat : Nth(fat, 0, i) = 0}
    <3>2. 0 \in T /\ \A i \in 0 .. n : i \in T /\ i < n => i + 1 \in T
      BY <1>3, <3>1, NthFollows
    <3>3. 0 .. n \subseteq T
      <4> HIDE DEF T
      <4> QED
        BY <3>2, UpTo
    <3>4. n \in T
      BY <3>3
    <3> QED
      BY <2>1, <3>1, <3>4
  <2>2. CASE q # <<>>
    <3>1. l.cur = q[1]
      BY <1>3, <2>2 DEF Starts
    <3> QED
      BY <1>3, <2>2, <3>1, NthPath
  <2> QED
    BY <2>1, <2>2
<1> HIDE DEF at
<1>7. \A n \in Nat : n < Len(q) => at(n) = q[n + 1] /\ q[n + 1] \in Cluster
  <2> TAKE n \in Nat
  <2> HAVE n < Len(q)
  <2>1. n + 1 \in 1 .. Len(q)
    BY <1>4
  <2> QED
    BY <1>4, <1>6, <2>1
<1>8. \A n \in Nat : ~(n < Len(q)) => ~Valid(at(n))
  BY <1>4, <1>6, Numbers DEF Valid
<1>9. reached = IF Len(q) <= l.off THEN Len(q) ELSE l.off + 1
  <2> DEFINE r == reached
  <2>1. /\ r \in 0 .. l.off + 1 /\ \A n \in 0 .. l.off : Valid(at(n)) <=> n < r
    BY <1>1
  <2> HIDE DEF r, reached
  <2>2. \A n \in 0 .. l.off : n < r <=> n < Len(q)
    BY <1>4, <1>7, <1>8, <2>1 DEF Valid
  <2>3. CASE Len(q) <= l.off
    <3>1. Len(q) \in 0 .. l.off
      BY <1>1, <1>4, <2>3
    <3>2. ~(Len(q) < r)
      BY <1>4, <2>2, <3>1
    <3>3. r <= Len(q)
      BY <1>4, <2>1, <3>2
    <3>4. ~(r < Len(q))
      <4> SUFFICES ASSUME r < Len(q) PROVE FALSE
        OBVIOUS
      <4>1. r \in 0 .. l.off
        BY <1>1, <1>4, <2>1, <2>3
      <4> QED
        BY <2>1, <2>2, <4>1
    <3> QED
      BY <1>4, <2>1, <2>3, <3>3, <3>4 DEF r
  <2>4. CASE ~(Len(q) <= l.off)
    <3>1. l.off \in 0 .. l.off /\ l.off < Len(q)
      BY <1>1, <1>4, <2>4
    <3>2. l.off < r
      BY <2>2, <3>1
    <3>3. r = l.off + 1
      BY <1>1, <2>1, <3>2
    <3> QED
      BY <2>4, <3>3 DEF r
  <2> QED
    BY <2>3, <2>4
<1> QED
  BY <1>1, <1>2, <1>4, <1>5, <1>7, <1>9 DEF q, s, at

LEMMA WriteTurnOwned ==
    ASSUME TInv, Exclusive, NEW ch, Owned(ch), NEW t \in Task, WriteTurn(t)
    PROVE  Exclusive' /\ Owned(ch)'
<1> DEFINE l == loc[t]
           f == file[t]
           q == ch[f.slot]
           at(n) == Nth(fat, l.cur, n)
           reached == Cardinality({n \in 0 .. l.off : Valid(at(n))})
           lacks == l.cur = 0 \/ (reached <= l.off /\ at(reached) = EOC)
           x == IF reached = 0 THEN None ELSE at(reached - 1)
           data1 == [l EXCEPT !.at = at(l.off)]
           zero1 == Turned(l, FindFree, x)
<1>1. /\ pc[t] = "w_top" /\ l \in Locals /\ f \in Files
      /\ UNCHANGED <<fat, dfat, dir, data>>
  BY Still DEF TInv, WriteTurn, disk
<1>2. \/ reached = l.off + 1 /\ Moves(t, "w_data", data1, file[t])
      \/ lacks /\ FindFree # 0 /\ Moves(t, "w_zero", zero1, file[t])
      \/ Moves(t, "w_end", l, file[t])
  BY Still DEF TInv, WriteTurn, Moves, Goto, Set, Turned
<1>3. /\ l.off \in Nat /\ Len(q) \in Nat /\ f.slot \in Slot /\ (q = <<>> <=> l.cur = 0)
      /\ \A n \in Nat : n < Len(q) => at(n) = q[n + 1] /\ q[n + 1] \in Cluster
      /\ reached = IF Len(q) <= l.off THEN Len(q) ELSE l.off + 1
  BY <1>1, TurnReaches
<1>4. Sane(fat, dfat, dir, data, "w_top", l, f, ch)
  BY <1>1 DEF Owned
<1>5. l = loc[t] /\ f = file[t] /\ q = ch[f.slot]
  OBVIOUS
<1>6. (q = <<>> <=> Len(q) = 0) /\ f.slot # None
  BY <1>3, FatAssumption, PathElements DEF Owned, Chains
<1> HIDE DEF at, reached, l, f, q
<1>7. CASE reached = l.off + 1 /\ Moves(t, "w_data", data1, file[t])
  <2>1. l.off < Len(q)
    BY <1>3, <1>7
  <2>2. at(l.off) = q[l.off + 1] /\ q[l.off + 1] \in Cluster
    BY <1>3, <2>1
  <2>3. /\ data1 \in Locals /\ data1.at = at(l.off) /\ data1.off = l.off /\ data1.to = l.to
        /\ data1.done = l.done /\ data1.cur = l.cur /\ data1.slot = l.slot /\ data1.freed = l.freed
    BY <1>1, <2>2, SetAt
  <2> HIDE DEF data1
  <2>4. Owner(dir, "w_data", data1, f, ch)
    BY <1>4, <2>3 DEF Sane, Owner, Mine, Busy, Freed, Writing
  <2>5. Namer(dir, "w_data", data1, ch)
    BY DEF Namer, Renaming
  <2>6. Grower(fat, dfat, data, "w_data", data1, f, ch)
    <3>1. l.off + 1 \in 1 .. Len(q)
      BY <1>3, <2>1
    <3> QED
      BY <1>3, <1>4, <1>5, <2>2, <2>3, <3>1 DEF Sane, Grower, Loose, Writing
  <2> QED
    BY <1>1, <1>5, <1>7, <2>3, <2>4, <2>5, <2>6, Goes DEF Sane, Active, Held
<1>8. CASE lacks /\ FindFree # 0 /\ Moves(t, "w_zero", zero1, file[t])
  <2>1. reached = Len(q) /\ (Len(q) = 0 <=> l.cur = 0)
    <3>1. CASE l.cur = 0
      BY <1>3, <1>6, <3>1
    <3>2. CASE reached <= l.off
      BY <1>3, <1>6, <3>2
    <3> QED
      BY <1>8, <3>1, <3>2
  <2>2. x = IF q = <<>> THEN None ELSE q[Len(q)]
    <3>1. CASE Len(q) = 0
      BY <1>6, <2>1, <3>1
    <3>2. CASE Len(q) # 0
      <4>1. Len(q) - 1 \in Nat /\ Len(q) - 1 < Len(q) /\ (Len(q) - 1) + 1 = Len(q)
        BY <1>3, <3>2
      <4> QED
        BY <1>3, <1>6, <2>1, <3>2, <4>1
    <3> QED
      BY <3>1, <3>2
  <2>3. q # <<>> => q[Len(q)] \in Cluster
    <3> SUFFICES ASSUME q # <<>> PROVE q[Len(q)] \in Cluster
      OBVIOUS
    <3>1. Len(q) - 1 \in Nat /\ Len(q) - 1 < Len(q) /\ (Len(q) - 1) + 1 = Len(q)
      BY <1>3, <1>6
    <3> QED
      BY <1>3, <3>1
  <2>4. x \in Cluster \cup {None} /\ (x = None <=> q = <<>>)
    BY <2>2, <2>3, FatAssumption
  <2>5. FindFree \in Cluster /\ fat[FindFree] = Free
    BY <1>8, FindFreeIs DEF TInv
  <2> HIDE DEF x
  <2>6. /\ zero1 \in Locals /\ zero1.new = FindFree /\ zero1.at = x /\ zero1.off = l.off /\ zero1.to = l.to
        /\ zero1.done = l.done /\ zero1.cur = l.cur /\ zero1.slot = l.slot /\ zero1.freed = l.freed
    BY <1>1, <2>4, <2>5, TurnLocals
  <2> HIDE DEF zero1
  <2>7. Owner(dir, "w_zero", zero1, f, ch)
    BY <1>4, <2>6 DEF Sane, Owner, Mine, Busy, Freed, Writing
  <2>8. Namer(dir, "w_zero", zero1, ch)
    BY DEF Namer, Renaming
  <2>9. Grower(fat, dfat, data, "w_zero", zero1, f, ch)
    BY <1>3, <1>4, <1>5, <2>2, <2>4, <2>5, <2>6 DEF Sane, Grower, Loose, Writing
  <2> QED
    BY <1>1, <1>5, <1>8, <2>6, <2>7, <2>8, <2>9, Goes DEF Sane, Active, Held
<1>9. CASE Moves(t, "w_end", l, file[t])
  <2>1. Sane(fat, dfat, dir, data, "w_end", l, f, ch)
    BY <1>4 DEF Sane, Owner, Mine, Busy, Freed, Namer, Renaming, Grower, Loose, Writing
  <2> QED
    BY <1>1, <1>5, <1>9, <2>1, Goes DEF Active, Held
<1> QED
  BY <1>2, <1>7, <1>8, <1>9

\* A step at work on the volume that leaves the directory and the chains.
LEMMA Works ==
    ASSUME TInv, Exclusive, NEW ch, Owned(ch), UNCHANGED dir,
           NEW t \in Task, NEW p, NEW l, Moves(t, p, l, file[t]), Active(pc[t]),
           l.slot = loc[t].slot, l.to = loc[t].to, pc[t] = "r_free" => p = "r_free",
           Chains(fat', dfat', ch), Sane(fat', dfat', dir, data', p, l, file[t], ch)
    PROVE  Exclusive' /\ Owned(ch)'
<1>1. UsedBy(l, file[t]) = UsedBy(loc[t], file[t])
  BY DEF UsedBy
<1>2. \A s \in UsedBy(l, file[t]) : s \in UsedBy(loc[t], file[t]) \/ \A u \in Task \ {t} : s \notin UsedBy(loc[u], file[u])
  BY <1>1
<1>3. Sane(fat', dfat', dir', data', p, l, file[t], ch)
  OBVIOUS
<1>4. \A s \in UsedBy(loc[t], file[t]) :
          ~Holds(p, l, file[t], s) /\ (Holds(pc[t], loc[t], file[t], s) \/ Closed(dir, ch, s)) => Closed(dir', ch, s)
  BY DEF Holds
<1>5. \A s \in Slot \ UsedBy(loc[t], file[t]) : dir'[s] = dir[s] /\ ch[s] = ch[s]
  OBVIOUS
<1> QED
  BY <1>2, <1>3, <1>4, <1>5, Carries

\* A cluster that is free, or on no chain, may change in the table.
LEMMA FreeOff ==
    ASSUME NEW ch, Owned(ch), NEW c, fat[c] = Free
    PROVE  \A s \in Slot : c \notin On(ch[s])
BY PathElements DEF Owned, Chains

LEMMA OffChains ==
    ASSUME TInv, NEW ch, Owned(ch), NEW c \in Cluster, \A s \in Slot : c \notin On(ch[s]), NEW v,
           SetFat(c, v) \/ SetFatFails(c, v)
    PROVE  Chains(fat', dfat', ch)
<1>1. fat' = fat \/ fat' = [fat EXCEPT ![c] = v]
  BY DEF SetFat, SetFatFails
<1>2. dfat' = dfat \/ dfat' = [dfat EXCEPT ![c] = v]
  BY DEF SetFat, SetFatFails
<1>3. fat \in [Cluster -> Links] /\ dfat \in [Cluster -> Links]
  BY DEF TInv, Volume
<1>4. \A s \in Slot : Path(fat, ch[s]) /\ Path(dfat, ch[s])
  BY DEF Owned, Chains
<1>5. \A s \in Slot : Path(fat', ch[s]) /\ Path(dfat', ch[s])
  <2> TAKE s \in Slot
  <2>1. Path([fat EXCEPT ![c] = v], ch[s]) /\ Path([dfat EXCEPT ![c] = v], ch[s])
    BY <1>3, <1>4, PathKept
  <2> QED
    BY <1>1, <1>2, <1>4, <2>1
<1> QED
  BY <1>5 DEF Owned, Chains

LEMMA WriteZeroOwned ==
    ASSUME TInv, Exclusive, NEW ch, Owned(ch), NEW t \in Task, WriteZero(t)
    PROVE  Exclusive' /\ Owned(ch)'
<1> DEFINE l == loc[t]
           f == file[t]
<1>1. /\ pc[t] = "w_zero" /\ UNCHANGED <<fat, dfat, dir>> /\ l \in Locals
      /\ \/ Moves(t, "w_mark", l, f) /\ data' = [data EXCEPT ![l.new] = Zero]
         \/ Moves(t, "w_end", l, f)
  BY Still DEF TInv, WriteZero, Moves, Goto
<1>2. Sane(fat, dfat, dir, data, "w_zero", l, f, ch)
  BY <1>1 DEF Owned
<1>3. Chains(fat', dfat', ch)
  BY <1>1 DEF Owned
<1>4. l.new \in Cluster
  <2>1. Fit("w_zero", l, f)
    BY <1>1, Still DEF TInv
  <2> QED
    BY <1>1, <2>1, LocalsFields DEF Fit
<1>5. CASE Moves(t, "w_mark", l, f) /\ data' = [data EXCEPT ![l.new] = Zero]
  <2>1. data'[l.new] = Zero
    BY <1>4, <1>5 DEF TInv, Volume
  <2>2. Sane(fat, dfat, dir, data', "w_mark", l, f, ch)
    BY <1>2, <2>1 DEF Sane, Owner, Mine, Busy, Freed, Namer, Renaming, Grower, Loose, Writing
  <2> QED
    BY <1>1, <1>3, <1>5, <2>2, Works DEF Active, Held
<1>6. CASE Moves(t, "w_end", l, f)
  <2>1. Sane(fat, dfat, dir, data', "w_end", l, f, ch)
    BY <1>2, <1>6 DEF Sane, Owner, Mine, Busy, Freed, Namer, Renaming, Grower, Loose, Writing
  <2> QED
    BY <1>1, <1>3, <1>6, <2>1, Works DEF Active, Held
<1> QED
  BY <1>1, <1>5, <1>6

\* A file gets its first cluster, or one more at the end.
Longer(ch, s, c) == [ch EXCEPT ![s] = Append(ch[s], c)]
Lengthens(ch, s, c) ==
    \/ ch[s] = <<>> /\ SetFat(c, EOC)
    \/ ch[s] # <<>> /\ SetFat(ch[s][Len(ch[s])], c) /\ fat[c] = EOC /\ dfat[c] = EOC

LEMMA LongerChains ==
    ASSUME TInv, NEW ch, Owned(ch), NEW s \in Slot, NEW c \in Cluster, \A r \in Slot : c \notin On(ch[r]), NEW ch1,
           ch1 = Longer(ch, s, c), Lengthens(ch, s, c)
    PROVE  /\ Chains(fat', dfat', ch1) /\ On(ch1[s]) = On(ch[s]) \cup {c}
           /\ Len(ch1[s]) = Len(ch[s]) + 1 /\ Len(ch[s]) \in Nat
           /\ ch1[s][Len(ch[s]) + 1] = c /\ \A i \in 1 .. Len(ch[s]) : ch1[s][i] = ch[s][i]
           /\ \A r \in Slot \ {s} : ch1[r] = ch[r]
<1>0. /\ fat \in [Cluster -> Links] /\ dfat \in [Cluster -> Links] /\ EOC \in Links
      /\ ch \in [Slot -> Seq(Cluster)] /\ \A r \in Slot : Path(fat, ch[r]) /\ Path(dfat, ch[r])
      /\ \A r, q \in Slot : r # q => On(ch[r]) \cap On(ch[q]) = {}
  BY DEF TInv, Volume, Owned, Chains, Links
<1>1. ch1[s] = Append(ch[s], c) /\ \A r \in Slot \ {s} : ch1[r] = ch[r]
  BY <1>0 DEF Longer
<1>2. Len(ch[s]) \in Nat /\ ch[s] \in Seq(Cluster)
  BY <1>0
<1>3. /\ Len(ch1[s]) = Len(ch[s]) + 1
      /\ ch1[s][Len(ch[s]) + 1] = c /\ \A i \in 1 .. Len(ch[s]) : ch1[s][i] = ch[s][i]
  BY <1>1, <1>2
<1>4. ch1 \in [Slot -> Seq(Cluster)]
  BY <1>0, <1>2 DEF Longer
<1>5. /\ \A r \in Slot \ {s} : Path(fat', ch[r]) /\ Path(dfat', ch[r])
      /\ Path(fat', ch1[s]) /\ Path(dfat', ch1[s]) /\ On(ch1[s]) = On(ch[s]) \cup {c}
  <2>1. CASE ch[s] = <<>> /\ SetFat(c, EOC)
    <3>1. fat' = [fat EXCEPT ![c] = EOC] /\ dfat' = [dfat EXCEPT ![c] = EOC]
      BY <2>1 DEF SetFat
    <3>2. \A r \in Slot : Path([fat EXCEPT ![c] = EOC], ch[r]) /\ Path([dfat EXCEPT ![c] = EOC], ch[r])
      BY <1>0, PathKept
    <3>3. ch1[s] = <<c>> /\ On(ch[s]) = {}
      BY <1>1, <2>1, NoPath
    <3>4. fat'[c] = EOC /\ dfat'[c] = EOC
      BY <1>0, <3>1
    <3> QED
      BY <3>1, <3>2, <3>3, <3>4, PathOne
  <2>2. CASE ch[s] # <<>> /\ SetFat(ch[s][Len(ch[s])], c) /\ fat[c] = EOC /\ dfat[c] = EOC
    <3> DEFINE a == ch[s][Len(ch[s])]
    <3>1. fat' = [fat EXCEPT ![a] = c] /\ dfat' = [dfat EXCEPT ![a] = c]
      BY <2>2 DEF SetFat
    <3>2. a \in Cluster /\ a \in On(ch[s])
      BY <1>0, <1>2, <2>2, PathElements
    <3>3. /\ Path([fat EXCEPT ![a] = c], Append(ch[s], c)) /\ Path([dfat EXCEPT ![a] = c], Append(ch[s], c))
          /\ On(Append(ch[s], c)) = On(ch[s]) \cup {c}
      <4>1. c \notin On(ch[s]) /\ Path(fat, ch[s]) /\ Path(dfat, ch[s])
        BY <1>0
      <4>2. Path([fat EXCEPT ![a] = c], Append(ch[s], c))
        BY <1>0, <2>2, <4>1, PathLonger
      <4>4. On(Append(ch[s], c)) = On(ch[s]) \cup {c}
        BY <1>2, OnLonger
      <4>3. Path([dfat EXCEPT ![a] = c], Append(ch[s], c))
        BY <1>0, <2>2, <4>1, PathLonger
      <4> QED
        BY <4>2, <4>3, <4>4
    <3> HIDE DEF a
    <3>4. \A r \in Slot \ {s} : Path([fat EXCEPT ![a] = c], ch[r]) /\ Path([dfat EXCEPT ![a] = c], ch[r])
      <4> TAKE r \in Slot \ {s}
      <4>1. a \notin On(ch[r])
        BY <1>0, <3>2
      <4> QED
        BY <1>0, <3>2, <4>1, PathKept
    <3> QED
      BY <1>1, <3>1, <3>3, <3>4
  <2> QED
    BY <2>1, <2>2 DEF Lengthens
<1>6. \A r, q \in Slot : r # q => On(ch1[r]) \cap On(ch1[q]) = {}
  <2> TAKE r, q \in Slot
  <2> HAVE r # q
  <2>1. CASE r = s
    BY <1>0, <1>1, <1>5, <2>1
  <2>2. CASE q = s
    BY <1>0, <1>1, <1>5, <2>2
  <2>3. CASE r # s /\ q # s
    BY <1>0, <1>1, <2>3
  <2> QED
    BY <2>1, <2>2, <2>3
<1>7. Chains(fat', dfat', ch1)
  BY <1>1, <1>4, <1>5, <1>6 DEF Chains
<1> QED
  BY <1>1, <1>2, <1>3, <1>5, <1>7

LEMMA WriteMarkOwned ==
    ASSUME TInv, Exclusive, NEW ch, Owned(ch), NEW t \in Task, WriteMark(t), NEW ch1,
           ch1 = IF loc[t].at = None /\ pc'[t] = "w_top" THEN Longer(ch, file[t].slot, loc[t].new) ELSE ch
    PROVE  Exclusive' /\ Owned(ch1)'
<1> DEFINE l == loc[t]
           f == file[t]
           m == [l EXCEPT !.cur = l.new]
<1>1. /\ pc[t] = "w_mark" /\ UNCHANGED <<dir, data>> /\ l \in Locals /\ f \in Files /\ Fit("w_mark", l, f)
      /\ \/ SetFat(l.new, EOC) /\ l.at = None /\ Moves(t, "w_top", m, f)
         \/ SetFat(l.new, EOC) /\ l.at # None /\ Moves(t, "w_link", l, f)
         \/ SetFatFails(l.new, EOC) /\ Moves(t, "w_end", l, f)
  BY Still DEF TInv, WriteMark, Moves, Goto, Set
<1>2. Sane(fat, dfat, dir, data, "w_mark", l, f, ch)
  BY <1>1 DEF Owned
<1>3. l.new \in Cluster /\ f.slot \in Slot /\ f.slot # None /\ l.new # 0
  BY <1>1, LocalsFields, FilesFields DEF Fit, Writing
<1>4. fat[l.new] = Free /\ \A s \in Slot : l.new \notin On(ch[s])
  BY <1>2, FreeOff DEF Sane, Grower
<1>5. pc'[t] = "w_top" \/ pc'[t] = "w_link" \/ pc'[t] = "w_end"
  BY <1>1, Moved DEF TInv
<1>6. CASE SetFat(l.new, EOC) /\ l.at = None /\ Moves(t, "w_top", m, f)
  <2>1. m \in Locals /\ m.cur = l.new /\ m.slot = l.slot /\ m.to = l.to /\ m.off = l.off /\ m.done = l.done /\ m.freed = l.freed
    BY <1>1, <1>3, SetCur DEF Links
  <2> DEFINE s == f.slot
  <2>2. ch1 = Longer(ch, s, l.new)
    <3>1. pc'[t] = "w_top"
      BY <1>6, Moved DEF TInv
    <3> QED
      BY <1>6, <3>1
  <2>3. l.cur = 0
    BY <1>2, <1>6 DEF Sane, Grower
  <2>4. ch[s] = <<>>
    <3>1. Starts(ch[s], l.cur) /\ Path(fat, ch[s])
      BY <1>2, <1>3 DEF Sane, Owner, Mine, Busy, Owned, Chains
    <3>2. ch[s] # <<>> => ch[s][1] \in Cluster
      BY <3>1, PathShorter DEF TInv, Volume
    <3> QED
      BY <2>3, <3>1, <3>2, Numbers DEF Starts
  <2>11. s \in Slot
    BY <1>3
  <2> HIDE DEF m, s
  <2>5. /\ Chains(fat', dfat', ch1)
        /\ Len(ch1[s]) = Len(ch[s]) + 1 /\ Len(ch[s]) \in Nat
        /\ ch1[s][Len(ch[s]) + 1] = l.new
        /\ \A r \in Slot \ {s} : ch1[r] = ch[r]
    <3>1. Lengthens(ch, s, l.new)
      BY <1>6, <2>4 DEF Lengthens
    <3> QED
      BY <1>3, <1>4, <2>2, <2>11, <3>1, LongerChains
  <2>6. Len(ch[s]) = 0 /\ Starts(ch1[s], l.new)
    <3>1. Len(ch[s]) = 0
      BY <2>4
    <3>2. ch1[s] # <<>> /\ ch1[s][1] = l.new
      BY <2>5, <3>1
    <3> QED
      BY <3>1, <3>2 DEF Starts
  <2>7. Sane(fat', dfat', dir', data', "w_top", m, f, ch1)
    <3>1. Owner(dir', "w_top", m, f, ch1)
      <4>1. f.ino = 0
        BY <1>2, <1>3, <2>3 DEF Sane, Owner, Writing
      <4> QED
        BY <1>1, <1>2, <1>3, <2>1, <2>6, <4>1 DEF Sane, Owner, Mine, Busy, Freed, Writing, s
    <3>2. Namer(dir', "w_top", m, ch1)
      BY DEF Namer, Renaming
    <3>3. l.off \in Nat
      BY <1>1, LocalsFields, Numbers
    <3>4. m.done > 0 => m.off <= Len(ch1[s])
      BY <1>2, <2>1, <2>5, <2>6, <3>3 DEF Sane, Grower, s, Writing
    <3>5. Grower(fat', dfat', data', "w_top", m, f, ch1)
      BY <3>4 DEF Grower, Loose, s
    <3> QED
      BY <3>1, <3>2, <3>5 DEF Sane
  <2>8. s \in UsedBy(l, f) /\ Holds("w_top", m, f, s) /\ UsedBy(m, f) = UsedBy(l, f)
    BY <1>3, <2>1 DEF UsedBy, Holds, s
  <2>9. \A r \in Slot \ UsedBy(l, f) : dir'[r] = dir[r] /\ ch1[r] = ch[r]
    BY <1>1, <2>5, <2>8
  <2>10. \A r \in UsedBy(l, f) :
            ~Holds("w_top", m, f, r) /\ (Holds(pc[t], l, f, r) \/ Closed(dir, ch, r)) => Closed(dir', ch1, r)
    BY <1>1, <2>5, <2>8 DEF Holds, Closed, UsedBy
  <2>12. Active(pc[t])
    BY <1>1 DEF Active, Held
  <2>13. \A r \in UsedBy(m, f) : r \in UsedBy(loc[t], file[t]) \/ \A u \in Task \ {t} : r \notin UsedBy(loc[u], file[u])
    BY <2>8
  <2> QED
    BY <1>6, <2>5, <2>7, <2>9, <2>10, <2>12, <2>13, Carries
<1>7. CASE l.at # None \/ (SetFatFails(l.new, EOC) /\ Moves(t, "w_end", l, f))
  <2>1. ch1 = ch
    BY <1>7, Moved DEF TInv
  <2>2. Chains(fat', dfat', ch)
    BY <1>1, <1>3, <1>4, OffChains
  <2>3. CASE SetFat(l.new, EOC) /\ l.at # None /\ Moves(t, "w_link", l, f)
    <3>1. fat'[l.new] = EOC /\ dfat'[l.new] = EOC
      BY <1>3, <2>3 DEF SetFat, TInv, Volume
    <3>2. Sane(fat', dfat', dir', data', "w_link", l, f, ch)
      BY <1>1, <1>2, <1>4, <2>3, <3>1 DEF Sane, Owner, Mine, Busy, Freed, Namer, Renaming, Grower, Loose, Writing
    <3> QED
      BY <1>1, <2>1, <2>2, <2>3, <3>2, Works DEF Active, Held
  <2>4. CASE Moves(t, "w_end", l, f)
    <3>1. Sane(fat', dfat', dir', data', "w_end", l, f, ch)
      BY <1>1, <1>2 DEF Sane, Owner, Mine, Busy, Freed, Namer, Renaming, Grower, Loose, Writing
    <3> QED
      BY <1>1, <2>1, <2>2, <2>4, <3>1, Works DEF Active, Held
  <2> QED
    BY <1>1, <1>7, <2>3, <2>4
<1> QED
  BY <1>1, <1>6, <1>7

\* A step at work on the volume that changes one chain, and keeps it.
LEMMA Reworks ==
    ASSUME TInv, Exclusive, NEW ch, Owned(ch), UNCHANGED dir, NEW ch1,
           NEW t \in Task, NEW s \in UsedBy(loc[t], file[t]), NEW p, NEW l, Moves(t, p, l, file[t]), Active(pc[t]),
           l.slot = loc[t].slot, l.to = loc[t].to, pc[t] = "r_free" => p = "r_free",
           Holds(p, l, file[t], s), \A r \in Slot \ {s} : ch1[r] = ch[r],
           Chains(fat', dfat', ch1), Sane(fat', dfat', dir', data', p, l, file[t], ch1)
    PROVE  Exclusive' /\ Owned(ch1)'
<1>1. UsedBy(l, file[t]) = UsedBy(loc[t], file[t])
  BY DEF UsedBy
<1>2. \A r \in UsedBy(l, file[t]) : r \in UsedBy(loc[t], file[t]) \/ \A u \in Task \ {t} : r \notin UsedBy(loc[u], file[u])
  BY <1>1
<1>3. \A r \in UsedBy(loc[t], file[t]) :
          ~Holds(p, l, file[t], r) /\ (Holds(pc[t], loc[t], file[t], r) \/ Closed(dir, ch, r)) => Closed(dir', ch1, r)
  BY DEF Holds, Closed, UsedBy
<1>4. \A r \in Slot \ UsedBy(loc[t], file[t]) : dir'[r] = dir[r] /\ ch1[r] = ch[r]
  OBVIOUS
<1> QED
  BY <1>2, <1>3, <1>4, Carries

\* The end of a call.
LEMMA Ends ==
    ASSUME TInv, Exclusive, NEW ch, Owned(ch), NEW ch1,
           NEW t \in Task, NEW f, Moves(t, "idle", NoLocals, f), {f.slot} \cap Slot \subseteq UsedBy(loc[t], file[t]),
           \/ Active(pc[t])
           \/ UNCHANGED <<fat, dfat, dir, data>> /\ \A s \in Slot : On(ch1[s]) \subseteq On(ch[s]),
           Chains(fat', dfat', ch1),
           f.slot # None => /\ Starts(ch1[f.slot], f.ino)
                            /\ dir'[f.slot].used => dir'[f.slot].first \in {0, f.ino},
           \A r \in Slot \ UsedBy(loc[t], file[t]) : dir'[r] = dir[r] /\ ch1[r] = ch[r],
           \A r \in UsedBy(loc[t], file[t]) :
               r # f.slot /\ (Holds(pc[t], loc[t], file[t], r) \/ Closed(dir, ch, r)) => Closed(dir', ch1, r)
    PROVE  Exclusive' /\ Owned(ch1)'
<1>1. \A s \in UsedBy(NoLocals, f) : s \in UsedBy(loc[t], file[t]) \/ \A u \in Task \ {t} : s \notin UsedBy(loc[u], file[u])
  BY IdleUse
<1>2. ~Active("idle")
  BY DEF Active, Held, Making
<1>3. Sane(fat', dfat', dir', data', "idle", NoLocals, f, ch1)
  BY IdleSane
<1>4. \A r \in UsedBy(loc[t], file[t]) :
          ~Holds("idle", NoLocals, f, r) /\ (Holds(pc[t], loc[t], file[t], r) \/ Closed(dir, ch, r)) => Closed(dir', ch1, r)
  BY DEF Holds
<1> QED
  BY <1>1, <1>2, <1>3, <1>4, Carries

\* Chains that are given up.
LEMMA Emptier ==
    ASSUME NEW F, NEW D, NEW ch, Chains(F, D, ch), NEW ch1 \in [Slot -> Seq(Cluster)],
           \A s \in Slot : ch1[s] = ch[s] \/ ch1[s] = <<>>
    PROVE  Chains(F, D, ch1)
<1>1. \A s \in Slot : Path(F, ch1[s]) /\ Path(D, ch1[s]) /\ On(ch1[s]) \subseteq On(ch[s])
  BY NoPath DEF Chains
<1> QED
  BY <1>1 DEF Chains

LEMMA WriteLinkOwned ==
    ASSUME TInv, Exclusive, NEW ch, Owned(ch), NEW t \in Task, WriteLink(t), ~torn', NEW ch1,
           ch1 = IF pc'[t] = "w_top" THEN Longer(ch, file[t].slot, loc[t].new) ELSE ch
    PROVE  Exclusive' /\ Owned(ch1)'
<1> DEFINE l == loc[t]
           f == file[t]
           s == f.slot
<1>1. /\ pc[t] = "w_link" /\ UNCHANGED <<dir, data>> /\ l \in Locals /\ f \in Files /\ Fit("w_link", l, f)
      /\ \/ SetFat(l.at, l.new) /\ Moves(t, "w_top", l, f)
         \/ SetFatFails(l.at, l.new) /\ Moves(t, "w_undo", l, f) /\ dfat' = dfat
  BY Still DEF TInv, WriteLink, Moves, Goto, Set
<1>2. Sane(fat, dfat, dir, data, "w_link", l, f, ch)
  BY <1>1 DEF Owned
<1>3. l.new \in Cluster /\ s \in Slot /\ s # None /\ l.at # None /\ l.off \in Nat /\ l.done \in Nat
  BY <1>1, LocalsFields, FilesFields, Numbers DEF Fit, Writing
<1>4. /\ fat[l.new] = EOC /\ dfat[l.new] = EOC /\ \A r \in Slot : l.new \notin On(ch[r])
      /\ ch[s] # <<>> /\ l.at = ch[s][Len(ch[s])]
  BY <1>2, <1>3 DEF Sane, Grower, Loose
<1>5. s \in UsedBy(l, f)
  BY <1>3 DEF UsedBy
<1>6. CASE SetFat(l.at, l.new) /\ Moves(t, "w_top", l, f)
  <2>1. ch1 = Longer(ch, s, l.new)
    BY <1>6, Moved DEF TInv
  <2>2. Lengthens(ch, s, l.new)
    BY <1>4, <1>6 DEF Lengthens
  <2> HIDE DEF s, l, f
  <2>3. /\ Chains(fat', dfat', ch1)
        /\ Len(ch1[s]) = Len(ch[s]) + 1 /\ Len(ch[s]) \in Nat
        /\ \A i \in 1 .. Len(ch[s]) : ch1[s][i] = ch[s][i]
        /\ \A r \in Slot \ {s} : ch1[r] = ch[r]
    BY <1>3, <1>4, <2>1, <2>2, LongerChains
  <2>4. Len(ch[s]) # 0
    BY <1>3, <1>4, PathElements DEF Owned, Chains
  <2>5. ch1[s] # <<>> /\ ch1[s][1] = ch[s][1]
    <3>1. 1 \in 1 .. Len(ch[s]) /\ Len(ch1[s]) # 0
      BY <2>3, <2>4
    <3> QED
      BY <2>3, <3>1
  <2>6. Sane(fat', dfat', dir', data', "w_top", l, f, ch1)
    <3>1. Owner(dir', "w_top", l, f, ch1)
      BY <1>1, <1>2, <1>3, <1>4, <2>5 DEF Sane, Owner, Mine, Busy, Freed, Writing, s, Starts
    <3>2. Namer(dir', "w_top", l, ch1)
      BY DEF Namer, Renaming
    <3>3. l.done > 0 => l.off <= Len(ch1[s])
      BY <1>2, <1>3, <2>3 DEF Sane, Grower, s, Writing
    <3>4. Grower(fat', dfat', data', "w_top", l, f, ch1)
      BY <3>3 DEF Grower, Loose, s
    <3> QED
      BY <3>1, <3>2, <3>4 DEF Sane
  <2>7. Holds("w_top", l, f, s)
    BY DEF Holds, s
  <2> QED
    <3>1. UNCHANGED dir /\ s \in UsedBy(loc[t], file[t]) /\ Active(pc[t]) /\ pc[t] # "r_free"
      BY <1>1, <1>5 DEF Active, Held, l, f
    <3>2. /\ Moves(t, "w_top", loc[t], file[t]) /\ Holds("w_top", loc[t], file[t], s)
          /\ Sane(fat', dfat', dir', data', "w_top", loc[t], file[t], ch1)
      BY <1>6, <2>6, <2>7 DEF l, f
    <3>3. Chains(fat', dfat', ch1) /\ \A r \in Slot \ {s} : ch1[r] = ch[r]
      BY <2>3
    <3>4. TInv /\ Exclusive /\ Owned(ch) /\ (pc[t] = "r_free" => "w_top" = "r_free") /\ t \in Task
      BY <3>1
    <3> QED
      BY ONLY <3>1, <3>2, <3>3, <3>4, Reworks
<1>7. CASE SetFatFails(l.at, l.new) /\ Moves(t, "w_undo", l, f) /\ dfat' = dfat
  <2>1. ch1 = ch
    BY <1>7, Moved DEF TInv
  <2>2. fat' = fat
    BY <1>7 DEF SetFatFails
  <2>3. Chains(fat', dfat', ch)
    BY <1>7, <2>2 DEF Owned
  <2>4. Sane(fat', dfat', dir', data', "w_undo", l, f, ch)
    BY <1>1, <1>2, <1>7, <2>2 DEF Sane, Owner, Mine, Busy, Freed, Namer, Renaming, Grower, Loose, Writing
  <2> QED
    BY <1>1, <1>7, <2>1, <2>3, <2>4, Works DEF Active, Held
<1> QED
  BY <1>1, <1>6, <1>7

LEMMA WriteUndoOwned ==
    ASSUME TInv, Exclusive, NEW ch, Owned(ch), NEW t \in Task, WriteUndo(t)
    PROVE  Exclusive' /\ Owned(ch)'
<1> DEFINE l == loc[t]
           f == file[t]
<1>1. /\ pc[t] = "w_undo" /\ UNCHANGED <<dir, data>> /\ l \in Locals /\ Fit("w_undo", l, f)
      /\ (SetFat(l.new, Free) \/ SetFatFails(l.new, Free)) /\ Moves(t, "w_end", l, f)
  BY Still DEF TInv, WriteUndo, Moves, Goto
<1>2. Sane(fat, dfat, dir, data, "w_undo", l, f, ch)
  BY <1>1 DEF Owned
<1>3. l.new \in Cluster /\ \A r \in Slot : l.new \notin On(ch[r])
  BY <1>1, <1>2, LocalsFields DEF Fit, Sane, Grower, Loose
<1>4. Chains(fat', dfat', ch)
  BY <1>1, <1>3, OffChains
<1>5. Sane(fat', dfat', dir', data', "w_end", l, f, ch)
  BY <1>1, <1>2 DEF Sane, Owner, Mine, Busy, Freed, Namer, Renaming, Grower, Loose, Writing
<1> QED
  BY <1>1, <1>4, <1>5, Works DEF Active, Held

LEMMA WriteDataOwned ==
    ASSUME TInv, Exclusive, NEW ch, Owned(ch), NEW t \in Task, WriteData(t)
    PROVE  Exclusive' /\ Owned(ch)'
<1> DEFINE l == loc[t]
           f == file[t]
           m == Stepped(l)
           p == IF l.left = 1 THEN "w_end" ELSE "w_top"
<1>1. /\ pc[t] = "w_data" /\ UNCHANGED <<fat, dfat, dir>> /\ l \in Locals /\ f \in Files /\ Fit("w_data", l, f)
      /\ \/ Moves(t, p, m, f)
         \/ Moves(t, "w_end", l, f)
  BY Still DEF TInv, WriteData, Moves, Goto, Set, Stepped
<1>2. Sane(fat, dfat, dir, data, "w_data", l, f, ch)
  BY <1>1 DEF Owned
<1>3. Chains(fat', dfat', ch)
  BY <1>1 DEF Owned
<1>4. p \in {"w_end", "w_top"}
  OBVIOUS
<1> HIDE DEF p
<1>5. CASE Moves(t, p, m, f)
  <2>1. l.left >= 1 /\ l.off < MaxSize /\ l.done < MaxSize
    <3>1. /\ l.off \in 0 .. MaxSize /\ l.left \in 0 .. MaxSize /\ l.done \in 0 .. MaxSize /\ f.pos \in 0 .. MaxSize
      BY <1>1, LocalsFields, FilesFields
    <3>2. l.left >= 1 /\ l.off + l.left <= MaxSize /\ l.off = f.pos + l.done
      BY <1>1 DEF Fit, Writing
    <3> QED
      BY <3>1, <3>2, Numbers
  <2>2. /\ m \in Locals /\ m.off = l.off + 1 /\ m.cur = l.cur /\ m.slot = l.slot /\ m.to = l.to /\ m.freed = l.freed
    BY <1>1, <2>1, DataLocals
  <2> HIDE DEF m
  <2>3. m.off <= Len(ch[f.slot])
    BY <1>2, <2>2 DEF Sane, Grower
  <2>4. Owner(dir', p, m, f, ch)
    BY <1>1, <1>2, <1>4, <2>2 DEF Sane, Owner, Mine, Busy, Freed, Writing
  <2>5. Namer(dir', p, m, ch) /\ Grower(fat', dfat', data', p, m, f, ch)
    BY <1>4, <2>3 DEF Namer, Renaming, Grower, Loose
  <2> QED
    BY <1>1, <1>3, <1>5, <2>2, <2>4, <2>5, Works DEF Sane, Active, Held
<1>6. CASE Moves(t, "w_end", l, f)
  <2>1. Sane(fat', dfat', dir', data', "w_end", l, f, ch)
    BY <1>1, <1>2 DEF Sane, Owner, Mine, Busy, Freed, Namer, Renaming, Grower, Loose, Writing
  <2> QED
    BY <1>1, <1>3, <1>6, <2>1, Works DEF Active, Held
<1> QED
  BY <1>1, <1>5, <1>6

\* The chain of s is given up unless a record or an open file names it.
Shut(ch, s, c) == [ch EXCEPT ![s] = IF c = 0 THEN <<>> ELSE ch[s]]

LEMMA ShutChains ==
    ASSUME NEW F, NEW D, NEW ch, Chains(F, D, ch), NEW s \in Slot, NEW c, NEW ch1, ch1 = Shut(ch, s, c)
    PROVE  /\ Chains(F, D, ch1) /\ \A r \in Slot \ {s} : ch1[r] = ch[r]
           /\ c = 0 => ch1[s] = <<>>
           /\ c # 0 => ch1[s] = ch[s]
           /\ \A r \in Slot : On(ch1[r]) \subseteq On(ch[r])
<1>1. /\ ch1 \in [Slot -> Seq(Cluster)] /\ \A r \in Slot \ {s} : ch1[r] = ch[r]
      /\ c = 0 => ch1[s] = <<>>
      /\ c # 0 => ch1[s] = ch[s]
  BY DEF Chains, Shut
<1>2. \A r \in Slot : ch1[r] = ch[r] \/ ch1[r] = <<>>
  BY <1>1
<1> QED
  BY <1>1, <1>2, Emptier, NoPath

LEMMA CloseOwned ==
    ASSUME TInv, Exclusive, NEW ch, Owned(ch), NEW t \in Task, Close(t), NEW ch1,
           ch1 = Shut(ch, file[t].slot, IF dir[file[t].slot].used THEN dir[file[t].slot].first ELSE 0)
    PROVE  Exclusive' /\ Owned(ch1)'
<1> DEFINE f == file[t]
           s == f.slot
           c == IF dir[s].used THEN dir[s].first ELSE 0
<1>1. /\ pc[t] = "idle" /\ s # None /\ f \in Files /\ UNCHANGED <<fat, dfat, dir, data>>
  BY Still DEF TInv, Close, disk
<1>2. loc[t] = NoLocals /\ s \in Slot
  BY <1>1, Still, FilesFields DEF TInv, Fit
<1>3. Moves(t, "idle", NoLocals, NoFile)
  BY <1>1, <1>2, Still DEF TInv, Close, Moves
<1>4. Chains(fat, dfat, ch)
  BY DEF Owned
<1>5. ch1 = Shut(ch, s, c)
  OBVIOUS
<1>6. Starts(ch[s], f.ino) /\ c \in {0, f.ino}
  <2>1. Owner(dir, "idle", NoLocals, f, ch)
    BY <1>1, <1>2 DEF Owned, Sane
  <2> QED
    BY <1>1, <2>1 DEF Owner, Mine, Busy, Freed
<1>7. c = IF dir[s].used THEN dir[s].first ELSE 0
  OBVIOUS
<1> HIDE DEF c
<1>8. /\ Chains(fat', dfat', ch1) /\ \A r \in Slot \ {s} : ch1[r] = ch[r]
      /\ c = 0 => ch1[s] = <<>>
      /\ c # 0 => ch1[s] = ch[s]
      /\ \A r \in Slot : On(ch1[r]) \subseteq On(ch[r])
  <2>1. /\ Chains(fat, dfat, ch1) /\ \A r \in Slot \ {s} : ch1[r] = ch[r]
        /\ c = 0 => ch1[s] = <<>>
        /\ c # 0 => ch1[s] = ch[s]
        /\ \A r \in Slot : On(ch1[r]) \subseteq On(ch[r])
    <3> HIDE DEF s
    <3> QED
      BY <1>2, <1>4, <1>5, ShutChains
  <2> QED
    BY <1>1, <2>1
<1>9. Closed(dir', ch1, s)
  BY <1>1, <1>6, <1>7, <1>8, Numbers DEF Closed, Starts
<1>10. UsedBy(loc[t], f) = {s}
  BY <1>2, IdleUse
<1>11. NoFile.slot = None /\ {NoFile.slot} \cap Slot \subseteq UsedBy(loc[t], f)
  BY FatAssumption DEF NoFile
<1>12. \A r \in Slot \ UsedBy(loc[t], f) : dir'[r] = dir[r] /\ ch1[r] = ch[r]
  BY <1>1, <1>8, <1>10
<1>13. \A r \in UsedBy(loc[t], f) :
          r # NoFile.slot /\ (Holds(pc[t], loc[t], f, r) \/ Closed(dir, ch, r)) => Closed(dir', ch1, r)
  BY <1>9, <1>10
<1> QED
  BY <1>1, <1>3, <1>8, <1>11, <1>12, <1>13, Ends

\* A call that holds the lock and returns, with the file as it is.
LEMMA LeavesOwned ==
    ASSUME TInv, Exclusive, NEW ch, Owned(ch), UNCHANGED <<dir, file>>, NEW ch1,
           NEW t \in Task, Return(t), Active(pc[t]), Chains(fat', dfat', ch1),
           file[t].slot # None =>
               /\ Starts(ch1[file[t].slot], file[t].ino)
               /\ dir[file[t].slot].used => dir[file[t].slot].first \in {0, file[t].ino},
           pc[t] = "r_free" => Closed(dir, ch1, loc[t].slot),
           \A r \in Slot : ch1[r] # ch[r] => r = file[t].slot \/ (pc[t] = "r_free" /\ r = loc[t].slot)
    PROVE  Exclusive' /\ Owned(ch1)'
<1>1. Moves(t, "idle", NoLocals, file[t])
  BY Still DEF TInv, Moves, Return, Goto, Set
<1>2. {file[t].slot} \cap Slot \subseteq UsedBy(loc[t], file[t])
  BY DEF UsedBy
<1>3. \A r \in Slot \ UsedBy(loc[t], file[t]) : dir'[r] = dir[r] /\ ch1[r] = ch[r]
  BY DEF UsedBy
<1>4. \A r \in UsedBy(loc[t], file[t]) :
          r # file[t].slot /\ (Holds(pc[t], loc[t], file[t], r) \/ Closed(dir, ch, r)) => Closed(dir', ch1, r)
  <2> TAKE r \in UsedBy(loc[t], file[t])
  <2> HAVE r # file[t].slot /\ (Holds(pc[t], loc[t], file[t], r) \/ Closed(dir, ch, r))
  <2>1. r \in Slot
    BY DEF UsedBy
  <2>2. CASE pc[t] = "r_free" /\ r = loc[t].slot
    BY <2>2 DEF Closed
  <2>3. CASE ~(pc[t] = "r_free" /\ r = loc[t].slot)
    BY <2>1, <2>3 DEF Holds, Closed
  <2> QED
    BY <2>2, <2>3
<1>5. dir' = dir
  OBVIOUS
<1> QED
  BY <1>1, <1>2, <1>3, <1>4, <1>5, Ends

LEMMA WriteEndOwned ==
    ASSUME TInv, Exclusive, NEW ch, Owned(ch), NEW t \in Task, WriteEnd(t), NEW ch1,
           ch1 = IF loc[t].done = 0 THEN Shut(ch, file[t].slot, file[t].ino) ELSE ch
    PROVE  Exclusive' /\ Owned(ch1)'
<1> DEFINE l == loc[t]
           f == file[t]
           s == f.slot
<1>1. /\ pc[t] = "w_end" /\ UNCHANGED <<fat, dfat, dir, data>> /\ l \in Locals /\ f \in Files
      /\ \/ l.done = 0 /\ Return(t) /\ UNCHANGED file
         \/ l.done # 0 /\ Moves(t, "w_dir", [l EXCEPT !.buf = dir], Ended(t)) /\ Ended(t) \in Files
  BY WriteEndIs, Still DEF TInv, Leave, disk
<1>2. Sane(fat, dfat, dir, data, "w_end", l, f, ch)
  BY <1>1 DEF Owned
<1>3. s \in Slot /\ s # None
  <2>1. Fit("w_end", l, f)
    BY <1>1, Still DEF TInv
  <2> QED
    BY <1>1, <2>1, FilesFields DEF Fit, Writing
<1>4. Chains(fat, dfat, ch)
  BY DEF Owned
<1>5. /\ Starts(ch[s], l.cur) /\ (l.cur = f.ino \/ f.ino = 0) /\ ~l.freed
      /\ dir[s].used => dir[s].first \in {0, f.ino}
  BY <1>2, <1>3 DEF Sane, Owner, Mine, Busy, Writing, Freed
<1>6. CASE l.done = 0 /\ Return(t) /\ UNCHANGED file
  <2>1. /\ Chains(fat', dfat', ch1) /\ \A r \in Slot \ {s} : ch1[r] = ch[r]
        /\ f.ino = 0 => ch1[s] = <<>>
        /\ f.ino # 0 => ch1[s] = ch[s]
    BY <1>1, <1>3, <1>4, <1>6, ShutChains
  <2>2. Starts(ch1[s], f.ino)
    BY <1>5, <2>1, Numbers DEF Starts
  <2> QED
    BY <1>1, <1>3, <1>5, <1>6, <2>1, <2>2, LeavesOwned DEF Active, Held
<1>7. CASE l.done # 0 /\ Moves(t, "w_dir", [l EXCEPT !.buf = dir], Ended(t)) /\ Ended(t) \in Files
  <2> DEFINE m == [l EXCEPT !.buf = dir]
  <2>1. dir \in [Slot -> Entry]
    BY DEF TInv, Volume
  <2>2. /\ m \in Locals /\ m.buf = dir /\ m.off = l.off /\ m.done = l.done
        /\ m.cur = l.cur /\ m.slot = l.slot /\ m.to = l.to /\ m.freed = l.freed
    BY <1>1, <2>1, SetBuf
  <2>3. Moves(t, "w_dir", m, Ended(t)) /\ ch1 = ch
    BY <1>7
  <2> HIDE DEF m
  <2>4. Ended(t).slot = s /\ Ended(t).ino = l.cur
    BY DEF Ended
  <2>5. Sane(fat, dfat, dir, data, "w_dir", m, Ended(t), ch)
    <3>1. Owner(dir, "w_dir", m, Ended(t), ch)
      BY <1>5, <2>2, <2>4 DEF Owner, Mine, Busy, Freed, Writing
    <3>2. Namer(dir, "w_dir", m, ch)
      BY <2>2 DEF Namer, Renaming
    <3>3. Grower(fat, dfat, data, "w_dir", m, Ended(t), ch)
      BY <1>2, <2>2, <2>4 DEF Sane, Grower, Loose, Writing
    <3> QED
      BY <3>1, <3>2, <3>3 DEF Sane
  <2>6. UsedBy(m, Ended(t)) = UsedBy(l, f)
    BY <2>2, <2>4 DEF UsedBy
  <2>7. \A r \in UsedBy(m, Ended(t)) : r \in UsedBy(loc[t], file[t]) \/ \A u \in Task \ {t} : r \notin UsedBy(loc[u], file[u])
    BY <2>6
  <2>8. \A r \in Slot : Holds(pc[t], l, f, r) => Holds("w_dir", m, Ended(t), r)
    BY <1>1, <2>4 DEF Holds
  <2>9. Active(pc[t])
    BY <1>1 DEF Active, Held
  <2> QED
    BY <1>1, <2>3, <2>5, <2>7, <2>8, <2>9, Local
<1> QED
  BY <1>1, <1>6, <1>7

LEMMA WriteDirOwned ==
    ASSUME TInv, Exclusive, NEW ch, Owned(ch), NEW t \in Task, WriteDir(t)
    PROVE  Exclusive' /\ Owned(ch)'
<1> DEFINE f == file[t]
           l == loc[t]
           s == f.slot
           entry == [l.buf[s] EXCEPT !.first = f.ino, !.size = f.size]
           named == [l.buf EXCEPT ![s] = entry]
           g == [f EXCEPT !.pos = f.pos + l.done]
<1>1. /\ pc[t] = "w_dir" /\ l \in Locals /\ f \in Files /\ Return(t) /\ UNCHANGED <<fat, dfat, data>>
      /\ \/ dir' = named /\ file' = [file EXCEPT ![t] = g]
         \/ dir' \in {dir, named} /\ UNCHANGED file
  BY Still DEF TInv, WriteDir, InDoubt, Leave
<1>2. Sane(fat, dfat, dir, data, "w_dir", l, f, ch)
  BY <1>1 DEF Owned
<1>3. s \in Slot /\ s # None
  <2>1. Fit("w_dir", l, f)
    BY <1>1, Still DEF TInv
  <2> QED
    BY <1>1, <2>1, FilesFields DEF Fit, Writing
<1>4. Chains(fat', dfat', ch) /\ Active(pc[t])
  BY <1>1 DEF Owned, Active, Held
<1>5. /\ Starts(ch[s], f.ino) /\ l.buf = dir
      /\ dir[s].used => dir[s].first \in {0, f.ino}
  BY <1>2, <1>3 DEF Sane, Owner, Namer, Mine, Busy, Writing, Freed
<1>6. CASE UNCHANGED <<dir, file>>
  BY <1>1, <1>4, <1>5, <1>6, LeavesOwned
<1>7. ASSUME dir' = named, NEW h, h.slot = s, h.ino = f.ino, file' = [file EXCEPT ![t] = h]
      PROVE  Exclusive' /\ Owned(ch)'
  <2>1. entry.first = f.ino /\ dir \in [Slot -> Entry]
    BY <1>3, <1>5 DEF TInv, Volume, Entry
  <2>3. Moves(t, "idle", NoLocals, h)
    BY <1>1, <1>7 DEF Moves, Return, Goto, Set
  <2> HIDE DEF entry
  <2>4. dir'[s].first = f.ino /\ \A r \in Slot \ {s} : dir'[r] = dir[r]
    BY <1>3, <1>5, <1>7, <2>1
  <2>5. s \in UsedBy(l, f)
    BY <1>3 DEF UsedBy
  <2>6. {h.slot} \cap Slot \subseteq UsedBy(l, f)
    BY <1>7, <2>5
  <2>7. \A r \in Slot \ UsedBy(l, f) : dir'[r] = dir[r] /\ ch[r] = ch[r]
    BY <2>4, <2>5
  <2>8. \A r \in UsedBy(l, f) : r # h.slot /\ (Holds(pc[t], l, f, r) \/ Closed(dir, ch, r)) => Closed(dir', ch, r)
    BY <1>1, <1>7, <2>4 DEF Holds, Closed, UsedBy
  <2>9. h.slot # None => Starts(ch[h.slot], h.ino) /\ (dir'[h.slot].used => dir'[h.slot].first \in {0, h.ino})
    BY <1>5, <1>7, <2>4
  <2> QED
    BY <1>4, <2>3, <2>6, <2>7, <2>8, <2>9, Ends
<1>8. CASE dir' = named /\ file' = [file EXCEPT ![t] = g]
  <2>1. g.slot = s /\ g.ino = f.ino
    BY <1>1 DEF Files
  <2> HIDE DEF g, named
  <2> QED
    BY <1>7, <1>8, <2>1
<1>9. CASE dir' = named /\ UNCHANGED file
  <2>1. file' = [file EXCEPT ![t] = f]
    BY <1>9, Still DEF TInv
  <2> HIDE DEF named
  <2> QED
    BY <1>7, <1>9, <2>1
<1> QED
  BY <1>1, <1>6, <1>8, <1>9

LEMMA TruncateOwned ==
    ASSUME TInv, Exclusive, NEW ch, Owned(ch), NEW t \in Task, Truncate(t)
    PROVE  Exclusive' /\ Owned(ch)'
<1> DEFINE f == file[t]
           l == TruncateCall(f)
<1>1. /\ Moves(t, "t_lock", l, f) /\ pc[t] = "idle" /\ f.slot # None /\ f \in Files
      /\ UNCHANGED <<fat, dfat, dir, data>>
  BY Still DEF TInv, Truncate, Moves, Goto, Set, TruncateCall, disk
<1>2. loc[t] = NoLocals
  BY <1>1, Still DEF TInv, Fit
<1>3. Owner(dir, "idle", loc[t], f, ch)
  BY <1>1 DEF Owned, Sane
<1> HIDE DEF f
<1>4. l.slot = None /\ l.to = None /\ l.cur = f.ino /\ l.freed = FALSE
  BY <1>1, TruncateLocals, NoLocalsFields
<1> HIDE DEF l
<1>5. Sane(fat, dfat, dir, data, "t_lock", l, f, ch)
  <2>1. Owner(dir, "t_lock", l, f, ch)
    BY <1>3, <1>4 DEF Owner, Mine, Busy, Freed, Writing, Cutting
  <2>2. Namer(dir, "t_lock", l, ch) /\ Grower(fat, dfat, data, "t_lock", l, f, ch)
    BY DEF Namer, Renaming, Grower, Loose, Writing
  <2> QED
    BY <2>1, <2>2 DEF Sane
<1>6. l.slot = loc[t].slot /\ l.to = loc[t].to
  BY <1>2, <1>4, NoLocalsFields
<1>7. ~Active("t_lock")
  BY DEF Active, Held, Making
<1> QED
  BY <1>1, <1>5, <1>6, <1>7, Goes DEF f
\* The first cluster of a chain is given back.
Shorter(ch, s) == [ch EXCEPT ![s] = Tail(ch[s])]

LEMMA ShorterChains ==
    ASSUME TInv, NEW ch, Owned(ch), NEW s \in Slot, ch[s] # <<>>, NEW v \in Links, SetFat(ch[s][1], v), NEW ch1, ch1 = Shorter(ch, s)
    PROVE  /\ Chains(fat', dfat', ch1) /\ \A r \in Slot \ {s} : ch1[r] = ch[r]
           /\ On(ch[s]) = On(ch1[s]) \cup {ch[s][1]} /\ ch[s][1] \notin On(ch1[s])
           /\ Starts(ch1[s], fat[ch[s][1]])
<1> DEFINE c == ch[s][1]
<1>1. /\ fat \in [Cluster -> Links] /\ dfat \in [Cluster -> Links]
      /\ ch \in [Slot -> Seq(Cluster)] /\ \A r \in Slot : Path(fat, ch[r]) /\ Path(dfat, ch[r])
      /\ \A r, q \in Slot : r # q => On(ch[r]) \cap On(ch[q]) = {}
  BY DEF TInv, Volume, Owned, Chains
<1>2. ch1[s] = Tail(ch[s]) /\ \A r \in Slot \ {s} : ch1[r] = ch[r]
  BY <1>1 DEF Shorter
<1>3. fat' = [fat EXCEPT ![c] = v] /\ dfat' = [dfat EXCEPT ![c] = v]
  BY DEF SetFat
<1>4. /\ c \in Cluster /\ On(ch[s]) = On(ch1[s]) \cup {c} /\ c \notin On(ch1[s]) /\ Starts(ch1[s], fat[c])
  BY <1>1, <1>2, PathShorter
<1>5. Path([fat EXCEPT ![c] = v], ch1[s])
  <2>1. Path(fat, ch[s]) /\ fat \in [Cluster -> Links]
    BY <1>1
  <2>2. Path([fat EXCEPT ![ch[s][1]] = v], Tail(ch[s]))
    BY <2>1, PathTail
  <2> QED
    BY <1>2, <2>2
<1>6. Path([dfat EXCEPT ![c] = v], ch1[s])
  <2>1. Path(dfat, ch[s]) /\ dfat \in [Cluster -> Links]
    BY <1>1
  <2>2. Path([dfat EXCEPT ![ch[s][1]] = v], Tail(ch[s]))
    BY <2>1, PathTail
  <2> QED
    BY <1>2, <2>2
<1> HIDE DEF c
<1>7. \A r \in Slot \ {s} : Path(fat', ch1[r]) /\ Path(dfat', ch1[r])
  <2> TAKE r \in Slot \ {s}
  <2>1. c \notin On(ch[r])
    BY <1>1, <1>4
  <2>2. Path([fat EXCEPT ![c] = v], ch[r])
    BY <1>1, <1>4, <2>1, PathKept
  <2>3. Path([dfat EXCEPT ![c] = v], ch[r])
    BY <1>1, <1>4, <2>1, PathKept
  <2> QED
    BY <1>2, <1>3, <2>2, <2>3
<1>8. ch1 \in [Slot -> Seq(Cluster)]
  <2>1. \A r \in Slot : ch1[r] \in Seq(Cluster)
    BY <1>1, <1>2, <1>5 DEF Path
  <2> QED
    BY <1>1, <2>1 DEF Shorter
<1>9. \A r \in Slot : On(ch1[r]) \subseteq On(ch[r])
  BY <1>2, <1>4
<1>10. Chains(fat', dfat', ch1)
  BY <1>1, <1>3, <1>5, <1>6, <1>7, <1>8, <1>9 DEF Chains
<1> QED
  BY <1>2, <1>4, <1>10 DEF c

\* The chain that a truncate or an unlink gives back.
FreeSlot(t) == IF pc[t] = "t_free" THEN file[t].slot ELSE loc[t].slot

LEMMA FreeOneOwned ==
    ASSUME TInv, Exclusive, NEW ch, Owned(ch), NEW t \in Task, FreeOne(t), ~torn', NEW ch1,
           ch1 = IF pc'[t] # "idle" THEN Shorter(ch, FreeSlot(t))
                 ELSE IF pc[t] = "r_free" THEN Shut(ch, FreeSlot(t), 0) ELSE ch
    PROVE  Exclusive' /\ Owned(ch1)'
<1> DEFINE l == loc[t]
           f == file[t]
           p == pc[t]
           s == FreeSlot(t)
           m == FreedTo(l, fat[l.cur])
<1>1. /\ p \in {"t_free", "r_free"} /\ l.cur \in Cluster /\ l \in Locals /\ f \in Files /\ Fit(p, l, f)
      /\ UNCHANGED <<dir, data, file>>
      /\ \/ SetFat(l.cur, Free) /\ Moves(t, p, m, f)
         \/ /\ SetFatFails(l.cur, Free) /\ Return(t)
            /\ torn' = (torn \/ (p = "t_free" /\ (l.freed \/ dfat' # dfat)))
  BY Still DEF TInv, FreeOne, Valid, Moves, Goto, Set, FreedTo, Leave
<1>2. Sane(fat, dfat, dir, data, p, l, f, ch)
  BY DEF Owned
<1>3. /\ s \in Slot /\ s \in UsedBy(l, f) /\ Starts(ch[s], l.cur)
      /\ p = "t_free" => s = f.slot /\ f.slot # None
      /\ p = "r_free" => s = l.slot /\ l.slot # None
  <2>1. /\ p = "t_free" => f.slot # None /\ f.slot \in Slot
        /\ p = "r_free" => l.slot # None /\ l.slot \in Slot
    BY <1>1, LocalsFields, FilesFields DEF Fit, Cutting, Removing
  <2> QED
    BY <1>1, <1>2, <2>1 DEF FreeSlot, UsedBy, Sane, Owner, Namer, Mine, Busy
<1>4. ch[s] # <<>> /\ ch[s][1] = l.cur
  BY <1>1, <1>3 DEF Starts
<1>5. Active(p) /\ p # "idle"
  BY <1>1 DEF Active, Held
<1>6. s = FreeSlot(t) /\ p = pc[t] /\ f = file[t] /\ l = loc[t]
  OBVIOUS
<1> HIDE DEF s, p, f, l
<1>7. CASE SetFat(l.cur, Free) /\ Moves(t, p, m, f)
  <2>1. fat[l.cur] \in Links
    BY <1>1 DEF TInv, Volume
  <2>2. m \in Locals /\ m.cur = fat[l.cur] /\ m.freed = TRUE /\ m.slot = l.slot /\ m.to = l.to
    BY <1>1, <2>1, FreeLocals
  <2> HIDE DEF m
  <2>3. ch1 = Shorter(ch, s)
    <3>1. pc'[t] = p
      BY <1>7, Moved DEF TInv
    <3> QED
      BY <1>5, <1>6, <3>1
  <2>4. SetFat(ch[s][1], Free) /\ Free \in Links
    BY <1>4, <1>7 DEF Links
  <2>5. /\ Chains(fat', dfat', ch1) /\ \A r \in Slot \ {s} : ch1[r] = ch[r]
        /\ Starts(ch1[s], fat[ch[s][1]])
    BY <1>3, <1>4, <2>3, <2>4, ShorterChains
  <2>6. Owner(dir', p, m, f, ch1)
    <3>1. CASE p = "t_free"
      BY <1>1, <1>2, <1>3, <1>4, <2>2, <2>5, <3>1 DEF Sane, Owner, Mine, Busy, Freed, Writing
    <3>2. CASE p = "r_free"
      BY <1>2, <3>2 DEF Sane, Owner, Writing, Cutting
    <3> QED
      BY <1>1, <3>1, <3>2
  <2>7. Namer(dir', p, m, ch1)
    BY <1>1, <1>2, <1>3, <1>4, <2>2, <2>5 DEF Sane, Namer, Renaming
  <2>8. Grower(fat', dfat', data', p, m, f, ch1)
    BY <1>1 DEF Grower, Loose, Writing
  <2>9. Holds(p, m, f, s)
    BY <1>1, <1>3, <2>2 DEF Holds
  <2>10. Sane(fat', dfat', dir', data', p, m, f, ch1)
    BY <2>6, <2>7, <2>8 DEF Sane
  <2>11. UNCHANGED dir /\ s \in UsedBy(loc[t], file[t]) /\ Active(pc[t]) /\ (pc[t] = "r_free" => p = "r_free")
    BY <1>1, <1>3, <1>5, <1>6
  <2>12. /\ Moves(t, p, m, file[t]) /\ m.slot = loc[t].slot /\ m.to = loc[t].to
         /\ Holds(p, m, file[t], s) /\ Sane(fat', dfat', dir', data', p, m, file[t], ch1)
    BY <1>6, <1>7, <2>2, <2>9, <2>10
  <2> QED
    BY <2>5, <2>11, <2>12, Reworks
<1>8. CASE /\ SetFatFails(l.cur, Free) /\ Return(t)
           /\ torn' = (torn \/ (p = "t_free" /\ (l.freed \/ dfat' # dfat)))
  <2>1. pc'[t] = "idle" /\ fat' = fat
    BY <1>8 DEF SetFatFails, Return, Goto, TInv, Tasks
  <2>2. CASE p = "t_free"
    <3>1. ch1 = ch /\ ~l.freed /\ dfat' = dfat
      BY <1>6, <1>8, <2>1, <2>2
    <3>2. Chains(fat', dfat', ch)
      BY <2>1, <3>1 DEF Owned
    <3>3. Starts(ch[f.slot], f.ino) /\ (dir[f.slot].used => dir[f.slot].first \in {0, f.ino})
      BY <1>2, <1>3, <2>2, <3>1 DEF Sane, Owner, Mine, Busy, Freed
    <3>4. UNCHANGED <<dir, file>> /\ Return(t) /\ Active(pc[t]) /\ pc[t] # "r_free"
      BY <1>1, <1>5, <1>6, <1>8, <2>2
    <3>5. file[t].slot # None =>
             /\ Starts(ch[file[t].slot], file[t].ino)
             /\ dir[file[t].slot].used => dir[file[t].slot].first \in {0, file[t].ino}
      BY <1>6, <3>3
    <3> QED
      BY <3>1, <3>2, <3>4, <3>5, LeavesOwned
  <2>3. CASE p = "r_free"
    <3>1. ch1 = Shut(ch, s, 0)
      BY <1>6, <2>1, <2>3
    <3>2. Chains(fat, fat, ch) /\ ch \in [Slot -> Seq(Cluster)]
      BY DEF Owned, Chains
    <3>3. ch1[s] = <<>> /\ \A r \in Slot \ {s} : ch1[r] = ch[r]
      BY <1>3, <3>1, <3>2 DEF Shut
    <3>4. Chains(fat', dfat', ch1)
      <4>1. dfat' = dfat \/ dfat' = [dfat EXCEPT ![l.cur] = Free]
        BY <1>8 DEF SetFatFails
      <4>2. Chains(fat, dfat, ch1)
        BY <1>3, <3>1, ShutChains DEF Owned
      <4>3. \A r \in Slot : l.cur \notin On(ch1[r])
        <5>1. l.cur \in On(ch[s])
          BY <1>3, <1>4, PathShorter DEF Owned, Chains, TInv, Volume
        <5> QED
          BY <1>3, <3>3, <5>1, NoPath DEF Owned, Chains
      <4>4. \A r \in Slot : Path([dfat EXCEPT ![l.cur] = Free], ch1[r])
        BY <1>1, <4>2, <4>3, PathKept DEF TInv, Volume, Chains
      <4> QED
        BY <2>1, <4>1, <4>2, <4>4 DEF Chains
    <3>5. Closed(dir, ch1, l.slot)
      BY <1>2, <1>3, <2>3, <3>3, Numbers DEF Sane, Namer, Closed, Starts
    <3>6. f.slot = None
      BY <1>2, <2>3 DEF Sane, Owner, Writing, Cutting
    <3>7. UNCHANGED <<dir, file>> /\ Return(t) /\ Active(pc[t])
      BY <1>1, <1>5, <1>6, <1>8
    <3>8. /\ file[t].slot = None /\ pc[t] = "r_free" /\ Closed(dir, ch1, loc[t].slot)
          /\ \A r \in Slot : ch1[r] # ch[r] => r = loc[t].slot
      BY <1>3, <1>6, <2>3, <3>3, <3>5, <3>6
    <3> QED
      BY <3>4, <3>7, <3>8, LeavesOwned
  <2> QED
    BY <1>1, <2>2, <2>3
<1> QED
  BY <1>1, <1>7, <1>8

\* A call that reads the directory it is about to write.
LEMMA ReadOwned ==
    ASSUME TInv, Exclusive, NEW ch, Owned(ch), NEW t \in Task, UNCHANGED <<fat, dfat, dir, data, file>>,
           Set(t, [loc[t] EXCEPT !.buf = dir]), NEW p, Goto(t, p),
           <<pc[t], p>> \in {<<"t_free", "t_dir">>, <<"r_read", "r_dir">>, <<"n_read", "n_dir">>},
           p = "n_dir" => dir[loc[t].slot].used, p = "t_dir" => ~Valid(loc[t].cur)
    PROVE  Exclusive' /\ Owned(ch)'
<1> DEFINE l == loc[t]
           f == file[t]
           m == [l EXCEPT !.buf = dir]
<1>1. Moves(t, p, m, f) /\ l \in Locals /\ f \in Files
  BY Still DEF TInv, Moves, Goto, Set
<1>2. dir \in [Slot -> Entry]
  BY DEF TInv, Volume
<1>3. /\ m.buf = dir /\ m.slot = l.slot /\ m.to = l.to /\ m.cur = l.cur
      /\ m.freed = l.freed /\ m.off = l.off /\ m.done = l.done
  BY <1>1, <1>2, SetBuf
<1>4. Sane(fat, dfat, dir, data, pc[t], l, f, ch)
  BY DEF Owned
<1>5. \/ pc[t] = "t_free" /\ p = "t_dir"
      \/ pc[t] = "r_read" /\ p = "r_dir"
      \/ pc[t] = "n_read" /\ p = "n_dir"
  OBVIOUS
<1>6. (p = "n_dir" => dir[m.slot].used) /\ (p = "t_dir" => m.cur \notin Cluster)
  BY <1>3 DEF Valid
<1> HIDE DEF m
<1>7. Owner(dir, p, m, f, ch)
  BY <1>3, <1>4, <1>5, <1>6 DEF Sane, Owner, Mine, Busy, Freed, Writing, Cutting
<1>8. Namer(dir, p, m, ch)
  BY <1>3, <1>4, <1>5, <1>6 DEF Sane, Namer, Renaming
<1>9. Grower(fat, dfat, data, p, m, f, ch)
  BY <1>5 DEF Grower, Loose, Writing
<1>10. Active(pc[t]) /\ pc[t] # "r_free" /\ Sane(fat, dfat, dir, data, p, m, file[t], ch)
  BY <1>5, <1>7, <1>8, <1>9 DEF Active, Held, Sane
<1>11. Moves(t, p, m, file[t]) /\ m.slot = loc[t].slot /\ m.to = loc[t].to
  BY <1>1, <1>3
<1> QED
  BY <1>10, <1>11, Goes

LEMMA TruncateReadOwned ==
    ASSUME TInv, Exclusive, NEW ch, Owned(ch), NEW t \in Task, TruncateRead(t)
    PROVE  Exclusive' /\ Owned(ch)'
BY ReadOwned DEF TruncateRead, disk

\* A call that finds no record to work on.
LEMMA NothingToDo ==
    ASSUME TInv, Exclusive, NEW ch, Owned(ch), NEW t \in Task, UNCHANGED <<fat, dfat, dir, file>>,
           Return(t), pc[t] \in {"r_read", "r_dir", "n_read", "n_dir", "c_mark", "c_dir", "c_prep"}
    PROVE  Exclusive' /\ Owned(ch)'
<1>1. Owner(dir, pc[t], loc[t], file[t], ch)
  BY DEF Owned, Sane
<1>2. file[t].slot = None /\ Active(pc[t]) /\ pc[t] # "r_free"
  BY <1>1 DEF Owner, Writing, Cutting, Active, Held, Making
<1>3. Chains(fat', dfat', ch)
  BY DEF Owned
<1> QED
  BY <1>2, <1>3, LeavesOwned

LEMMA RemoveReadOwned ==
    ASSUME TInv, Exclusive, NEW ch, Owned(ch), NEW t \in Task, RemoveRead(t)
    PROVE  Exclusive' /\ Owned(ch)'
<1>1. CASE dir[loc[t].slot].used
  BY <1>1, ReadOwned DEF RemoveRead, disk
<1>2. CASE ~dir[loc[t].slot].used
  BY <1>2, NothingToDo DEF RemoveRead, disk, Leave
<1> QED
  BY <1>1, <1>2

LEMMA RenameReadOwned ==
    ASSUME TInv, Exclusive, NEW ch, Owned(ch), NEW t \in Task, RenameRead(t)
    PROVE  Exclusive' /\ Owned(ch)'
<1>1. CASE dir[loc[t].slot].used
  BY <1>1, ReadOwned DEF RenameRead, disk
<1>2. CASE ~dir[loc[t].slot].used
  BY <1>2, NothingToDo DEF RenameRead, disk, Leave
<1> QED
  BY <1>1, <1>2

LEMMA TruncateDirOwned ==
    ASSUME TInv, Exclusive, NEW ch, Owned(ch), NEW t \in Task, TruncateDir(t), ~torn'
    PROVE  Exclusive' /\ Owned(ch)'
<1> DEFINE f == file[t]
           l == loc[t]
           s == f.slot
           b == l.buf
           b1 == [b EXCEPT ![s].first = 0]
           b2 == [b EXCEPT ![s].first = 0, ![s].size = 0]
           g == Emptied(f)
<1>1. /\ pc[t] = "t_dir" /\ l \in Locals /\ f \in Files /\ Return(t) /\ UNCHANGED <<fat, dfat, data>>
      /\ \/ dir' = b2 /\ file' = [file EXCEPT ![t] = g]
         \/ dir' \in {dir, b2} /\ UNCHANGED file /\ ~l.freed
  BY Still DEF TInv, TruncateDir, InDoubt, Leave, Emptied
<1>2. Sane(fat, dfat, dir, data, "t_dir", l, f, ch)
  BY <1>1 DEF Owned
<1>3. s \in Slot /\ s # None /\ l.cur \in Links
  <2>1. Fit("t_dir", l, f)
    BY <1>1, Still DEF TInv
  <2> QED
    BY <1>1, <2>1, FilesFields, LocalsFields DEF Fit, Cutting
<1>4. Chains(fat', dfat', ch) /\ Active(pc[t]) /\ pc[t] # "r_free"
  BY <1>1 DEF Owned, Active, Held
<1>5. l.buf = dir /\ Starts(ch[s], l.cur)
  BY <1>2, <1>3 DEF Sane, Owner, Namer, Mine, Busy
<1>6. CASE UNCHANGED <<dir, file>> /\ ~l.freed
  <2>1. Starts(ch[s], f.ino) /\ (dir[s].used => dir[s].first \in {0, f.ino})
    BY <1>2, <1>3, <1>6 DEF Sane, Owner, Mine, Busy, Freed
  <2> QED
    BY <1>1, <1>4, <1>6, <2>1, LeavesOwned
<1>7. ASSUME dir' = b2, NEW h, h.slot = s, h.ino \notin Cluster, file' = [file EXCEPT ![t] = h]
      PROVE  Exclusive' /\ Owned(ch)'
  <2>1. dir'[s].first = 0 /\ \A r \in Slot \ {s} : dir'[r] = dir[r]
    <3>1. dir \in [Slot -> Entry]
      BY DEF TInv, Volume
    <3>2. b2 = [b1 EXCEPT ![s].size = 0]
      <4> HIDE DEF s, b
      <4> QED
        OBVIOUS
    <3>3. b1 \in [Slot -> Entry] /\ b1[s].first = 0 /\ \A r \in Slot \ {s} : b1[r] = dir[r]
      <4> HIDE DEF s
      <4> QED
        BY <1>3, <1>5, <3>1 DEF Entry
    <3> HIDE DEF b1, s
    <3>4. [b1 EXCEPT ![s].size = 0][s].first = 0 /\ \A r \in Slot \ {s} : [b1 EXCEPT ![s].size = 0][r] = dir[r]
      BY <1>3, <3>3 DEF Entry
    <3> QED
      BY <1>7, <3>2, <3>4
  <2>3. Moves(t, "idle", NoLocals, h)
    BY <1>1, <1>7 DEF Moves, Return, Goto, Set
  <2>4. ch[s] = <<>>
    <3>1. l.cur \notin Cluster
      BY <1>2, <1>3 DEF Sane, Owner
    <3>2. ch[s] # <<>> => ch[s][1] \in Cluster
      BY <1>3, PathShorter DEF Owned, Chains, TInv, Volume
    <3> QED
      BY <1>5, <3>1, <3>2 DEF Starts
  <2>5. s \in UsedBy(loc[t], file[t])
    BY <1>3 DEF UsedBy
  <2>6. s = file[t].slot /\ f = file[t] /\ l = loc[t]
    OBVIOUS
  <2>2. h.slot = s /\ h.ino \notin Cluster
    BY <1>7
  <2> HIDE DEF s, f, l
  <2>7. {h.slot} \cap Slot \subseteq UsedBy(loc[t], file[t])
    BY <2>2, <2>5
  <2>8. \A r \in Slot \ UsedBy(loc[t], file[t]) : dir'[r] = dir[r] /\ ch[r] = ch[r]
    BY <2>1, <2>5
  <2>9. \A r \in UsedBy(loc[t], file[t]) :
           r # h.slot /\ (Holds(pc[t], loc[t], file[t], r) \/ Closed(dir, ch, r)) => Closed(dir', ch, r)
    BY <1>4, <2>1, <2>2, <2>6 DEF Holds, Closed, UsedBy
  <2>10. h.slot # None => Starts(ch[h.slot], h.ino) /\ (dir'[h.slot].used => dir'[h.slot].first \in {0, h.ino})
    BY <2>1, <2>2, <2>4, Numbers DEF Starts
  <2> QED
    BY <1>4, <2>3, <2>7, <2>8, <2>9, <2>10, Ends
<1>8. CASE dir' = b2 /\ file' = [file EXCEPT ![t] = g]
  <2>1. g.slot = s /\ g.ino \notin Cluster
    BY <1>1, EmptiedFile, Numbers
  <2> HIDE DEF g, b2
  <2> QED
    BY <1>7, <1>8, <2>1
<1>9. CASE dir' = b2 /\ UNCHANGED file /\ ~l.freed
  <2>1. file' = [file EXCEPT ![t] = f]
    BY <1>9, Still DEF TInv
  <2>2. f.ino \notin Cluster
    BY <1>2, <1>3, <1>9 DEF Sane, Owner
  <2> HIDE DEF b2
  <2> QED
    BY <1>7, <1>9, <2>1, <2>2
<1> QED
  BY <1>1, <1>6, <1>8, <1>9

LEMMA UnlinkOwned ==
    ASSUME TInv, Exclusive, Exclusive', NEW ch, Owned(ch), NEW t \in Task, NEW s \in Slot, Unlink(t, s)
    PROVE  Exclusive' /\ Owned(ch)'
<1> DEFINE f == file[t]
           l == UnlinkCall(s, dir[s].first)
<1>1. /\ Moves(t, "r_lock", l, f) /\ pc[t] = "idle" /\ f.slot = None /\ dir[s].used
      /\ UNCHANGED <<fat, dfat, dir, data>>
  BY Still DEF TInv, Unlink, Moves, Goto, Set, UnlinkCall, disk
<1>2. dir[s].first \in Cluster \cup {0}
  BY DEF TInv, Volume, Entry
<1>3. l.slot = s /\ l.to = None /\ l.cur = dir[s].first
  BY <1>2, UnlinkLocals, NoLocalsFields
<1> HIDE DEF l
<1>5. UsedBy(l, f) = {s}
  BY <1>1, <1>3, FatAssumption DEF UsedBy
<1>4. \A u \in Task \ {t} : s \notin UsedBy(loc[u], file[u])
  BY <1>1, <1>5, TakesAlone
<1>6. Sane(fat, dfat, dir, data, "r_lock", l, f, ch)
  <2>1. Owner(dir, "r_lock", l, f, ch)
    BY <1>1 DEF Owner
  <2>2. Namer(dir, "r_lock", l, ch)
    BY <1>1, <1>3 DEF Namer, Renaming
  <2>3. Grower(fat, dfat, data, "r_lock", l, f, ch)
    BY DEF Grower, Loose, Writing
  <2> QED
    BY <2>1, <2>2, <2>3 DEF Sane
<1>7. ~Active("r_lock")
  BY DEF Active, Held, Making
<1>8. \A r \in Slot : ~Holds(pc[t], loc[t], file[t], r)
  BY <1>1, FatAssumption DEF Holds
<1>9. \A r \in UsedBy(l, f) : r \in UsedBy(loc[t], file[t]) \/ \A u \in Task \ {t} : r \notin UsedBy(loc[u], file[u])
  BY <1>4, <1>5
<1> QED
  BY <1>1, <1>6, <1>7, <1>8, <1>9, Local

\* The record s of a task that does not hold it as an open file.
LEMMA UsedClosed ==
    ASSUME TInv, Exclusive, NEW ch, Owned(ch), NEW t \in Task, NEW s \in Slot, s \in UsedBy(loc[t], file[t]),
           file[t].slot = None, pc[t] # "r_free"
    PROVE  Closed(dir, ch, s)
<1>1. ~Holds(pc[t], loc[t], file[t], s)
  BY FatAssumption DEF Holds
<1>2. ASSUME NEW u \in Task, u # t PROVE ~Holds(pc[u], loc[u], file[u], s)
  BY <1>2 DEF Exclusive, Holds, UsedBy
<1> QED
  BY <1>1, <1>2 DEF Owned

LEMMA RemoveDirOwned ==
    ASSUME TInv, Exclusive, NEW ch, Owned(ch), NEW t \in Task, RemoveDir(t), NEW ch1,
           ch1 = IF pc'[t] = "idle" /\ ~dir'[loc[t].slot].used THEN Shut(ch, loc[t].slot, 0) ELSE ch
    PROVE  Exclusive' /\ Owned(ch1)'
<1> DEFINE f == file[t]
           l == loc[t]
           s == l.slot
           removed == [l.buf EXCEPT ![s].used = FALSE]
<1>1. /\ pc[t] = "r_dir" /\ l \in Locals /\ f \in Files /\ UNCHANGED <<fat, dfat, data, file>>
      /\ \/ dir' = removed /\ Moves(t, "r_free", l, f)
         \/ Return(t) /\ dir' \in {dir, removed}
  BY Still DEF TInv, RemoveDir, InDoubt, Leave, Moves, Goto
<1>2. Sane(fat, dfat, dir, data, "r_dir", l, f, ch)
  BY <1>1 DEF Owned
<1>3. s \in Slot /\ s # None /\ f.slot = None
  <2>1. Fit("r_dir", l, f)
    BY <1>1, Still DEF TInv
  <2> QED
    BY <1>1, <1>2, <2>1, LocalsFields DEF Fit, Removing, Sane, Owner, Writing, Cutting
<1>4. l.buf = dir /\ dir[s].used /\ dir[s].first = l.cur
  BY <1>2 DEF Sane, Namer
<1>5. CASE Return(t) /\ UNCHANGED dir
  <2>1. ch1 = ch
    BY <1>4, <1>5
  <2> QED
    BY <1>1, <1>5, <2>1, NothingToDo
<1>7. dir' = removed => ~dir'[s].used /\ \A r \in Slot \ {s} : dir'[r] = dir[r]
  <2>1. dir \in [Slot -> Entry]
    BY DEF TInv, Volume
  <2> HIDE DEF s
  <2> QED
    BY <1>3, <1>4, <2>1 DEF Entry
<1>8. s = loc[t].slot /\ f = file[t]
  OBVIOUS
<1> HIDE DEF removed
<1>6. CASE dir' = removed /\ Moves(t, "r_free", l, f)
  <2>10. ch1 = ch
    <3>1. pc'[t] = "r_free"
      BY <1>6, Moved DEF TInv
    <3> QED
      BY <3>1
  <2>2. ~dir'[s].used /\ \A r \in Slot \ {s} : dir'[r] = dir[r]
    BY <1>6, <1>7
  <2>3. s \in UsedBy(l, f)
    BY <1>3 DEF UsedBy
  <2>4. Starts(ch[s], l.cur)
    BY <1>1, <1>3, <1>4, <2>3, UsedClosed DEF Closed
  <2>5. Sane(fat', dfat', dir', data', "r_free", l, f, ch)
    <3>1. Owner(dir', "r_free", l, f, ch)
      BY <1>3 DEF Owner
    <3>2. Namer(dir', "r_free", l, ch)
      BY <2>2, <2>4 DEF Namer, Renaming
    <3>3. Grower(fat', dfat', data', "r_free", l, f, ch)
      BY DEF Grower, Loose, Writing
    <3> QED
      BY <3>1, <3>2, <3>3 DEF Sane
  <2>6. Active(pc[t]) /\ Chains(fat', dfat', ch)
    BY <1>1 DEF Active, Held, Owned
  <2>7. \A r \in Slot \ UsedBy(loc[t], file[t]) : dir'[r] = dir[r] /\ ch[r] = ch[r]
    BY <2>2, <2>3
  <2>8. \A r \in UsedBy(loc[t], file[t]) :
           ~Holds("r_free", l, f, r) /\ (Holds(pc[t], loc[t], file[t], r) \/ Closed(dir, ch, r)) => Closed(dir', ch, r)
    BY <1>1, <1>3, <2>2, FatAssumption DEF Holds, Closed, UsedBy
  <2>9. \A r \in UsedBy(l, f) : r \in UsedBy(loc[t], file[t]) \/ \A u \in Task \ {t} : r \notin UsedBy(loc[u], file[u])
    OBVIOUS
  <2> QED
    BY <1>6, <2>5, <2>6, <2>7, <2>8, <2>9, <2>10, Carries
<1>9. CASE Return(t) /\ dir' = removed
  <2>1. Moves(t, "idle", NoLocals, f)
    BY <1>1, <1>9, Still DEF TInv, Moves, Return, Goto, Set
  <2>2. pc'[t] = "idle"
    BY <2>1, Moved DEF TInv
  <2>3. ~dir'[s].used /\ \A r \in Slot \ {s} : dir'[r] = dir[r]
    BY <1>7, <1>9
  <2>4. s \in UsedBy(loc[t], file[t]) /\ f.slot \notin Slot
    BY <1>3, FatAssumption DEF UsedBy
  <2> HIDE DEF s, f
  <2>5. ch1 = Shut(ch, s, 0)
    BY <1>8, <2>2, <2>3
  <2>6. Chains(fat, dfat, ch1) /\ (\A r \in Slot \ {s} : ch1[r] = ch[r]) /\ ch1[s] = <<>>
    BY <1>3, <2>5, ShutChains DEF Owned
  <2>7. Active(pc[t]) /\ Chains(fat', dfat', ch1) /\ {f.slot} \cap Slot \subseteq UsedBy(loc[t], file[t])
    BY <1>1, <2>4, <2>6 DEF Active, Held
  <2>8. \A r \in Slot \ UsedBy(loc[t], file[t]) : dir'[r] = dir[r] /\ ch1[r] = ch[r]
    BY <2>3, <2>4, <2>6
  <2>9. \A r \in UsedBy(loc[t], file[t]) :
           r # f.slot /\ (Holds(pc[t], loc[t], file[t], r) \/ Closed(dir, ch, r)) => Closed(dir', ch1, r)
    <3> TAKE r \in UsedBy(loc[t], file[t])
    <3>1. r \in Slot
      BY DEF UsedBy
    <3>2. CASE r = s
      BY <2>3, <2>6, <3>2, Numbers DEF Closed, Starts
    <3>3. CASE r # s
      BY <1>1, <1>8, <2>3, <2>6, <3>1, <3>3 DEF Holds, Closed
    <3> QED
      BY <3>2, <3>3
  <2> QED
    BY <1>3, <2>1, <2>7, <2>8, <2>9, Ends
<1> QED
  BY <1>1, <1>5, <1>6, <1>9

LEMMA RemoveEndOwned ==
    ASSUME TInv, Exclusive, NEW ch, Owned(ch), NEW t \in Task, RemoveEnd(t)
    PROVE  Exclusive' /\ Owned(ch)'
<1> DEFINE s == loc[t].slot
<1>1. /\ pc[t] = "r_free" /\ loc[t].cur \notin Cluster /\ Return(t)
      /\ UNCHANGED <<fat, dfat, dir, data, file>>
  BY DEF RemoveEnd, Valid, Leave, disk
<1>2. Sane(fat, dfat, dir, data, "r_free", loc[t], file[t], ch)
  BY <1>1 DEF Owned
<1>3. s \in Slot /\ file[t].slot = None /\ ~dir[s].used /\ Starts(ch[s], loc[t].cur)
  <2>1. Fit("r_free", loc[t], file[t]) /\ loc[t] \in Locals
    BY <1>1, Still DEF TInv
  <2> QED
    BY <1>2, <2>1, LocalsFields DEF Fit, Removing, Sane, Owner, Namer, Writing, Cutting
<1>4. ch[s] = <<>>
  <2>1. ch[s] # <<>> => ch[s][1] \in Cluster
    BY <1>3, PathShorter DEF Owned, Chains, TInv, Volume
  <2> QED
    BY <1>1, <1>3, <2>1 DEF Starts
<1>5. Closed(dir, ch, s)
  BY <1>3, <1>4, Numbers DEF Closed, Starts
<1>6. Active(pc[t]) /\ Chains(fat', dfat', ch)
  BY <1>1 DEF Active, Held, Owned
<1> QED
  BY <1>1, <1>3, <1>5, <1>6, LeavesOwned

LEMMA CreateOwned ==
    ASSUME TInv, Exclusive, Exclusive', NEW ch, Owned(ch), NEW t \in Task,
           NEW kind \in {"file", "dir", "rename"}, NEW from \in Slot \cup {None}, Create(t, kind, from)
    PROVE  Exclusive' /\ Owned(ch)'
<1> DEFINE to == FirstUnused
           new == NewCluster(kind)
           l == CreatesWith(kind, from)
           p == IF kind = "dir" THEN "c_mark" ELSE "c_dir"
           f == file[t]
<1>1. /\ Moves(t, p, l, f) /\ pc[t] = "idle" /\ f.slot = None /\ UNCHANGED <<fat, dfat, dir, data>>
      /\ {s \in Slot : ~dir[s].used} # {}
  BY Still DEF TInv, Create, Moves, Goto, Set, CreatesWith, CreateCall, FirstUnused, NewCluster, disk
<1>2. to \in Slot /\ ~dir[to].used
  BY <1>1, FirstUnusedIs
<1>3. /\ kind = "rename" => from # None /\ dir[from].used
      /\ kind # "rename" => from = None
      /\ kind = "dir" => FindFree # 0
  BY DEF Create
<1>4. kind = "dir" => fat[new] = Free
  BY <1>3, FindFreeIs DEF TInv, NewCluster
<1>5. kind # "dir" => new = 0
  BY DEF NewCluster
<1>6. l.kind = kind /\ l.slot = from /\ l.to = to /\ l.buf = dir /\ l.new = new
  <2>1. kind \in Kinds
    BY DEF Kinds
  <2> QED
    BY <1>2, <2>1, CreatesWithIs
<1> HIDE DEF to, new, f
<1>7. \/ p = "c_mark" /\ kind = "dir"
      \/ p = "c_dir" /\ kind # "dir"
  OBVIOUS
<1> HIDE DEF l, p
<1>8. \A s \in UsedBy(l, f) : \A u \in Task \ {t} : s \notin UsedBy(loc[u], file[u])
  BY <1>1, TakesAlone
<1>9. \A u \in Task : ~Active(pc[u])
  <2>1. Active(p) /\ ~Active(pc[t])
    BY <1>1, <1>7 DEF Active, Held, Making
  <2> QED
    BY <1>1, <2>1, TakesAlone
<1>10. Sane(fat, dfat, dir, data, p, l, f, ch)
  <2>1. Owner(dir, p, l, f, ch)
    BY <1>1 DEF Owner
  <2>2. Namer(dir, p, l, ch)
    BY <1>2, <1>3, <1>5, <1>6, <1>7 DEF Namer, Renaming
  <2>3. Grower(fat, dfat, data, p, l, f, ch)
    BY <1>4, <1>6, <1>7 DEF Grower, Loose, Writing
  <2> QED
    BY <2>1, <2>2, <2>3 DEF Sane
<1>11. \A s \in Slot : ~Holds(pc[t], loc[t], file[t], s)
  BY <1>1, FatAssumption DEF Holds, f
<1> QED
  BY <1>1, <1>8, <1>9, <1>10, <1>11, Local

LEMMA CreateMarkOwned ==
    ASSUME TInv, Exclusive, NEW ch, Owned(ch), NEW t \in Task, CreateMark(t)
    PROVE  Exclusive' /\ Owned(ch)'
<1> DEFINE l == loc[t]
           f == file[t]
<1>1. /\ pc[t] = "c_mark" /\ UNCHANGED <<dir, data, file>> /\ l \in Locals /\ Fit("c_mark", l, f)
      /\ \/ SetFat(l.new, EOC) /\ Moves(t, "c_dir", l, f)
         \/ SetFatFails(l.new, EOC) /\ Return(t)
  BY Still DEF TInv, CreateMark, Moves, Goto
<1>2. Sane(fat, dfat, dir, data, "c_mark", l, f, ch)
  BY <1>1 DEF Owned
<1>3. l.new \in Cluster /\ l.kind = "dir" /\ Active(pc[t]) /\ f.slot = None
  BY <1>1, <1>2, LocalsFields DEF Fit, Making, Active, Sane, Owner, Writing, Cutting
<1>4. \A r \in Slot : l.new \notin On(ch[r])
  BY <1>2, FreeOff DEF Sane, Grower
<1>5. Chains(fat', dfat', ch)
  BY <1>1, <1>3, <1>4, OffChains
<1>6. CASE SetFat(l.new, EOC) /\ Moves(t, "c_dir", l, f)
  <2>1. fat'[l.new] = EOC /\ dfat'[l.new] = EOC
    BY <1>3, <1>6 DEF SetFat, TInv, Volume
  <2>2. Namer(dir', "c_dir", l, ch)
    BY <1>1, <1>2, <1>3 DEF Sane, Namer, Renaming
  <2>3. Grower(fat', dfat', data', "c_dir", l, f, ch)
    BY <1>4, <2>1 DEF Grower, Loose, Writing
  <2>4. Sane(fat', dfat', dir', data', "c_dir", l, f, ch)
    BY <1>3, <2>2, <2>3 DEF Sane, Owner
  <2> QED
    BY <1>1, <1>3, <1>5, <1>6, <2>4, Works
<1>7. CASE SetFatFails(l.new, EOC) /\ Return(t)
  BY <1>1, <1>3, <1>5, <1>7, LeavesOwned
<1> QED
  BY <1>1, <1>6, <1>7

\* The first cluster of a new directory belongs to its record.
Made(ch, s, c) == [ch EXCEPT ![s] = <<c>>]

LEMMA MadeChains ==
    ASSUME NEW F, NEW D, NEW ch, Chains(F, D, ch), NEW s \in Slot, NEW c \in Cluster, F[c] = EOC, D[c] = EOC,
           \A r \in Slot : c \notin On(ch[r]), NEW ch1, ch1 = Made(ch, s, c)
    PROVE  Chains(F, D, ch1) /\ ch1[s] = <<c>> /\ \A r \in Slot \ {s} : ch1[r] = ch[r]
<1>1. ch1 \in [Slot -> Seq(Cluster)] /\ ch1[s] = <<c>> /\ \A r \in Slot \ {s} : ch1[r] = ch[r]
  BY DEF Chains, Made
<1>2. Path(F, <<c>>) /\ Path(D, <<c>>) /\ On(<<c>>) = {c}
  BY PathOne
<1>3. \A r \in Slot : Path(F, ch1[r]) /\ Path(D, ch1[r])
  BY <1>1, <1>2 DEF Chains
<1>4. \A q, r \in Slot : q # r => On(ch1[q]) \cap On(ch1[r]) = {}
  <2> TAKE q, r \in Slot
  <2> HAVE q # r
  <2>1. CASE q = s
    BY <1>1, <1>2, <2>1
  <2>2. CASE r = s
    BY <1>1, <1>2, <2>2
  <2>3. CASE q # s /\ r # s
    BY <1>1, <2>3 DEF Chains
  <2> QED
    BY <2>1, <2>2, <2>3
<1> QED
  BY <1>1, <1>3, <1>4 DEF Chains

LEMMA CreateDirOwned ==
    ASSUME TInv, Exclusive, failures \in Nat, NEW ch, Owned(ch), NEW t \in Task, CreateDir(t), NEW ch1,
           ch1 = IF loc[t].kind = "dir" /\ dir'[loc[t].to].used THEN Made(ch, loc[t].to, loc[t].new) ELSE ch
    PROVE  Exclusive' /\ Owned(ch1)'
<1> DEFINE l == loc[t]
           f == file[t]
           s == l.to
           e == [used |-> TRUE, isdir |-> l.kind = "dir", first |-> l.new, size |-> 0]
           g == [NoFile EXCEPT !.slot = s]
<1>1. /\ pc[t] = "c_dir" /\ l \in Locals /\ f \in Files /\ Fit("c_dir", l, f)
      /\ UNCHANGED <<fat, dfat, data, lock>>
  BY Still DEF TInv, CreateDir
<1>2. /\ dir' = [l.buf EXCEPT ![s] = e] \/ UNCHANGED dir
      /\ l.kind = "file" => Moves(t, "idle", NoLocals, g)
      /\ l.kind = "rename" => Moves(t, "n_lock", l, f)
      /\ l.kind = "dir" => \/ Moves(t, "c_prep", l, f) /\ dir' = [l.buf EXCEPT ![s] = e]
                           \/ Moves(t, "idle", NoLocals, f)
  BY Still DEF TInv, CreateDir, InDoubt, Moves, Goto, Set, Return, Fails
<1>3. Sane(fat, dfat, dir, data, "c_dir", l, f, ch)
  BY <1>1 DEF Owned
<1>4. /\ s \in Slot /\ s # None /\ l.kind \in {"file", "dir", "rename"} /\ f.slot = None
      /\ l.new \in Cluster \cup {0} /\ (l.kind = "dir" => l.new \in Cluster)
  BY <1>1, <1>3, LocalsFields DEF Fit, Making, Sane, Owner, Writing, Cutting
<1>5. /\ l.buf = dir /\ ~dir[s].used
      /\ l.kind # "dir" => l.new = 0
      /\ l.kind = "rename" => s # l.slot
  BY <1>3 DEF Sane, Namer
<1>6. dir \in [Slot -> Entry] /\ e.used /\ e.first = l.new
  BY DEF TInv, Volume
<1>7. s \in UsedBy(loc[t], file[t])
  BY <1>4 DEF UsedBy
<1>8. ch[s] = <<>>
  <2>1. Starts(ch[s], 0)
    BY <1>1, <1>4, <1>5, <1>7, UsedClosed DEF Closed
  <2>2. ch[s] # <<>> => ch[s][1] \in Cluster
    BY <1>4, PathShorter DEF Owned, Chains, TInv, Volume
  <2> QED
    BY <2>1, <2>2, Numbers DEF Starts
<1>9. Active(pc[t]) /\ Chains(fat', dfat', ch)
  BY <1>1 DEF Active, Making, Owned
<1>10. g.slot = s /\ g.ino = 0
  BY DEF NoFile
<1>11. l = loc[t] /\ f = file[t] /\ s = l.to
  OBVIOUS
<1> HIDE DEF e, g, l, f, s
<1>12. /\ \A r \in Slot \ {s} : dir'[r] = dir[r]
       /\ dir'[s].used => dir'[s].first = l.new /\ dir' = [l.buf EXCEPT ![s] = e]
       /\ dir' = [l.buf EXCEPT ![s] = e] => dir'[s].used
  BY <1>2, <1>4, <1>5, <1>6
<1>13. ASSUME NEW r \in UsedBy(loc[t], file[t]), r # s, Holds(pc[t], loc[t], file[t], r) \/ Closed(dir, ch, r), ch1[r] = ch[r]
       PROVE  Closed(dir', ch1, r)
  BY <1>1, <1>4, <1>11, <1>12, <1>13, FatAssumption DEF Holds, Closed, UsedBy
<1>14. CASE l.kind = "file"
  <2>1. ch1 = ch /\ Moves(t, "idle", NoLocals, g)
    BY <1>2, <1>11, <1>14
  <2>2. {g.slot} \cap Slot \subseteq UsedBy(loc[t], file[t])
    BY <1>7, <1>10
  <2>3. g.slot # None => /\ Starts(ch1[g.slot], g.ino)
                         /\ dir'[g.slot].used => dir'[g.slot].first \in {0, g.ino}
    BY <1>5, <1>8, <1>10, <1>12, <1>14, <2>1, Numbers DEF Starts
  <2>4. \A r \in Slot \ UsedBy(loc[t], file[t]) : dir'[r] = dir[r] /\ ch1[r] = ch[r]
    BY <1>7, <1>12, <2>1
  <2>5. \A r \in UsedBy(loc[t], file[t]) :
           r # g.slot /\ (Holds(pc[t], loc[t], file[t], r) \/ Closed(dir, ch, r)) => Closed(dir', ch1, r)
    BY <1>10, <1>13, <2>1
  <2> QED
    BY <1>9, <2>1, <2>2, <2>3, <2>4, <2>5, Ends
<1>15. CASE l.kind = "rename"
  <2>1. ch1 = ch /\ Moves(t, "n_lock", l, f)
    BY <1>2, <1>11, <1>15
  <2>2. Sane(fat', dfat', dir', data', "n_lock", l, f, ch1)
    <3>1. Namer(dir', "n_lock", l, ch1)
      BY <1>5, <1>11, <1>12, <1>15 DEF Namer
    <3>2. Grower(fat', dfat', data', "n_lock", l, f, ch1)
      BY DEF Grower, Loose, Writing
    <3> QED
      BY <1>4, <3>1, <3>2 DEF Sane, Owner
  <2>3. \A r \in UsedBy(l, f) : r \in UsedBy(loc[t], file[t]) \/ \A u \in Task \ {t} : r \notin UsedBy(loc[u], file[u])
    BY <1>11
  <2>4. \A r \in Slot \ UsedBy(loc[t], file[t]) : dir'[r] = dir[r] /\ ch1[r] = ch[r]
    BY <1>7, <1>12, <2>1
  <2>5. Closed(dir', ch1, s)
    BY <1>5, <1>8, <1>12, <1>15, <2>1, Numbers DEF Closed, Starts
  <2>6. \A r \in UsedBy(loc[t], file[t]) :
           ~Holds("n_lock", l, f, r) /\ (Holds(pc[t], loc[t], file[t], r) \/ Closed(dir, ch, r)) => Closed(dir', ch1, r)
    BY <1>13, <2>1, <2>5
  <2> QED
    BY <1>9, <2>1, <2>2, <2>3, <2>4, <2>6, Carries
<1>16. ASSUME l.kind = "dir", dir' = [l.buf EXCEPT ![s] = e]
       PROVE  /\ Chains(fat', dfat', ch1) /\ ch1[s] = <<l.new>> /\ \A r \in Slot \ {s} : ch1[r] = ch[r]
              /\ Closed(dir', ch1, s)
              /\ \A r \in Slot \ UsedBy(loc[t], file[t]) : dir'[r] = dir[r] /\ ch1[r] = ch[r]
              /\ \A r \in UsedBy(loc[t], file[t]) :
                    Holds(pc[t], loc[t], file[t], r) \/ Closed(dir, ch, r) => Closed(dir', ch1, r)
  <2>1. ch1 = Made(ch, s, l.new)
    BY <1>11, <1>12, <1>16
  <2>2. /\ Chains(fat', dfat', ch1) /\ ch1[s] = <<l.new>> /\ \A r \in Slot \ {s} : ch1[r] = ch[r]
    <3>1. /\ fat[l.new] = EOC /\ dfat[l.new] = EOC /\ \A r \in Slot : l.new \notin On(ch[r])
      BY <1>3, <1>16 DEF Sane, Grower, Loose
    <3>2. fat' = fat /\ dfat' = dfat /\ Chains(fat, dfat, ch) /\ l.new \in Cluster
      BY <1>1, <1>4, <1>16 DEF Owned
    <3> QED
      BY <1>4, <2>1, <3>1, <3>2, MadeChains
  <2>3. \A r \in Slot \ UsedBy(loc[t], file[t]) : dir'[r] = dir[r] /\ ch1[r] = ch[r]
    BY <1>7, <1>12, <2>2
  <2>4. Closed(dir', ch1, s)
    BY <1>4, <1>12, <1>16, <2>2 DEF Closed, Starts
  <2>5. \A r \in UsedBy(loc[t], file[t]) :
           Holds(pc[t], loc[t], file[t], r) \/ Closed(dir, ch, r) => Closed(dir', ch1, r)
    BY <1>13, <2>2, <2>4 DEF UsedBy
  <2> QED
    BY <2>2, <2>3, <2>4, <2>5
<1>17. CASE l.kind = "dir" /\ Moves(t, "c_prep", l, f) /\ dir' = [l.buf EXCEPT ![s] = e]
  <2>1. ch1[s] = <<l.new>>
    BY <1>16, <1>17
  <2>2. Sane(fat', dfat', dir', data', "c_prep", l, f, ch1)
    <3>1. Namer(dir', "c_prep", l, ch1)
      BY DEF Namer, Renaming
    <3>2. Grower(fat', dfat', data', "c_prep", l, f, ch1)
      BY <1>11, <2>1 DEF Grower, Loose, Writing
    <3> QED
      BY <1>4, <3>1, <3>2 DEF Sane, Owner
  <2>3. \A r \in UsedBy(l, f) : r \in UsedBy(loc[t], file[t]) \/ \A u \in Task \ {t} : r \notin UsedBy(loc[u], file[u])
    BY <1>11
  <2>4. \A r \in Slot \ UsedBy(loc[t], file[t]) : dir'[r] = dir[r] /\ ch1[r] = ch[r]
    BY <1>16, <1>17
  <2>5. \A r \in UsedBy(loc[t], file[t]) :
           ~Holds("c_prep", l, f, r) /\ (Holds(pc[t], loc[t], file[t], r) \/ Closed(dir, ch, r)) => Closed(dir', ch1, r)
    BY <1>16, <1>17
  <2>6. /\ Moves(t, "c_prep", l, f) /\ Active(pc[t]) /\ Chains(fat', dfat', ch1)
    BY <1>9, <1>16, <1>17
  <2> QED
    BY <2>2, <2>3, <2>4, <2>5, <2>6, Carries
<1>18. CASE l.kind = "dir" /\ Moves(t, "idle", NoLocals, f) /\ UNCHANGED dir
  <2>1. ch1 = ch
    BY <1>5, <1>11, <1>18
  <2>2. Return(t) /\ UNCHANGED file
    BY <1>1, <1>11, <1>18, Still DEF TInv, Moves, Return, Goto, Set
  <2> QED
    BY <1>1, <1>18, <2>1, <2>2, NothingToDo
<1>19. CASE l.kind = "dir" /\ Moves(t, "idle", NoLocals, f) /\ dir' = [l.buf EXCEPT ![s] = e]
  <2>1. {f.slot} \cap Slot \subseteq UsedBy(loc[t], file[t]) /\ Moves(t, "idle", NoLocals, f)
    BY <1>4, <1>19, FatAssumption
  <2>2. Active(pc[t]) /\ Chains(fat', dfat', ch1)
    BY <1>9, <1>16, <1>19
  <2>3. \A r \in Slot \ UsedBy(loc[t], file[t]) : dir'[r] = dir[r] /\ ch1[r] = ch[r]
    BY <1>16, <1>19
  <2>4. \A r \in UsedBy(loc[t], file[t]) :
           r # f.slot /\ (Holds(pc[t], loc[t], file[t], r) \/ Closed(dir, ch, r)) => Closed(dir', ch1, r)
    BY <1>16, <1>19
  <2> QED
    BY <1>4, <2>1, <2>2, <2>3, <2>4, Ends
<1> QED
  BY <1>2, <1>4, <1>14, <1>15, <1>17, <1>18, <1>19

LEMMA CreatePrepareOwned ==
    ASSUME TInv, Exclusive, NEW ch, Owned(ch), NEW t \in Task, CreatePrepare(t)
    PROVE  Exclusive' /\ Owned(ch)'
BY NothingToDo DEF CreatePrepare


\* The chain goes with the record that is renamed.
Renamed(ch, s, r) == [q \in Slot |-> IF q = r THEN ch[s] ELSE IF q = s THEN <<>> ELSE ch[q]]

LEMMA RenamedChains ==
    ASSUME NEW F, NEW D, NEW ch, Chains(F, D, ch), NEW s \in Slot, NEW r \in Slot, r # s
    PROVE  Chains(F, D, Renamed(ch, s, r))
<1> DEFINE ch1 == Renamed(ch, s, r)
<1>1. /\ ch1 \in [Slot -> Seq(Cluster)] /\ ch1[r] = ch[s] /\ ch1[s] = <<>>
      /\ \A q \in Slot \ {r, s} : ch1[q] = ch[q]
  BY DEF Chains, Renamed
<1> HIDE DEF ch1
<1>2. \A q \in Slot : Path(F, ch1[q]) /\ Path(D, ch1[q])
  BY <1>1, NoPath DEF Chains
<1>3. \A p, q \in Slot : p # q => On(ch1[p]) \cap On(ch1[q]) = {}
  <2> TAKE p, q \in Slot
  <2> HAVE p # q
  <2>1. CASE p = s \/ q = s
    BY <1>1, <2>1, NoPath
  <2>2. CASE p = r /\ q # s
    BY <1>1, <2>2 DEF Chains
  <2>3. CASE q = r /\ p # s
    BY <1>1, <2>3 DEF Chains
  <2>4. CASE p \notin {r, s} /\ q \notin {r, s}
    BY <1>1, <2>4 DEF Chains
  <2> QED
    BY <2>1, <2>2, <2>3, <2>4
<1>4. Chains(F, D, ch1)
  BY <1>1, <1>2, <1>3 DEF Chains
<1> QED
  BY <1>4 DEF ch1

LEMMA RenameDirOwned ==
    ASSUME TInv, Exclusive, NEW ch, Owned(ch), NEW t \in Task, RenameDir(t), NEW ch1,
           ch1 = IF dir'[loc[t].slot].used THEN ch ELSE Renamed(ch, loc[t].slot, loc[t].to)
    PROVE  Exclusive' /\ Owned(ch1)'
<1> DEFINE l == loc[t]
           f == file[t]
           s == l.slot
           r == l.to
           b1 == [l.buf EXCEPT ![s].used = FALSE]
<1>1. /\ pc[t] = "n_dir" /\ l \in Locals /\ f \in Files /\ Fit("n_dir", l, f)
      /\ UNCHANGED <<fat, dfat, data, file>> /\ Return(t)
      /\ dir' = [b1 EXCEPT ![r] = l.buf[s]] \/ UNCHANGED dir
  BY Still DEF TInv, RenameDir, InDoubt, Leave
<1>2. Sane(fat, dfat, dir, data, "n_dir", l, f, ch)
  BY <1>1 DEF Owned
<1>3. s \in Slot /\ r \in Slot /\ f.slot = None
  BY <1>1, <1>2, LocalsFields DEF Fit, Renaming, Sane, Owner, Writing, Cutting
<1>4. l.buf = dir /\ dir[s].used /\ r # s /\ (dir[r].used => dir[r].first = 0)
  BY <1>2 DEF Sane, Namer, Renaming
<1>5. CASE UNCHANGED dir
  <2>1. ch1 = ch
    BY <1>4, <1>5
  <2> QED
    BY <1>1, <1>5, <2>1, NothingToDo
<1>6. CASE dir' = [b1 EXCEPT ![r] = l.buf[s]]
  <2>1. ~dir'[s].used /\ dir'[r] = dir[s] /\ \A q \in Slot \ {r, s} : dir'[q] = dir[q]
    <3>1. dir \in [Slot -> Entry]
      BY DEF TInv, Volume
    <3> HIDE DEF s, r, l
    <3>2. b1 \in [Slot -> Entry] /\ ~b1[s].used /\ \A q \in Slot \ {s} : b1[q] = dir[q]
      BY <1>3, <1>4, <3>1 DEF Entry
    <3> HIDE DEF b1
    <3> QED
      BY <1>3, <1>4, <1>6, <3>1, <3>2
  <2>2. ch1 = Renamed(ch, s, r)
    BY <2>1
  <2>3. s \in UsedBy(loc[t], file[t]) /\ r \in UsedBy(loc[t], file[t])
    BY <1>3 DEF UsedBy
  <2>4. Closed(dir, ch, s)
    BY <1>1, <1>3, <2>3, UsedClosed
  <2>5. s = loc[t].slot /\ r = loc[t].to /\ f = file[t]
    OBVIOUS
  <2>6. Moves(t, "idle", NoLocals, f)
    BY <1>1, Still DEF TInv, Moves, Return, Goto, Set
  <2> HIDE DEF s, r, f, l
  <2>7. Chains(fat', dfat', ch1) /\ ch1[r] = ch[s] /\ ch1[s] = <<>> /\ \A q \in Slot \ {r, s} : ch1[q] = ch[q]
    <3>1. Chains(fat, dfat, ch)
      BY DEF Owned
    <3>2. r \in Slot /\ s \in Slot /\ r # s
      BY <1>3, <1>4
    <3>3. Chains(fat, dfat, Renamed(ch, s, r))
      BY <3>1, <3>2, RenamedChains
    <3>4. ch1[r] = ch[s] /\ ch1[s] = <<>> /\ \A q \in Slot \ {r, s} : ch1[q] = ch[q]
      BY <2>2, <3>2 DEF Renamed
    <3> QED
      BY <1>1, <2>2, <3>3, <3>4
  <2>8. Closed(dir', ch1, r) /\ Closed(dir', ch1, s)
    BY <2>1, <2>4, <2>7, Numbers DEF Closed, Starts
  <2>9. {f.slot} \cap Slot \subseteq UsedBy(loc[t], file[t]) /\ Active(pc[t])
    BY <1>1, <2>5 DEF UsedBy, Active, Held
  <2>10. \A q \in Slot \ UsedBy(loc[t], file[t]) : dir'[q] = dir[q] /\ ch1[q] = ch[q]
    BY <2>1, <2>3, <2>7
  <2>11. \A q \in UsedBy(loc[t], file[t]) :
            q # f.slot /\ (Holds(pc[t], loc[t], file[t], q) \/ Closed(dir, ch, q)) => Closed(dir', ch1, q)
    <3> TAKE q \in UsedBy(loc[t], file[t])
    <3> HAVE q # f.slot /\ (Holds(pc[t], loc[t], file[t], q) \/ Closed(dir, ch, q))
    <3>1. q \in Slot
      BY DEF UsedBy
    <3>2. CASE q \in {r, s}
      BY <2>8, <3>2
    <3>3. CASE q \notin {r, s}
      BY <1>1, <2>1, <2>5, <2>7, <3>1, <3>3 DEF Holds, Closed
    <3> QED
      BY <3>2, <3>3
  <2> QED
    BY <1>3, <2>6, <2>7, <2>9, <2>10, <2>11, Ends
<1> QED
  BY <1>1, <1>5, <1>6

-----------------------------------------------------------------------------
(* A crash, and the first state.                                           *)

\* What is left when no task works: the chains that the records name.
Remain(ch) == [s \in Slot |-> IF dir[s].used /\ dir[s].first # 0 THEN ch[s] ELSE <<>>]

LEMMA CrashOwned ==
    ASSUME TInv, Exclusive, NEW ch, Owned(ch), Crash, ~torn', NEW ch1, ch1 = Remain(ch)
    PROVE  Exclusive' /\ Owned(ch1)'
<1>1. /\ fat' = dfat /\ dfat' = dfat /\ dir' = dir /\ data' = data
      /\ \A t \in Task : pc'[t] = "idle" /\ loc'[t] = NoLocals /\ file'[t] = NoFile
      /\ \A t \in Task : ~(pc[t] \in {"t_free", "t_dir"} /\ loc[t].freed)
  BY DEF Crash, disk
<1>2. \A s \in Slot : ~Truncating(s)
  BY <1>1 DEF Truncating
<1>3. /\ ch1 \in [Slot -> Seq(Cluster)]
      /\ \A s \in Slot : ch1[s] = IF dir[s].used /\ dir[s].first # 0 THEN ch[s] ELSE <<>>
  BY DEF Remain, Owned, Chains
<1>4. Chains(dfat, dfat, ch1)
  <2>1. Chains(dfat, dfat, ch)
    BY DEF Owned, Chains
  <2>2. \A s \in Slot : ch1[s] = ch[s] \/ ch1[s] = <<>>
    BY <1>3
  <2> QED
    BY <1>3, <2>1, <2>2, Emptier
<1>5. ASSUME NEW s \in Slot PROVE Closed(dir, ch1, s)
  <2>1. CASE dir[s].used /\ dir[s].first # 0
    BY <1>2, <1>3, <2>1, NamedStarts DEF Closed, Starts
  <2>2. CASE ~(dir[s].used /\ dir[s].first # 0)
    BY <1>3, <2>2, Numbers DEF Closed, Starts
  <2> QED
    BY <2>1, <2>2
<1>6. Sane(dfat, dfat, dir, data, "idle", NoLocals, NoFile, ch1)
  BY IdleSane DEF NoFile
<1>7. UsedBy(NoLocals, NoFile) = {} /\ ~Active("idle")
  BY IdleUse, FatAssumption DEF NoFile, Active, Held, Making
<1>8. Exclusive'
  BY <1>1, <1>7 DEF Exclusive
<1>9. Owned(ch1)'
  BY <1>1, <1>4, <1>5, <1>6 DEF Owned
<1> QED
  BY <1>8, <1>9

LEMMA InitOwned ==
    ASSUME Init, NEW ch, ch = [s \in Slot |-> <<>>]
    PROVE  Exclusive /\ Owned(ch)
<1>1. /\ \A t \in Task : pc[t] = "idle" /\ loc[t] = NoLocals /\ file[t] = NoFile
      /\ \A s \in Slot : ~dir[s].used
  BY DEF Init
<1>2. Chains(fat, dfat, ch)
  BY NoPath DEF Chains
<1>3. \A s \in Slot : Closed(dir, ch, s)
  BY <1>1, Numbers DEF Closed, Starts
<1>4. Sane(fat, dfat, dir, data, "idle", NoLocals, NoFile, ch)
  BY IdleSane DEF NoFile
<1>5. UsedBy(NoLocals, NoFile) = {} /\ ~Active("idle")
  BY IdleUse, FatAssumption DEF NoFile, Active, Held, Making
<1>6. Exclusive
  BY <1>1, <1>5 DEF Exclusive
<1>7. Owned(ch)
  BY <1>1, <1>2, <1>3, <1>4 DEF Owned
<1> QED
  BY <1>6, <1>7

-----------------------------------------------------------------------------
(* Every step.                                                             *)

\* The chains after a step of the task t.
After(t, ch) ==
    LET p == pc[t]  q == pc'[t]  l == loc[t]  f == file[t]
    IN  CASE p = "idle" /\ f.slot # None /\ file'[t].slot = None ->
                 Shut(ch, f.slot, IF dir[f.slot].used THEN dir[f.slot].first ELSE 0)
          [] p = "w_mark" /\ q = "w_top" /\ l.at = None -> Longer(ch, f.slot, l.new)
          [] p = "w_link" /\ q = "w_top" -> Longer(ch, f.slot, l.new)
          [] p = "w_end" /\ l.done = 0 -> Shut(ch, f.slot, f.ino)
          [] p \in {"t_free", "r_free"} /\ q = p -> Shorter(ch, FreeSlot(t))
          [] p = "r_free" /\ q = "idle" /\ l.cur \in Cluster -> Shut(ch, l.slot, 0)
          [] p = "r_dir" /\ q = "idle" /\ ~dir'[l.slot].used -> Shut(ch, l.slot, 0)
          [] p = "c_dir" /\ l.kind = "dir" /\ dir'[l.to].used -> Made(ch, l.to, l.new)
          [] p = "n_dir" /\ ~dir'[l.slot].used -> Renamed(ch, l.slot, l.to)
          [] OTHER -> ch

FileStep(t) == (\E s \in Slot : Open(t, s)) \/ Close(t) \/ (\E p \in 0 .. MaxSize - 1 : Seek(t, p))
CutStep(t) == Truncate(t) \/ FreeOne(t) \/ TruncateRead(t) \/ TruncateDir(t)

\* What is known of a step of a task that neither races nor tears a truncate.
Before(ch) == TInv /\ Exclusive /\ Exclusive' /\ failures \in Nat /\ Owned(ch)

LEMMA AfterNothing ==
    ASSUME NEW t, NEW ch, pc[t] \notin {"idle", "w_mark", "w_link", "w_end", "t_free", "r_free", "r_dir", "c_dir", "n_dir"}
    PROVE  After(t, ch) = ch
BY DEF After

LEMMA FileStepOwned ==
    ASSUME NEW ch, Before(ch), NEW t \in Task, FileStep(t), NEW ch1, ch1 = After(t, ch)
    PROVE  Exclusive' /\ Owned(ch1)'
<1>0. TInv /\ Exclusive /\ Exclusive' /\ Owned(ch) /\ Tasks
  BY DEF Before, TInv
<1>1. ASSUME NEW s \in Slot, Open(t, s) PROVE Exclusive' /\ Owned(ch1)'
  <2>1. ch1 = ch
    BY <1>1 DEF After, Open
  <2> QED
    BY <1>0, <1>1, <2>1, OpenOwned
<1>2. CASE Close(t)
  <2>1. file'[t].slot = None
    BY <1>0, <1>2 DEF Close, Tasks, NoFile
  <2>2. ch1 = Shut(ch, file[t].slot, IF dir[file[t].slot].used THEN dir[file[t].slot].first ELSE 0)
    BY <1>2, <2>1 DEF After, Close
  <2> QED
    BY <1>0, <1>2, <2>2, CloseOwned
<1>3. ASSUME NEW p \in 0 .. MaxSize - 1, Seek(t, p) PROVE Exclusive' /\ Owned(ch1)'
  <2>1. file'[t].slot = file[t].slot /\ pc[t] = "idle"
    BY <1>0, <1>3 DEF Seek, Tasks, Files
  <2>2. ch1 = ch
    BY <2>1 DEF After
  <2> QED
    BY <1>0, <1>3, <2>2, SeekOwned
<1> QED
  BY <1>1, <1>2, <1>3 DEF FileStep

LEMMA AcquireStepOwned ==
    ASSUME NEW ch, Before(ch), NEW t \in Task, Acquire(t), NEW ch1, ch1 = After(t, ch)
    PROVE  Exclusive' /\ Owned(ch1)'
<1>1. ch1 = ch
  BY AfterNothing DEF Acquire
<1> QED
  BY <1>1, AcquireOwned DEF Before

LEMMA WriteStepOwned ==
    ASSUME NEW ch, Before(ch), NEW t \in Task, WriteStep(t), ~torn', NEW ch1, ch1 = After(t, ch)
    PROVE  Exclusive' /\ Owned(ch1)'
<1>0. TInv /\ Exclusive /\ Owned(ch) /\ Tasks
  BY DEF Before, TInv
<1>1. ASSUME NEW n \in 1 .. MaxSize, NEW v \in Value, Write(t, n, v) PROVE Exclusive' /\ Owned(ch1)'
  <2>1. ch1 = ch
    BY <1>1 DEF After, Write
  <2> QED
    BY <1>0, <1>1, <2>1, WriteOwned
<1>2. CASE WriteTurn(t)
  BY <1>0, <1>2, AfterNothing, WriteTurnOwned DEF WriteTurn
<1>3. CASE WriteZero(t)
  BY <1>0, <1>3, AfterNothing, WriteZeroOwned DEF WriteZero
<1>4. CASE WriteMark(t)
  <2>1. ch1 = IF loc[t].at = None /\ pc'[t] = "w_top" THEN Longer(ch, file[t].slot, loc[t].new) ELSE ch
    BY <1>4 DEF After, WriteMark
  <2> QED
    BY <1>0, <1>4, <2>1, WriteMarkOwned
<1>5. CASE WriteLink(t)
  <2>1. ch1 = IF pc'[t] = "w_top" THEN Longer(ch, file[t].slot, loc[t].new) ELSE ch
    BY <1>5 DEF After, WriteLink
  <2> QED
    BY <1>0, <1>5, <2>1, WriteLinkOwned
<1>6. CASE WriteUndo(t)
  BY <1>0, <1>6, AfterNothing, WriteUndoOwned DEF WriteUndo
<1>7. CASE WriteData(t)
  BY <1>0, <1>7, AfterNothing, WriteDataOwned DEF WriteData
<1>8. CASE WriteEnd(t)
  <2>1. ch1 = IF loc[t].done = 0 THEN Shut(ch, file[t].slot, file[t].ino) ELSE ch
    BY <1>8 DEF After, WriteEnd
  <2> QED
    BY <1>0, <1>8, <2>1, WriteEndOwned
<1>9. CASE WriteDir(t)
  BY <1>0, <1>9, AfterNothing, WriteDirOwned DEF WriteDir
<1> QED
  BY <1>1, <1>2, <1>3, <1>4, <1>5, <1>6, <1>7, <1>8, <1>9 DEF WriteStep

\* Where a step leaves the task that frees a chain.
LEMMA FreeOneGoes ==
    ASSUME TInv, NEW t \in Task, FreeOne(t)
    PROVE  pc'[t] = pc[t] \/ pc'[t] = "idle"
BY DEF FreeOne, Leave, Return, Goto, TInv, Tasks

LEMMA CutStepOwned ==
    ASSUME NEW ch, Before(ch), NEW t \in Task, CutStep(t), ~torn', NEW ch1, ch1 = After(t, ch)
    PROVE  Exclusive' /\ Owned(ch1)'
<1>0. TInv /\ Exclusive /\ Owned(ch) /\ Tasks
  BY DEF Before, TInv
<1>1. CASE Truncate(t)
  <2>1. ch1 = ch
    BY <1>0, <1>1 DEF After, Truncate
  <2> QED
    BY <1>0, <1>1, <2>1, TruncateOwned
<1>2. CASE FreeOne(t)
  <2>1. ch1 = IF pc'[t] # "idle" THEN Shorter(ch, FreeSlot(t))
              ELSE IF pc[t] = "r_free" THEN Shut(ch, FreeSlot(t), 0) ELSE ch
    <3>1. pc[t] \in {"t_free", "r_free"} /\ loc[t].cur \in Cluster /\ (pc'[t] = pc[t] \/ pc'[t] = "idle")
      BY <1>0, <1>2, FreeOneGoes DEF FreeOne, Valid
    <3>2. pc[t] = "r_free" => FreeSlot(t) = loc[t].slot
      BY DEF FreeSlot
    <3> QED
      BY <3>1, <3>2 DEF After
  <2> QED
    BY <1>0, <1>2, <2>1, FreeOneOwned
<1>3. CASE TruncateRead(t)
  <2>1. ch1 = ch
    <3>1. pc[t] = "t_free" /\ pc'[t] = "t_dir"
      BY <1>0, <1>3 DEF TruncateRead, Goto, Tasks
    <3> QED
      BY <3>1 DEF After
  <2> QED
    BY <1>0, <1>3, <2>1, TruncateReadOwned
<1>4. CASE TruncateDir(t)
  BY <1>0, <1>4, AfterNothing, TruncateDirOwned DEF TruncateDir
<1> QED
  BY <1>1, <1>2, <1>3, <1>4 DEF CutStep

LEMMA NameStepOwned ==
    ASSUME NEW ch, Before(ch), NEW t \in Task, NameStep(t), NEW ch1, ch1 = After(t, ch)
    PROVE  Exclusive' /\ Owned(ch1)'
<1>0. TInv /\ Exclusive /\ Exclusive' /\ failures \in Nat /\ Owned(ch) /\ Tasks
  BY DEF Before, TInv
<1>1. ASSUME NEW kind \in {"file", "dir", "rename"}, NEW from \in Slot \cup {None}, Create(t, kind, from)
      PROVE  Exclusive' /\ Owned(ch1)'
  <2>1. ch1 = ch
    BY <1>1 DEF After, Create
  <2> QED
    BY <1>0, <1>1, <2>1, CreateOwned
<1>2. CASE CreateMark(t)
  BY <1>0, <1>2, AfterNothing, CreateMarkOwned DEF CreateMark
<1>3. CASE CreateDir(t)
  <2>1. ch1 = IF loc[t].kind = "dir" /\ dir'[loc[t].to].used THEN Made(ch, loc[t].to, loc[t].new) ELSE ch
    BY <1>3 DEF After, CreateDir
  <2> QED
    BY <1>0, <1>3, <2>1, CreateDirOwned
<1>4. CASE CreatePrepare(t)
  BY <1>0, <1>4, AfterNothing, CreatePrepareOwned DEF CreatePrepare
<1>5. CASE RenameRead(t)
  BY <1>0, <1>5, AfterNothing, RenameReadOwned DEF RenameRead
<1>6. CASE RenameDir(t)
  <2>1. ch1 = IF dir'[loc[t].slot].used THEN ch ELSE Renamed(ch, loc[t].slot, loc[t].to)
    BY <1>6 DEF After, RenameDir
  <2> QED
    BY <1>0, <1>6, <2>1, RenameDirOwned
<1>7. ASSUME NEW s \in Slot, Unlink(t, s) PROVE Exclusive' /\ Owned(ch1)'
  <2>1. ch1 = ch
    BY <1>7 DEF After, Unlink
  <2> QED
    BY <1>0, <1>7, <2>1, UnlinkOwned
<1>8. CASE RemoveRead(t)
  BY <1>0, <1>8, AfterNothing, RemoveReadOwned DEF RemoveRead
<1>9. CASE RemoveDir(t)
  <2>1. ch1 = IF pc'[t] = "idle" /\ ~dir'[loc[t].slot].used THEN Shut(ch, loc[t].slot, 0) ELSE ch
    BY <1>9 DEF After, RemoveDir
  <2> QED
    BY <1>0, <1>9, <2>1, RemoveDirOwned
<1>10. CASE RemoveEnd(t)
  <2>1. ch1 = ch
    <3>1. pc[t] = "r_free" /\ pc'[t] = "idle" /\ loc[t].cur \notin Cluster
      BY <1>0, <1>10 DEF RemoveEnd, Leave, Return, Goto, Tasks, Valid
    <3> QED
      BY <3>1 DEF After
  <2> QED
    BY <1>0, <1>10, <2>1, RemoveEndOwned
<1> QED
  BY <1>1, <1>2, <1>3, <1>4, <1>5, <1>6, <1>7, <1>8, <1>9, <1>10 DEF NameStep

\* A step counts at most one failure.
LEMMA FailuresCount ==
    ASSUME failures \in Nat, [Next]_vars
    PROVE  failures' \in Nat
<1>1. failures' = failures \/ failures' = failures + 1
  <2>1. CASE UNCHANGED vars
    BY <2>1 DEF vars
  <2>2. CASE Crash
    BY <2>2 DEF Crash, Fails
  <2>3. ASSUME NEW t \in Task, FileStep(t) \/ Acquire(t) PROVE failures' = failures
    BY <2>3 DEF FileStep, Open, Close, Seek, Acquire, past
  <2>4. ASSUME NEW t \in Task, WriteStep(t) PROVE failures' = failures \/ failures' = failures + 1
    BY <2>4 DEF WriteStep, Write, WriteTurn, WriteZero, WriteMark, WriteLink, WriteUndo, WriteData, WriteEnd, WriteDir,
       Fails, InDoubt, SetFatFails, past
  <2>5. ASSUME NEW t \in Task, CutStep(t) PROVE failures' = failures \/ failures' = failures + 1
    BY <2>5 DEF CutStep, Truncate, FreeOne, TruncateRead, TruncateDir, Fails, InDoubt, SetFatFails, past
  <2>6. ASSUME NEW t \in Task, NameStep(t) PROVE failures' = failures \/ failures' = failures + 1
    BY <2>6 DEF NameStep, Create, CreateMark, CreateDir, CreatePrepare, RenameRead, RenameDir, Unlink, RemoveRead,
       RemoveDir, RemoveEnd, Fails, InDoubt, SetFatFails, past
  <2> QED
    BY <2>1, <2>2, <2>3, <2>4, <2>5, <2>6 DEF Next, FileStep, CutStep
<1> QED
  BY <1>1

\* Tasks that do not race are apart.
LEMMA NoRace == TInv /\ ~Race => Exclusive
<1> SUFFICES ASSUME TInv, ~Race PROVE Exclusive
  OBVIOUS
<1>1. ASSUME NEW t \in Task, NEW u \in Task, t # u PROVE UsedBy(loc[t], file[t]) \cap UsedBy(loc[u], file[u]) = {}
  BY <1>1 DEF Race, Uses, UsedBy
<1>2. ASSUME NEW t \in Task, NEW u \in Task, t # u, Active(pc[t]), Active(pc[u]) PROVE FALSE
  <2>1. \A v \in Task : lock = v <=> pc[v] \in Held
    BY DEF TInv, Tasks
  <2>2. Creating(t) \/ Creating(u)
    BY <1>2, <2>1 DEF Creating, Active, Making
  <2>3. lock # None \/ (Creating(t) /\ Creating(u))
    BY <1>2, <2>1, FatAssumption DEF Creating, Active, Making
  <2> QED
    BY <1>2, <2>2, <2>3 DEF Race
<1> QED
  BY <1>1, <1>2 DEF Exclusive

\* The inductive invariant: until calls race or a truncate is torn there is a chain of
\* clusters for each record, disjoint from the others, that both copies of
\* the table follow and that the record, the open file or the call under way
\* knows the start of.
VInv == TInv /\ failures \in Nat /\ (~torn /\ ~raced => Exclusive /\ \E ch : Owned(ch))

LEMMA TaskStepOwned ==
    ASSUME NEW ch, Before(ch), ~torn', NEW t \in Task,
           FileStep(t) \/ Acquire(t) \/ WriteStep(t) \/ CutStep(t) \/ NameStep(t)
    PROVE  Exclusive' /\ \E c : Owned(c)'
<1>1. PICK ch1 : ch1 = After(t, ch)
  OBVIOUS
<1>2. Exclusive' /\ Owned(ch1)'
  BY <1>1, FileStepOwned, AcquireStepOwned, WriteStepOwned, CutStepOwned, NameStepOwned
<1> QED
  BY <1>2

LEMMA NextOwned == VInv /\ [Next]_vars => VInv'
<1> SUFFICES ASSUME VInv, [Next]_vars PROVE VInv'
  OBVIOUS
<1>1. TInv' /\ failures' \in Nat
  BY NextTypes, FailuresCount DEF VInv
<1>2. ASSUME ~torn', ~raced' PROVE Exclusive' /\ \E ch : Owned(ch)'
  <2>1. CASE UNCHANGED vars
    <3>1. Exclusive /\ \E ch : Owned(ch)
      BY <2>1, <1>2 DEF VInv, vars
    <3>2. Exclusive'
      BY <2>1, <3>1 DEF Exclusive, vars
    <3>3. PICK ch : Owned(ch)
      BY <3>1
    <3>4. Owned(ch)'
      BY <2>1, <3>3 DEF Owned, vars
    <3> QED
      BY <3>2, <3>4
  <2>2. CASE Next
    <3>0. ~raced /\ ~Race'
      BY <1>2, <2>2 DEF Next
    <3>1. Exclusive /\ \E ch : Owned(ch)
      BY <2>2, <3>0 DEF VInv, Next
    <3>6. TInv' /\ ~Race' => Exclusive'
      BY NoRace, PTL
    <3>2. PICK ch : Owned(ch)
      BY <3>1
    <3>3. Before(ch)
      BY <1>1, <3>0, <3>1, <3>2, <3>6 DEF VInv, Before
    <3>4. CASE Crash
      <4>1. PICK ch1 : ch1 = Remain(ch)
        OBVIOUS
      <4>2. Exclusive' /\ Owned(ch1)'
        BY <1>2, <3>1, <3>2, <3>4, <4>1, CrashOwned DEF VInv
      <4> QED
        BY <4>2
    <3>5. ASSUME NEW t \in Task, FileStep(t) \/ Acquire(t) \/ WriteStep(t) \/ CutStep(t) \/ NameStep(t)
          PROVE  Exclusive' /\ \E c : Owned(c)'
      BY <1>2, <3>3, <3>5, TaskStepOwned
    <3> QED
      BY <2>2, <3>4, <3>5 DEF Next, FileStep, CutStep
  <2> QED
    BY <2>1, <2>2
<1> QED
  BY <1>1, <1>2 DEF VInv

\* Until two calls race, the volume can be mounted again at every step: the
\* records on the disk name chains that end and share no cluster, whatever
\* fails short of a torn truncate.
THEOREM StaysSound == Spec => []VolumeSound
<1>1. Init => VInv
  <2> SUFFICES ASSUME Init PROVE VInv
    OBVIOUS
  <2>1. PICK ch : ch = [s \in Slot |-> <<>>]
    OBVIOUS
  <2>2. Exclusive /\ Owned(ch)
    BY <2>1, InitOwned
  <2>3. failures \in Nat
    BY DEF Init
  <2> QED
    BY <2>2, <2>3, InitTypes DEF VInv
<1>2. VInv /\ [Next]_vars => VInv'
  BY NextOwned
<1>3. VInv => VolumeSound
  <2> SUFFICES ASSUME VInv PROVE VolumeSound
    OBVIOUS
  <2>1. CASE torn \/ raced
    BY <2>1 DEF VolumeSound
  <2>2. CASE ~torn /\ ~raced
    BY <2>2, OwnedSound DEF VInv
  <2> QED
    BY <2>1, <2>2
<1> QED
  BY <1>1, <1>2, <1>3, PTL DEF Spec

-----------------------------------------------------------------------------
(* No cluster is lost.                                                     *)

\* The other tasks are where they were.
Apart(t) == \A u \in Task \ {t} : pc'[u] = pc[u] /\ loc'[u] = loc[u] /\ file'[u] = file[u]

\* What a task knows as long as no cluster was lost.
Known(R, p, l, f) ==
    f.slot # None => R[f.slot].used /\ (p # "w_dir" /\ ~Freed(p, l) => R[f.slot].first = f.ino)

Taken(t, c) == Loose(pc[t], loc[t]) /\ loc[t].new = c
Chained(ch, c) == \E s \in Slot : c \in On(ch[s])

\* Every cluster in use is on a chain, or a call has just taken it.
InUse(ch) ==
    ~leaky => /\ \A c \in Cluster : fat[c] # Free => Chained(ch, c) \/ \E t \in Task : Taken(t, c)
              /\ \A t \in Task : Known(dir, pc[t], loc[t], file[t])

\* Where a cluster in use after a step of t comes from.
Traced(t, ch, ch1, c) ==
    fat'[c] # Free => \/ Chained(ch1, c)
                      \/ Taken(t, c)'
                      \/ fat[c] # Free /\ ~Chained(ch, c) /\ ~Taken(t, c)

LEMMA InUseCarries ==
    ASSUME TInv, Exclusive, NEW ch, InUse(ch), NEW ch1, NEW t \in Task, Apart(t), leaky' = leaky,
           \A s \in Slot \ UsedBy(loc[t], file[t]) : dir'[s] = dir[s],
           Known(dir', pc'[t], loc'[t], file'[t]),
           \A c \in Cluster : Traced(t, ch, ch1, c)
    PROVE  InUse(ch1)'
<1> SUFFICES ASSUME ~leaky
             PROVE  /\ \A c \in Cluster : fat'[c] # Free => Chained(ch1, c) \/ \E u \in Task : Taken(u, c)'
                    /\ \A u \in Task : Known(dir', pc'[u], loc'[u], file'[u])
  BY DEF InUse, Chained
<1>1. ASSUME NEW c \in Cluster, fat'[c] # Free PROVE Chained(ch1, c) \/ \E u \in Task : Taken(u, c)'
  <2>1. CASE fat[c] # Free /\ ~Chained(ch, c) /\ ~Taken(t, c)
    <3>1. PICK u \in Task : Taken(u, c)
      BY <2>1 DEF InUse
    <3>2. Taken(u, c)'
      BY <2>1, <3>1 DEF Taken, Apart
    <3> QED
      BY <3>2
  <2> QED
    BY <1>1, <2>1 DEF Traced
<1>2. ASSUME NEW u \in Task PROVE Known(dir', pc'[u], loc'[u], file'[u])
  <2>1. CASE u = t
    BY <2>1
  <2>2. CASE u # t
    <3>1. file[u].slot # None => file[u].slot \in UsedBy(loc[u], file[u])
      BY FilesFields DEF UsedBy, TInv, Tasks
    <3>2. file[u].slot # None => dir'[file[u].slot] = dir[file[u].slot]
      BY <2>2, <3>1 DEF Exclusive, UsedBy
    <3>3. Known(dir, pc[u], loc[u], file[u])
      BY DEF InUse
    <3> QED
      BY <2>2, <3>2, <3>3 DEF Known, Apart
  <2> QED
    BY <2>1, <2>2
<1> QED
  BY <1>1, <1>2

\* The table and the chains stay as they are.
LEMMA TracedSame ==
    ASSUME UNCHANGED fat, NEW ch, NEW ch1, \A s \in Slot : On(ch[s]) \subseteq On(ch1[s]), NEW t \in Task,
           Loose(pc[t], loc[t]) => Loose(pc'[t], loc'[t]) /\ loc'[t].new = loc[t].new
    PROVE  \A c \in Cluster : Traced(t, ch, ch1, c)
BY DEF Traced, Chained, Taken

\* A step of a call that leaves the table, the directory and the chains.
LEMMA InUseLocal ==
    ASSUME TInv, Exclusive, NEW ch, InUse(ch), NEW t \in Task, Apart(t),
           UNCHANGED <<fat, dir, leaky>>, ~Loose(pc[t], loc[t]), ~leaky => Known(dir, pc'[t], loc'[t], file'[t])
    PROVE  InUse(ch)'
<1>1. \A c \in Cluster : Traced(t, ch, ch, c)
  BY TracedSame
<1> QED
  BY <1>1, InUseCarries DEF InUse

\* What t knows before its step.
LEMMA Knows ==
    ASSUME TInv, NEW ch, Owned(ch), InUse(ch), NEW t \in Task
    PROVE  /\ ~leaky => Known(dir, pc[t], loc[t], file[t])
           /\ Sane(fat, dfat, dir, data, pc[t], loc[t], file[t], ch)
           /\ Fit(pc[t], loc[t], file[t]) /\ loc[t] \in Locals /\ file[t] \in Files
           /\ t \in DOMAIN pc /\ t \in DOMAIN loc /\ t \in DOMAIN file
BY DEF TInv, Tasks, InUse, Owned

LEMMA OpenUse ==
    ASSUME TInv, Exclusive, NEW ch, Owned(ch), InUse(ch), NEW t \in Task, NEW s \in Slot, Open(t, s)
    PROVE  InUse(ch)'
<1>1. Apart(t) /\ UNCHANGED <<fat, dir, leaky>> /\ ~Loose(pc[t], loc[t])
  BY DEF Open, Apart, disk, past, Loose
<1>2. /\ pc'[t] = "idle" /\ loc'[t] = loc[t] /\ file'[t].slot = s /\ file'[t].ino = dir[s].first
      /\ dir[s].used
  BY Knows DEF Open
<1>3. Known(dir, pc'[t], loc'[t], file'[t])
  BY <1>2 DEF Known
<1> QED
  BY <1>1, <1>3, InUseLocal

LEMMA SeekUse ==
    ASSUME TInv, Exclusive, NEW ch, Owned(ch), InUse(ch), NEW t \in Task, NEW p \in 0 .. MaxSize - 1, Seek(t, p)
    PROVE  InUse(ch)'
<1>1. Apart(t) /\ UNCHANGED <<fat, dir, leaky>> /\ ~Loose(pc[t], loc[t])
  BY DEF Seek, Apart, disk, past, Loose
<1>2. pc'[t] = pc[t] /\ loc'[t] = loc[t] /\ file'[t].slot = file[t].slot /\ file'[t].ino = file[t].ino
  BY Knows DEF Seek, Files
<1>3. ~leaky => Known(dir, pc'[t], loc'[t], file'[t])
  BY <1>2, Knows DEF Known
<1> QED
  BY <1>1, <1>3, InUseLocal

LEMMA AcquireUse ==
    ASSUME TInv, Exclusive, NEW ch, Owned(ch), InUse(ch), NEW t \in Task, Acquire(t)
    PROVE  InUse(ch)'
<1>1. Apart(t) /\ UNCHANGED <<fat, dir, leaky>> /\ ~Loose(pc[t], loc[t])
  BY DEF Acquire, Goto, Apart, disk, past, Loose
<1>2. /\ pc[t] \in {"w_lock", "t_lock", "r_lock", "n_lock"} /\ loc'[t] = loc[t] /\ file'[t] = file[t]
      /\ pc'[t] \in {"w_top", "t_free", "r_read", "n_read"}
  BY Knows DEF Acquire, Goto
<1>3. ~leaky => Known(dir, pc'[t], loc'[t], file'[t])
  BY <1>2, Knows DEF Known, Freed
<1> QED
  BY <1>1, <1>3, InUseLocal

LEMMA WriteUse ==
    ASSUME TInv, Exclusive, NEW ch, Owned(ch), InUse(ch), NEW t \in Task, NEW n \in 1 .. MaxSize, NEW v \in Value, Write(t, n, v)
    PROVE  InUse(ch)'
<1>1. Apart(t) /\ UNCHANGED <<fat, dir, leaky>> /\ ~Loose(pc[t], loc[t])
  BY DEF Write, Goto, Set, Apart, disk, past, Loose
<1>2. pc[t] = "idle" /\ file'[t] = file[t] /\ pc'[t] = "w_lock"
  BY Knows DEF Write, Goto
<1>3. ~leaky => Known(dir, pc'[t], loc'[t], file'[t])
  BY <1>2, Knows DEF Known, Freed
<1> QED
  BY <1>1, <1>3, InUseLocal

\* A task that returns, or goes on in its call without a change to the volume.
LEMMA StepsUse ==
    ASSUME TInv, Exclusive, NEW ch, Owned(ch), InUse(ch), NEW t \in Task, UNCHANGED <<fat, dir, leaky>>, Apart(t),
           file'[t] = file[t], ~Loose(pc[t], loc[t]), pc[t] # "w_dir",
           ~Freed(pc'[t], loc'[t]) => ~Freed(pc[t], loc[t])
    PROVE  InUse(ch)'
<1>1. ~leaky => Known(dir, pc'[t], loc'[t], file'[t])
  BY Knows DEF Known
<1> QED
  BY <1>1, InUseLocal

LEMMA WriteTurnUse ==
    ASSUME TInv, Exclusive, NEW ch, Owned(ch), InUse(ch), NEW t \in Task, WriteTurn(t)
    PROVE  InUse(ch)'
<1>1. /\ Apart(t) /\ UNCHANGED <<fat, dir, leaky>> /\ ~Loose(pc[t], loc[t]) /\ pc[t] = "w_top" /\ file'[t] = file[t]
  BY DEF WriteTurn, Goto, Set, Apart, disk, past, Loose, TInv, Tasks
<1>2. ~Freed(pc[t], loc[t])
  BY <1>1 DEF Freed
<1> QED
  BY <1>1, <1>2, StepsUse

LEMMA WriteZeroUse ==
    ASSUME TInv, Exclusive, NEW ch, Owned(ch), InUse(ch), NEW t \in Task, WriteZero(t)
    PROVE  InUse(ch)'
<1>1. /\ Apart(t) /\ UNCHANGED <<fat, dir, leaky>> /\ ~Loose(pc[t], loc[t]) /\ pc[t] = "w_zero" /\ file'[t] = file[t]
  BY DEF WriteZero, Goto, Apart, Loose, TInv, Tasks
<1>2. ~Freed(pc[t], loc[t])
  BY <1>1 DEF Freed
<1> QED
  BY <1>1, <1>2, StepsUse

LEMMA WriteDataUse ==
    ASSUME TInv, Exclusive, NEW ch, Owned(ch), InUse(ch), NEW t \in Task, WriteData(t)
    PROVE  InUse(ch)'
<1>1. /\ Apart(t) /\ UNCHANGED <<fat, dir, leaky>> /\ ~Loose(pc[t], loc[t]) /\ pc[t] = "w_data" /\ file'[t] = file[t]
  BY DEF WriteData, Goto, Set, Apart, Loose, TInv, Tasks
<1>2. ~Freed(pc[t], loc[t])
  BY <1>1 DEF Freed
<1> QED
  BY <1>1, <1>2, StepsUse

LEMMA WriteEndUse ==
    ASSUME TInv, Exclusive, NEW ch, Owned(ch), InUse(ch), NEW t \in Task, WriteEnd(t), NEW ch1,
           ch1 = IF loc[t].done = 0 THEN Shut(ch, file[t].slot, file[t].ino) ELSE ch
    PROVE  InUse(ch1)'
<1> DEFINE s == file[t].slot
<1>1. CASE leaky'
  BY <1>1 DEF InUse
<1>2. CASE ~leaky'
  <2>1. /\ Apart(t) /\ UNCHANGED <<fat, dir, leaky>> /\ ~Loose(pc[t], loc[t]) /\ pc[t] = "w_end"
        /\ loc[t].done = 0 => pc'[t] = "idle" /\ file'[t] = file[t] /\ loc[t].cur = file[t].ino
        /\ loc[t].done # 0 => pc'[t] = "w_dir"
    <3>1. UNCHANGED <<fat, dir>> /\ ~Loose(pc[t], loc[t]) /\ pc[t] = "w_end"
      BY DEF WriteEnd, disk, Loose
    <3>2. CASE loc[t].done = 0
      <4>1. Leave(t) /\ leaky' = (IF loc[t].cur = file[t].ino THEN leaky ELSE TRUE) /\ UNCHANGED file
        BY <3>2 DEF WriteEnd
      <4>2. UNCHANGED leaky /\ loc[t].cur = file[t].ino
        BY <1>2, <4>1 DEF TInv
      <4>3. Apart(t) /\ pc'[t] = "idle" /\ file'[t] = file[t]
        BY <4>1 DEF Leave, Return, Goto, Set, Apart, TInv, Tasks
      <4> QED
        BY <3>1, <3>2, <4>2, <4>3
    <3>3. CASE loc[t].done # 0
      <4>1. UNCHANGED leaky /\ Goto(t, "w_dir")
        BY <3>3 DEF WriteEnd
      <4>2. Apart(t) /\ pc'[t] = "w_dir"
        BY <3>3 DEF WriteEnd, Goto, Set, Apart, TInv, Tasks
      <4> QED
        BY <3>1, <3>3, <4>1, <4>2
    <3> QED
      BY <3>2, <3>3
  <2>2. /\ dir[s].used /\ dir[s].first = file[t].ino /\ s # None /\ s \in Slot
        /\ Starts(ch[s], loc[t].cur)
    BY <1>2, <2>1, Knows, FilesFields DEF Known, Fit, Writing, Freed, Sane, Owner, Mine, Busy
  <2>3. CASE loc[t].done # 0
    <3>1. file'[t].slot = s
      BY <2>3, Knows DEF WriteEnd, Files
    <3>2. Known(dir, pc'[t], loc'[t], file'[t])
      BY <2>1, <2>2, <2>3, <3>1 DEF Known
    <3> QED
      BY <2>1, <2>3, <3>2, InUseLocal
  <2>4. CASE loc[t].done = 0
    <3>1. file[t].ino = 0 => ch[s] = <<>>
      <4>1. ch[s] # <<>> => ch[s][1] \in Cluster
        BY <2>2, PathShorter DEF Owned, Chains, TInv, Volume
      <4> QED
        BY <2>1, <2>2, <2>4, <4>1, Numbers DEF Starts
    <3>2. ch \in [Slot -> Seq(Cluster)] /\ ch1 = Shut(ch, s, file[t].ino)
      BY <2>4 DEF Owned, Chains
    <3>3. \A r \in Slot : ch1[r] = ch[r]
      <4> HIDE DEF s
      <4> QED
        BY <2>2, <3>1, <3>2 DEF Shut
    <3>4. \A d \in Cluster : Traced(t, ch, ch1, d)
      BY <2>1, <3>3, TracedSame
    <3>5. Known(dir', pc'[t], loc'[t], file'[t])
      BY <2>1, <2>2, <2>4 DEF Known
    <3> QED
      BY <2>1, <3>4, <3>5, InUseCarries
  <2> QED
    BY <2>3, <2>4
<1> QED
  BY <1>1, <1>2

\* A cluster goes to the end of a chain.
LEMMA TracedLonger ==
    ASSUME NEW ch \in [Slot -> Seq(Cluster)], NEW s \in Slot, NEW n \in Cluster, NEW ch1, ch1 = Longer(ch, s, n), NEW t \in Task,
           \A d \in Cluster \ {n} : (fat'[d] # Free => fat[d] # Free) /\ ~Taken(t, d)
    PROVE  \A c \in Cluster : Traced(t, ch, ch1, c)
<1>1. On(ch1[s]) = On(ch[s]) \cup {n} /\ \A r \in Slot \ {s} : ch1[r] = ch[r]
  BY OnLonger DEF Longer
<1>2. \A c \in Cluster : Chained(ch, c) \/ c = n => Chained(ch1, c)
  BY <1>1 DEF Chained
<1> QED
  BY <1>2 DEF Traced

LEMMA WriteMarkUse ==
    ASSUME TInv, Exclusive, NEW ch, Owned(ch), InUse(ch), NEW t \in Task, WriteMark(t), NEW ch1,
           ch1 = IF loc[t].at = None /\ pc'[t] = "w_top" THEN Longer(ch, file[t].slot, loc[t].new) ELSE ch
    PROVE  InUse(ch1)'
<1> DEFINE n == loc[t].new
<1>0. /\ Apart(t) /\ UNCHANGED <<dir, leaky>> /\ pc[t] = "w_mark" /\ file'[t] = file[t]
  BY DEF WriteMark, Goto, Set, Apart, TInv, Tasks
<1>3. CASE SetFatFails(n, EOC) /\ pc'[t] = "w_end"
  <2>1. ch1 = ch /\ UNCHANGED fat /\ ~Loose(pc[t], loc[t]) /\ ~Freed(pc[t], loc[t])
    BY <1>0, <1>3 DEF SetFatFails, Loose, Freed
  <2> QED
    BY <1>0, <1>3, <2>1, StepsUse
<1>4. CASE leaky
  BY <1>0, <1>4 DEF InUse
<1>2. CASE ~leaky /\ SetFat(n, EOC) /\ pc'[t] # "w_end"
  <2>1. /\ Apart(t) /\ UNCHANGED <<dir, leaky>> /\ pc[t] = "w_mark" /\ file'[t] = file[t]
    BY <1>0
  <2>2. n \in Cluster /\ file[t].slot \in Slot /\ fat \in [Cluster -> Links] /\ ch \in [Slot -> Seq(Cluster)]
    BY <2>1, Knows, LocalsFields, FilesFields DEF Fit, Writing, TInv, Volume, Owned, Chains
  <2>3. SetFat(n, EOC)
    BY <1>2
  <2>4. \A d \in Cluster \ {n} : (fat'[d] # Free => fat[d] # Free) /\ ~Taken(t, d)
    BY <2>1, <2>2, <2>3 DEF SetFat, Taken, Loose
  <2>5. /\ loc[t].at = None => pc'[t] = "w_top"
        /\ loc[t].at # None => pc'[t] = "w_link" /\ loc'[t] = loc[t]
    BY <1>2, Knows DEF WriteMark, Goto
  <2>6. \A c \in Cluster : Traced(t, ch, ch1, c)
    <3>1. CASE loc[t].at = None
      BY <2>2, <2>4, <2>5, <3>1, TracedLonger
    <3>2. CASE loc[t].at # None
      BY <2>2, <2>4, <2>5, <3>2 DEF Traced, Taken, Loose
    <3> QED
      BY <3>1, <3>2
  <2>7. ~Freed(pc[t], loc[t]) /\ Known(dir, pc[t], loc[t], file[t])
    BY <1>2, <2>1, Knows DEF Freed
  <2>8. Known(dir', pc'[t], loc'[t], file'[t])
    BY <2>1, <2>5, <2>7 DEF Known
  <2> QED
    BY <2>1, <2>6, <2>8, InUseCarries
<1>5. \/ SetFatFails(n, EOC) /\ pc'[t] = "w_end"
      \/ SetFat(n, EOC) /\ pc'[t] # "w_end"
  BY DEF WriteMark, Goto, TInv, Tasks
<1> QED
  BY <1>2, <1>3, <1>4, <1>5

LEMMA WriteLinkUse ==
    ASSUME TInv, Exclusive, NEW ch, Owned(ch), InUse(ch), NEW t \in Task, WriteLink(t), NEW ch1,
           ch1 = IF pc'[t] = "w_top" THEN Longer(ch, file[t].slot, loc[t].new) ELSE ch
    PROVE  InUse(ch1)'
<1> DEFINE n == loc[t].new
<1>0. /\ Apart(t) /\ UNCHANGED <<dir, leaky>> /\ pc[t] = "w_link" /\ file'[t] = file[t] /\ loc'[t] = loc[t]
  BY DEF WriteLink, Goto, Apart, TInv, Tasks
<1>4. CASE leaky
  BY <1>0, <1>4 DEF InUse
<1>3. CASE ~leaky /\ UNCHANGED fat /\ pc'[t] = "w_undo"
  <2>1. \A c \in Cluster : Traced(t, ch, ch1, c)
    BY <1>0, <1>3, TracedSame DEF Loose
  <2>2. Known(dir', pc'[t], loc'[t], file'[t])
    BY <1>0, <1>3, Knows DEF Known, Freed
  <2> QED
    BY <1>0, <2>1, <2>2, InUseCarries
<1>2. CASE ~leaky /\ SetFat(loc[t].at, n) /\ pc'[t] = "w_top"
  <2>1. /\ Apart(t) /\ UNCHANGED <<dir, leaky>> /\ pc[t] = "w_link" /\ file'[t] = file[t]
    BY <1>0
  <2>2. n \in Cluster /\ file[t].slot \in Slot /\ fat \in [Cluster -> Links] /\ ch \in [Slot -> Seq(Cluster)]
    BY <2>1, Knows, LocalsFields, FilesFields DEF Fit, Writing, TInv, Volume, Owned, Chains
  <2>3. SetFat(loc[t].at, n) /\ pc'[t] = "w_top"
    BY <1>2
  <2>4. loc[t].at \in Cluster /\ fat[loc[t].at] # Free
    <3>1. Path(fat, ch[file[t].slot]) /\ ch[file[t].slot] # <<>>
          /\ loc[t].at = ch[file[t].slot][Len(ch[file[t].slot])]
      BY <2>1, <2>2, Knows DEF Fit, Sane, Grower, Owned, Chains
    <3> QED
      BY <3>1, PathElements, Numbers
  <2>5. \A d \in Cluster \ {n} : (fat'[d] # Free => fat[d] # Free) /\ ~Taken(t, d)
    BY <2>1, <2>2, <2>3, <2>4 DEF SetFat, Taken
  <2>6. \A c \in Cluster : Traced(t, ch, ch1, c)
    BY <2>2, <2>3, <2>5, TracedLonger
  <2>7. ~Freed(pc[t], loc[t]) /\ Known(dir, pc[t], loc[t], file[t])
    BY <1>2, <2>1, Knows DEF Freed
  <2>8. Known(dir', pc'[t], loc'[t], file'[t])
    BY <2>1, <2>3, <2>7 DEF Known
  <2> QED
    BY <2>1, <2>6, <2>8, InUseCarries
<1>5. \/ UNCHANGED fat /\ pc'[t] = "w_undo"
      \/ SetFat(loc[t].at, n) /\ pc'[t] = "w_top"
  BY DEF WriteLink, SetFatFails, Goto, TInv, Tasks
<1> QED
  BY <1>2, <1>3, <1>4, <1>5

LEMMA WriteUndoUse ==
    ASSUME TInv, Exclusive, NEW ch, Owned(ch), InUse(ch), NEW t \in Task, WriteUndo(t)
    PROVE  InUse(ch)'
<1> DEFINE n == loc[t].new
<1>1. CASE leaky'
  BY <1>1 DEF InUse
<1>2. CASE ~leaky'
  <2>1. /\ Apart(t) /\ UNCHANGED <<dir, leaky>> /\ pc[t] = "w_undo" /\ pc'[t] = "w_end" /\ file'[t] = file[t]
        /\ SetFat(n, Free)
    BY <1>2 DEF WriteUndo, Goto, Apart, TInv, Tasks
  <2>2. fat \in [Cluster -> Links]
    BY DEF TInv, Volume
  <2>3. \A c \in Cluster : Traced(t, ch, ch, c)
    BY <2>1, <2>2 DEF Traced, Taken, SetFat
  <2>4. Known(dir', pc'[t], loc'[t], file'[t])
    BY <1>2, <2>1, Knows DEF Known, Freed
  <2> QED
    BY <2>1, <2>3, <2>4, InUseCarries
<1> QED
  BY <1>1, <1>2

LEMMA WriteDirUse ==
    ASSUME TInv, Exclusive, NEW ch, Owned(ch), InUse(ch), NEW t \in Task, WriteDir(t)
    PROVE  InUse(ch)'
<1> DEFINE l == loc[t]
           f == file[t]
<1>1. CASE leaky'
  BY <1>1 DEF InUse
<1>2. CASE ~leaky'
  <2>1. /\ Apart(t) /\ UNCHANGED <<fat, leaky>> /\ pc[t] = "w_dir" /\ pc'[t] = "idle" /\ loc'[t] = NoLocals
        /\ file'[t] = [f EXCEPT !.pos = @ + l.done]
        /\ dir' = [l.buf EXCEPT ![f.slot] = [l.buf[f.slot] EXCEPT !.first = f.ino, !.size = f.size]]
    BY <1>2 DEF WriteDir, Leave, Return, Goto, Set, Apart, TInv, Tasks
  <2>2. /\ l.buf = dir /\ f.slot # None /\ f.slot \in Slot /\ dir \in [Slot -> Entry] /\ f \in Files
    BY <2>1, Knows, FilesFields DEF Sane, Namer, Fit, Writing, TInv, Volume
  <2>3. dir[f.slot].used
    BY <1>2, <2>1, <2>2, Knows DEF Known
  <2> DEFINE e == [dir[f.slot] EXCEPT !.first = f.ino, !.size = f.size]
  <2>4. dir' = [dir EXCEPT ![f.slot] = e] /\ e.used /\ e.first = f.ino
    BY <2>1, <2>2, <2>3 DEF Entry
  <2>5. file'[t].slot = f.slot /\ file'[t].ino = f.ino
    BY <2>1, <2>2 DEF Files
  <2> HIDE DEF f, l, e
  <2>6. dir'[f.slot] = e /\ \A s \in Slot \ {f.slot} : dir'[s] = dir[s]
    BY <2>2, <2>4
  <2>7. Known(dir', pc'[t], loc'[t], file'[t])
    BY <2>1, <2>4, <2>5, <2>6 DEF Known
  <2>8. \A c \in Cluster : Traced(t, ch, ch, c)
    BY <2>1, TracedSame DEF Loose
  <2>9. \A s \in Slot \ UsedBy(loc[t], file[t]) : dir'[s] = dir[s]
    BY <2>6 DEF UsedBy, f
  <2> QED
    BY <2>1, <2>7, <2>8, <2>9, InUseCarries
<1> QED
  BY <1>1, <1>2

LEMMA TruncateUse ==
    ASSUME TInv, Exclusive, NEW ch, Owned(ch), InUse(ch), NEW t \in Task, Truncate(t)
    PROVE  InUse(ch)'
<1>1. Apart(t) /\ UNCHANGED <<fat, dir, leaky>> /\ pc[t] = "idle" /\ pc'[t] = "t_lock" /\ file'[t] = file[t]
  BY DEF Truncate, Goto, Set, Apart, disk, past, TInv, Tasks
<1>2. ~Loose(pc[t], loc[t]) /\ ~Freed(pc[t], loc[t])
  BY <1>1 DEF Loose, Freed
<1> QED
  BY <1>1, <1>2, StepsUse

LEMMA FreeOneUse ==
    ASSUME TInv, Exclusive, NEW ch, Owned(ch), InUse(ch), NEW t \in Task, FreeOne(t), NEW ch1,
           ch1 = IF pc'[t] # "idle" THEN Shorter(ch, FreeSlot(t))
                 ELSE IF pc[t] = "r_free" THEN Shut(ch, FreeSlot(t), 0) ELSE ch
    PROVE  InUse(ch1)'
<1> DEFINE l == loc[t]
           s == FreeSlot(t)
           c == l.cur
<1>1. CASE leaky'
  BY <1>1 DEF InUse
<1>2. CASE ~leaky'
  <2>1. /\ Apart(t) /\ UNCHANGED <<dir, leaky>> /\ pc[t] \in {"t_free", "r_free"} /\ pc'[t] = pc[t] /\ file'[t] = file[t]
        /\ SetFat(c, Free) /\ loc'[t] = [l EXCEPT !.cur = fat[c], !.freed = TRUE] /\ c \in Cluster
    BY <1>2 DEF FreeOne, Set, Apart, TInv, Tasks, past, Valid
  <2>2. s \in Slot /\ Starts(ch[s], c)
    <3>1. CASE pc[t] = "t_free"
      BY <2>1, <3>1, Knows, FilesFields DEF Fit, Cutting, Sane, Owner, Mine, Busy, FreeSlot
    <3>2. CASE pc[t] = "r_free"
      BY <2>1, <3>2, Knows, LocalsFields DEF Fit, Removing, Sane, Namer, FreeSlot
    <3> QED
      BY <2>1, <3>1, <3>2
  <2>3. ch[s] # <<>> /\ ch[s][1] = c
    BY <2>1, <2>2 DEF Starts
  <2>4. ch1 = Shorter(ch, s)
    BY <2>1
  <2> HIDE DEF s, c
  <2>5. /\ \A r \in Slot \ {s} : ch1[r] = ch[r]
        /\ On(ch[s]) = On(ch1[s]) \cup {c}
    <3>1. Free \in Links /\ SetFat(ch[s][1], Free)
      BY <2>1, <2>3 DEF Links
    <3> QED
      BY <2>2, <2>3, <2>4, <3>1, ShorterChains
  <2>6. fat'[c] = Free /\ \A d \in Cluster \ {c} : fat'[d] = fat[d]
    BY <2>1 DEF SetFat, TInv, Volume
  <2>7. \A d \in Cluster \ {c} : Chained(ch, d) => Chained(ch1, d)
    BY <2>5 DEF Chained
  <2>8. \A d \in Cluster : ~Taken(t, d)
    BY <2>1 DEF Taken, Loose
  <2>9. \A d \in Cluster : Traced(t, ch, ch1, d)
    BY <2>6, <2>7, <2>8 DEF Traced
  <2>10. Freed(pc'[t], loc'[t]) \/ pc'[t] = "r_free"
    BY <2>1, Knows DEF Freed, Locals
  <2>11. pc[t] = "r_free" => file[t].slot = None
    BY Knows DEF Sane, Owner, Writing, Cutting
  <2>12. Known(dir', pc'[t], loc'[t], file'[t])
    BY <1>2, <2>1, <2>10, <2>11, Knows DEF Known
  <2> QED
    BY <2>1, <2>9, <2>12, InUseCarries
<1> QED
  BY <1>1, <1>2

LEMMA ReadUse ==
    ASSUME TInv, Exclusive, NEW ch, Owned(ch), InUse(ch), NEW t \in Task, TruncateRead(t) \/ RemoveRead(t) \/ RenameRead(t)
    PROVE  InUse(ch)'
<1>1. /\ Apart(t) /\ UNCHANGED <<fat, dir, leaky>> /\ file'[t] = file[t]
      /\ \/ pc[t] = "t_free" /\ pc'[t] = "t_dir" /\ loc'[t] = [loc[t] EXCEPT !.buf = dir]
         \/ pc[t] \in {"r_read", "n_read"} /\ pc'[t] \in {"r_dir", "n_dir", "idle"}
  BY DEF TruncateRead, RemoveRead, RenameRead, Leave, Return, Goto, Set, Apart, disk, past, TInv, Tasks
<1>2. ~Loose(pc[t], loc[t])
  BY <1>1 DEF Loose
<1>3. ~Freed(pc'[t], loc'[t]) => ~Freed(pc[t], loc[t])
  BY <1>1, Knows DEF Freed, Locals
<1> QED
  BY <1>1, <1>2, <1>3, StepsUse

LEMMA TruncateDirUse ==
    ASSUME TInv, Exclusive, NEW ch, Owned(ch), InUse(ch), NEW t \in Task, TruncateDir(t), ~torn'
    PROVE  InUse(ch)'
<1> DEFINE l == loc[t]
           f == file[t]
<1>1. /\ Apart(t) /\ UNCHANGED <<fat, leaky>> /\ pc[t] = "t_dir" /\ pc'[t] = "idle" /\ loc'[t] = NoLocals
  BY DEF TruncateDir, Leave, Return, Goto, Set, Apart, TInv, Tasks, past
<1>2. \A c \in Cluster : Traced(t, ch, ch, c)
  BY <1>1, TracedSame DEF Loose
<1>3. /\ l.buf = dir /\ f.slot # None /\ f.slot \in Slot /\ dir \in [Slot -> Entry] /\ f \in Files
  BY <1>1, Knows, FilesFields DEF Sane, Namer, Fit, Cutting, TInv, Volume
<1>4. CASE UNCHANGED <<dir, file>> /\ ~l.freed
  <2>1. ~Freed(pc[t], l)
    BY <1>4 DEF Freed
  <2>2. ~leaky => Known(dir', pc'[t], loc'[t], file'[t])
    BY <1>1, <1>4, <2>1, Knows DEF Known
  <2> QED
    BY <1>1, <1>2, <1>4, <2>2, InUseCarries DEF InUse
<1>5. ASSUME dir' = [l.buf EXCEPT ![f.slot].first = 0, ![f.slot].size = 0], NEW h, file'[t] = h, h.slot = f.slot, h.ino = 0
      PROVE  InUse(ch)'
  <2>1. dir'[f.slot].first = 0 /\ dir'[f.slot].used = dir[f.slot].used /\ \A r \in Slot \ {f.slot} : dir'[r] = dir[r]
    <3> DEFINE b == [dir EXCEPT ![f.slot].first = 0]
    <3> HIDE DEF f
    <3>1. /\ b \in [Slot -> Entry] /\ b[f.slot].first = 0 /\ b[f.slot].used = dir[f.slot].used
          /\ \A r \in Slot \ {f.slot} : b[r] = dir[r]
      BY <1>3, Numbers DEF Entry
    <3>2. dir' = [b EXCEPT ![f.slot].size = 0]
      BY <1>3, <1>5
    <3> HIDE DEF b
    <3> QED
      BY <1>3, <3>1, <3>2 DEF Entry
  <2>2. file'[t].slot = f.slot /\ file'[t].ino = 0
    BY <1>5
  <2> HIDE DEF f
  <2>3. ~leaky => Known(dir', pc'[t], loc'[t], file'[t])
    <3>1. ~leaky => dir[f.slot].used
      BY <1>3, Knows DEF Known, f
    <3> QED
      BY <1>1, <2>1, <2>2, <3>1 DEF Known
  <2>4. \A r \in Slot \ UsedBy(loc[t], file[t]) : dir'[r] = dir[r]
    BY <1>3, <2>1 DEF UsedBy, f
  <2> QED
    BY <1>1, <1>2, <2>3, <2>4, InUseCarries DEF InUse
<1>6. ~l.freed => f.ino = 0
  <2>1. ~l.freed => f.ino = l.cur /\ l.cur \notin Cluster
    BY <1>1, <1>3, Knows DEF Sane, Owner
  <2> QED
    BY <1>3, <2>1, FilesFields
<1>7. /\ Emptied(f).slot = f.slot /\ Emptied(f).ino = 0
      /\ \/ UNCHANGED <<dir, file>> /\ ~l.freed
         \/ /\ dir' = [l.buf EXCEPT ![f.slot].first = 0, ![f.slot].size = 0]
            /\ file'[t] = Emptied(f) \/ (file'[t] = f /\ ~l.freed)
  <2>1. Emptied(f).slot = f.slot /\ Emptied(f).ino = 0
    BY <1>3 DEF Emptied, Files
  <2>2. \/ UNCHANGED <<dir, file>> /\ ~l.freed
        \/ /\ dir' = [l.buf EXCEPT ![f.slot].first = 0, ![f.slot].size = 0]
           /\ file'[t] = Emptied(f) \/ (file'[t] = f /\ ~l.freed)
    BY DEF TruncateDir, InDoubt, Emptied, TInv, Tasks
  <2> QED
    BY <2>1, <2>2
<1>8. PICK h : h = file'[t]
  OBVIOUS
<1>9. (h.slot = f.slot /\ h.ino = 0) \/ (UNCHANGED <<dir, file>> /\ ~l.freed)
  BY <1>6, <1>7, <1>8
<1> QED
  BY <1>4, <1>5, <1>7, <1>8, <1>9

LEMMA UnlinkUse ==
    ASSUME TInv, Exclusive, NEW ch, Owned(ch), InUse(ch), NEW t \in Task, NEW s \in Slot, Unlink(t, s)
    PROVE  InUse(ch)'
<1>1. Apart(t) /\ UNCHANGED <<fat, dir, leaky>> /\ pc[t] = "idle" /\ pc'[t] = "r_lock" /\ file'[t] = file[t]
  BY DEF Unlink, Goto, Set, Apart, disk, past, TInv, Tasks
<1>2. ~Loose(pc[t], loc[t]) /\ ~Freed(pc[t], loc[t])
  BY <1>1 DEF Loose, Freed
<1> QED
  BY <1>1, <1>2, StepsUse

LEMMA RemoveDirUse ==
    ASSUME TInv, Exclusive, NEW ch, Owned(ch), InUse(ch), NEW t \in Task, RemoveDir(t), NEW ch1,
           ch1 = IF pc'[t] = "idle" /\ ~dir'[loc[t].slot].used THEN Shut(ch, loc[t].slot, 0) ELSE ch
    PROVE  InUse(ch1)'
<1> DEFINE l == loc[t]
           s == l.slot
<1>1. /\ Apart(t) /\ UNCHANGED fat /\ leaky' \in {leaky, TRUE} /\ pc[t] = "r_dir" /\ file'[t] = file[t]
      /\ pc'[t] \in {"r_free", "idle"} /\ (UNCHANGED dir \/ dir' = [l.buf EXCEPT ![s].used = FALSE])
      /\ pc'[t] = "idle" /\ ~UNCHANGED dir => leaky'
  <2> DEFINE removed == [l.buf EXCEPT ![s].used = FALSE]
  <2>1. UNCHANGED <<fat, file>> /\ pc[t] = "r_dir"
    BY DEF RemoveDir
  <2>2. CASE dir' = removed /\ Goto(t, "r_free") /\ UNCHANGED <<lock, loc, failures, leaky>>
    BY <2>1, <2>2 DEF Goto, Apart, TInv, Tasks
  <2>3. CASE InDoubt(removed) /\ Leave(t) /\ leaky' = (IF dir' = dir THEN leaky ELSE TRUE)
    <3>1. Apart(t) /\ pc'[t] = "idle"
      BY <2>1, <2>3 DEF Leave, Return, Goto, Set, Apart, TInv, Tasks
    <3>2. dir' \in {dir, removed} /\ leaky' \in {leaky, TRUE} /\ (~UNCHANGED dir => leaky')
      BY <2>3 DEF InDoubt, TInv
    <3> QED
      BY <2>1, <3>1, <3>2
  <2> QED
    BY <2>2, <2>3 DEF RemoveDir
<1>2. l.buf = dir /\ s # None /\ s \in Slot /\ file[t].slot = None
  BY <1>1, Knows, LocalsFields DEF Sane, Namer, Owner, Writing, Cutting, Fit, Removing
<1>6. CASE leaky'
  BY <1>6 DEF InUse
<1>7. ~leaky' => ch1 = ch
  <2>1. dir[s].used
    BY <1>1, Knows DEF Sane, Namer
  <2> QED
    BY <1>1, <2>1
<1>3. \A c \in Cluster : Traced(t, ch, ch, c)
  BY <1>1, TracedSame DEF Loose
<1>4. \A r \in Slot \ UsedBy(loc[t], file[t]) : dir'[r] = dir[r]
  BY <1>1, <1>2 DEF UsedBy, TInv, Volume
<1>5. Known(dir', pc'[t], loc'[t], file'[t])
  BY <1>1, <1>2 DEF Known
<1> QED
  BY <1>1, <1>3, <1>4, <1>5, <1>6, <1>7, InUseCarries

LEMMA RemoveEndUse ==
    ASSUME TInv, Exclusive, NEW ch, Owned(ch), InUse(ch), NEW t \in Task, RemoveEnd(t)
    PROVE  InUse(ch)'
<1>1. Apart(t) /\ UNCHANGED <<fat, dir, leaky>> /\ pc[t] = "r_free" /\ pc'[t] = "idle" /\ file'[t] = file[t]
  BY DEF RemoveEnd, Leave, Return, Goto, Set, Apart, disk, past, TInv, Tasks
<1>2. ~Loose(pc[t], loc[t]) /\ ~Freed(pc[t], loc[t])
  BY <1>1 DEF Loose, Freed
<1> QED
  BY <1>1, <1>2, StepsUse

LEMMA CreateUse ==
    ASSUME TInv, Exclusive, NEW ch, Owned(ch), InUse(ch), NEW t \in Task,
           NEW kind \in {"file", "dir", "rename"}, NEW from \in Slot \cup {None}, Create(t, kind, from)
    PROVE  InUse(ch)'
<1>1. Apart(t) /\ UNCHANGED <<fat, dir, leaky>> /\ pc[t] = "idle" /\ pc'[t] \in {"c_mark", "c_dir"} /\ file'[t] = file[t]
  BY DEF Create, Goto, Set, Apart, disk, past, TInv, Tasks
<1>2. ~Loose(pc[t], loc[t]) /\ ~Freed(pc[t], loc[t])
  BY <1>1 DEF Loose, Freed
<1> QED
  BY <1>1, <1>2, StepsUse

LEMMA CreateMarkUse ==
    ASSUME TInv, Exclusive, NEW ch, Owned(ch), InUse(ch), NEW t \in Task, CreateMark(t)
    PROVE  InUse(ch)'
<1> DEFINE n == loc[t].new
<1>0. /\ Apart(t) /\ UNCHANGED <<dir, leaky>> /\ pc[t] = "c_mark" /\ file'[t] = file[t]
      /\ \/ SetFat(n, EOC) /\ pc'[t] = "c_dir" /\ loc'[t] = loc[t]
         \/ UNCHANGED fat /\ pc'[t] = "idle"
  BY DEF CreateMark, SetFatFails, Return, Set, Goto, Apart, TInv, Tasks
<1>1. CASE UNCHANGED fat /\ pc'[t] = "idle"
  <2>1. ~Loose(pc[t], loc[t]) /\ ~Freed(pc[t], loc[t])
    BY <1>0 DEF Loose, Freed
  <2> QED
    BY <1>0, <1>1, <2>1, StepsUse
<1>2. CASE SetFat(n, EOC) /\ pc'[t] = "c_dir" /\ loc'[t] = loc[t]
  <2>1. /\ Apart(t) /\ UNCHANGED <<dir, leaky>> /\ pc[t] = "c_mark" /\ file'[t] = file[t]
        /\ SetFat(n, EOC) /\ pc'[t] = "c_dir" /\ loc'[t] = loc[t]
    BY <1>0, <1>2
  <2>2. loc[t].kind = "dir" /\ fat \in [Cluster -> Links] /\ file[t].slot = None
    BY <2>1, Knows DEF Fit, TInv, Volume, Sane, Owner, Writing, Cutting
  <2>3. \A c \in Cluster : Traced(t, ch, ch, c)
    BY <2>1, <2>2 DEF Traced, Taken, Loose, SetFat
  <2>4. Known(dir', pc'[t], loc'[t], file'[t])
    BY <2>1, <2>2 DEF Known
  <2> QED
    BY <2>1, <2>3, <2>4, InUseCarries
<1> QED
  BY <1>0, <1>1, <1>2

\* A task that uses a record without a name finds it without a chain.
LEMMA UnusedBare ==
    ASSUME TInv, Exclusive, NEW ch, Owned(ch), NEW t \in Task, NEW s \in Slot, s \in UsedBy(loc[t], file[t]),
           file[t].slot = None, pc[t] # "r_free", ~dir[s].used \/ dir[s].first = 0
    PROVE  ch[s] = <<>>
<1>1. Starts(ch[s], 0)
  BY UsedClosed DEF Closed
<1>2. ch[s] # <<>> => ch[s][1] \in Cluster
  BY PathShorter DEF Owned, Chains, TInv, Volume
<1> QED
  BY <1>1, <1>2, Numbers DEF Starts

LEMMA CreateDirUse ==
    ASSUME TInv, Exclusive, failures \in Nat, NEW ch, Owned(ch), InUse(ch), NEW t \in Task, CreateDir(t), NEW ch1,
           ch1 = IF loc[t].kind = "dir" /\ dir'[loc[t].to].used THEN Made(ch, loc[t].to, loc[t].new) ELSE ch
    PROVE  InUse(ch1)'
<1> DEFINE l == loc[t]
           s == l.to
           e == [used |-> TRUE, isdir |-> l.kind = "dir", first |-> l.new, size |-> 0]
           g == [NoFile EXCEPT !.slot = s]
<1>1. CASE leaky'
  BY <1>1 DEF InUse
<1>2. CASE ~leaky'
  <2>1. /\ Apart(t) /\ UNCHANGED <<fat, leaky>> /\ pc[t] = "c_dir" /\ dir' = [l.buf EXCEPT ![s] = e]
        /\ l.kind = "file" => pc'[t] = "idle" /\ loc'[t] = NoLocals /\ file'[t] = g
        /\ l.kind # "file" => file'[t] = file[t] /\ pc'[t] \in {"n_lock", "c_prep", "idle"}
    BY <1>2 DEF CreateDir, Return, Goto, Set, Apart, TInv, Tasks
  <2>2. /\ l.buf = dir /\ ~dir[s].used /\ (l.kind # "dir" => l.new = 0)
        /\ s \in Slot /\ s # None /\ file[t].slot = None /\ dir \in [Slot -> Entry]
    BY <2>1, Knows, LocalsFields DEF Sane, Namer, Owner, Writing, Cutting, Fit, Making, TInv, Volume
  <2>3. l.kind = "dir" => l.new \in Cluster
    BY <2>1, Knows, LocalsFields DEF Fit, Making
  <2>4. e.used /\ e.first = l.new /\ g.slot = s /\ g.ino = 0
    BY DEF NoFile
  <2>5. s \in UsedBy(loc[t], file[t])
    BY <2>2 DEF UsedBy
  <2> HIDE DEF e, g
  <2>6. dir'[s] = e /\ \A r \in Slot \ {s} : dir'[r] = dir[r]
    BY <2>1, <2>2
  <2>7. Known(dir', pc'[t], loc'[t], file'[t])
    BY <2>1, <2>2, <2>4, <2>6 DEF Known
  <2>8. \A c \in Cluster : Traced(t, ch, ch1, c)
    <3>1. CASE l.kind # "dir"
      BY <2>1, <3>1, TracedSame DEF Loose
    <3>2. CASE l.kind = "dir"
      <4>1. ch1 = Made(ch, s, l.new) /\ ch[s] = <<>> /\ ch \in [Slot -> Seq(Cluster)]
        BY <2>1, <2>2, <2>4, <2>5, <2>6, <3>2, UnusedBare, SMTT(30) DEF Owned, Chains
      <4>2. ch1[s] = <<l.new>> /\ \A r \in Slot \ {s} : ch1[r] = ch[r]
        BY <2>2, <4>1 DEF Made
      <4>3. l.new \in On(ch1[s]) /\ On(ch[s]) = {}
        <5>1. fat[l.new] = EOC
          BY <2>1, <3>2, Knows DEF Sane, Grower, Loose
        <5>2. On(<<l.new>>) = {l.new}
          BY <2>3, <3>2, <5>1, PathOne
        <5> QED
          BY <4>1, <4>2, <5>2, NoPath
      <4>4. \A c \in Cluster : Chained(ch, c) \/ c = l.new => Chained(ch1, c)
        BY <2>2, <4>2, <4>3 DEF Chained
      <4> QED
        BY <2>1, <4>4 DEF Traced, Taken
    <3> QED
      BY <3>1, <3>2
  <2> QED
    BY <2>1, <2>5, <2>6, <2>7, <2>8, InUseCarries
<1> QED
  BY <1>1, <1>2

LEMMA CreatePrepareUse ==
    ASSUME TInv, Exclusive, NEW ch, Owned(ch), InUse(ch), NEW t \in Task, CreatePrepare(t)
    PROVE  InUse(ch)'
<1>1. Apart(t) /\ UNCHANGED <<fat, dir, leaky>> /\ pc[t] = "c_prep" /\ pc'[t] = "idle" /\ file'[t] = file[t]
  BY DEF CreatePrepare, Return, Goto, Set, Apart, TInv, Tasks
<1>2. ~Loose(pc[t], loc[t]) /\ ~Freed(pc[t], loc[t])
  BY <1>1 DEF Loose, Freed
<1> QED
  BY <1>1, <1>2, StepsUse

LEMMA RenameDirUse ==
    ASSUME TInv, Exclusive, NEW ch, Owned(ch), InUse(ch), NEW t \in Task, RenameDir(t), NEW ch1,
           ch1 = IF dir'[loc[t].slot].used THEN ch ELSE Renamed(ch, loc[t].slot, loc[t].to)
    PROVE  InUse(ch1)'
<1> DEFINE l == loc[t]
           s == l.slot
           r == l.to
<1>1. /\ Apart(t) /\ UNCHANGED <<fat, leaky>> /\ pc[t] = "n_dir" /\ pc'[t] = "idle" /\ file'[t] = file[t]
      /\ UNCHANGED dir \/ dir' = [l.buf EXCEPT ![s].used = FALSE, ![r] = l.buf[s]]
  BY DEF RenameDir, InDoubt, Leave, Return, Goto, Set, Apart, TInv, Tasks
<1>2. /\ l.buf = dir /\ file[t].slot = None /\ dir \in [Slot -> Entry] /\ ch \in [Slot -> Seq(Cluster)]
      /\ s \in Slot /\ r \in Slot /\ s # None /\ r # None /\ r # s /\ (dir[r].used => dir[r].first = 0)
  <2>1. l.buf = dir /\ r # s /\ (dir[r].used => dir[r].first = 0)
    BY <1>1, Knows DEF Sane, Namer, Renaming
  <2>2. file[t].slot = None
    BY <1>1, Knows DEF Sane, Owner, Writing, Cutting
  <2>3. s \in Slot /\ r \in Slot /\ s # None /\ r # None
    BY <1>1, Knows, LocalsFields DEF Fit, Renaming, Making
  <2>4. dir \in [Slot -> Entry] /\ ch \in [Slot -> Seq(Cluster)]
    BY DEF TInv, Volume, Owned, Chains
  <2> QED
    BY <2>1, <2>2, <2>3, <2>4
<1>3. s \in UsedBy(loc[t], file[t]) /\ r \in UsedBy(loc[t], file[t])
  BY <1>2 DEF UsedBy
<1>4. ch[r] = <<>>
  BY <1>1, <1>2, <1>3, UnusedBare
<1>5. \A q \in Slot \ {s, r} : dir'[q] = dir[q]
  BY <1>1, <1>2
<1>6. \A c \in Cluster : Chained(ch, c) => Chained(ch1, c)
  <2>1. CASE ch1 = ch
    BY <2>1
  <2>2. CASE ch1 = Renamed(ch, s, r)
    <3>1. ch1[r] = ch[s] /\ \A q \in Slot \ {s, r} : ch1[q] = ch[q]
      BY <1>2, <2>2 DEF Renamed
    <3>2. On(ch[r]) = {}
      BY <1>4, NoPath
    <3> QED
      BY <1>2, <3>1, <3>2 DEF Chained
  <2> QED
    BY <2>1, <2>2
<1>7. \A c \in Cluster : Traced(t, ch, ch1, c)
  BY <1>1, <1>6 DEF Traced, Taken, Loose
<1>8. Known(dir', pc'[t], loc'[t], file'[t])
  BY <1>1, <1>2 DEF Known
<1>9. \A q \in Slot \ UsedBy(loc[t], file[t]) : dir'[q] = dir[q]
  BY <1>3, <1>5
<1> QED
  BY <1>1, <1>7, <1>8, <1>9, InUseCarries

\* A chain that no call works on is that of a name.
LEMMA ChainNamed ==
    ASSUME TInv, NEW ch, Owned(ch), InUse(ch), ~leaky, NEW s \in Slot, NEW c \in On(ch[s]),
           \A t \in Task : file[t].slot = s \/ pc[t] = "r_free" => pc[t] \notin Held
    PROVE  dir[s].used /\ c \in Chain(fat, dir[s].first)
<1>1. ch[s] # <<>> /\ ch[s][1] \in Cluster /\ Path(fat, ch[s]) /\ fat \in [Cluster -> Links]
  BY NoPath, PathShorter DEF Owned, Chains, TInv, Volume
<1>2. dir[s].used /\ dir[s].first = ch[s][1]
  <2>1. CASE \E t \in Task : file[t].slot = s
    <3>1. PICK t \in Task : file[t].slot = s
      BY <2>1
    <3>2. s # None /\ pc[t] \notin Held
      BY <3>1, FatAssumption
    <3>3. pc[t] # "w_dir" /\ ~Freed(pc[t], loc[t])
      BY <3>2 DEF Held, Freed
    <3>4. dir[s].used /\ dir[s].first = file[t].ino
      BY <3>1, <3>2, <3>3, Knows DEF Known
    <3>5. Mine(pc[t], loc[t], file[t]) = file[t].ino
      BY <3>2 DEF Mine, Busy, Held
    <3>6. Starts(ch[s], file[t].ino)
      BY <3>1, <3>2, <3>5, Knows DEF Sane, Owner
    <3> QED
      BY <1>1, <3>4, <3>6 DEF Starts
  <2>2. CASE \A t \in Task : file[t].slot # s
    <3>1. \A t \in Task : ~Holds(pc[t], loc[t], file[t], s)
      BY <2>2 DEF Holds, Held
    <3>2. Starts(ch[s], IF dir[s].used THEN dir[s].first ELSE 0)
      BY <3>1 DEF Owned, Closed
    <3> QED
      BY <1>1, <3>2, Numbers DEF Starts
  <2> QED
    BY <2>1, <2>2
<1> QED
  BY <1>1, <1>2, PathEnds

LEMMA InUseNamed ==
    ASSUME TInv, NEW ch, Owned(ch), InUse(ch)
    PROVE  NothingLost
<1> SUFFICES ASSUME ~leaky, lock = None, \A t \in Task : pc[t] # "c_dir", NEW c \in Cluster, fat[c] # Free
             PROVE  \E s \in Slot : dir[s].used /\ c \in Chain(fat, dir[s].first)
  BY DEF NothingLost
<1>1. \A t \in Task : pc[t] \notin Held
  BY FatAssumption DEF TInv, Tasks
<1>2. \A t \in Task : ~Taken(t, c)
  BY <1>1 DEF Taken, Loose, Held
<1>3. PICK s \in Slot : c \in On(ch[s])
  BY <1>2 DEF InUse, Chained
<1> QED
  BY <1>1, <1>3, ChainNamed

\* A truncate that could not write the record has lost no cluster.
LEMMA TornNamed ==
    ASSUME TInv, NEW ch, Owned(ch), InUse(ch), NEW t \in Task, TruncateDir(t)
    PROVE  NothingLost'
<1> DEFINE emptied == [loc[t].buf EXCEPT ![file[t].slot].first = 0, ![file[t].slot].size = 0]
<1>1. /\ Apart(t) /\ UNCHANGED fat /\ pc[t] = "t_dir" /\ leaky' = leaky /\ dir' \in {dir, emptied}
  BY DEF TruncateDir, InDoubt, Leave, Return, Goto, Set, Apart, TInv, Tasks
<1>7. \A s \in Slot \ {file[t].slot} : dir'[s] = dir[s]
  <2>1. loc[t].buf = dir /\ dir \in [Slot -> Entry]
    BY <1>1, Knows DEF Sane, Namer, TInv, Volume
  <2> QED
    BY <1>1, <2>1
<1> HIDE DEF emptied
<1> SUFFICES ASSUME ~leaky, \A u \in Task : pc'[u] # "c_dir", NEW c \in Cluster, fat[c] # Free
             PROVE  \E s \in Slot : dir'[s].used /\ c \in Chain(fat, dir'[s].first)
  BY <1>1 DEF NothingLost, Chain, Nth
<1>2. \A u \in Task \ {t} : pc[u] \notin Held
  BY <1>1 DEF TInv, Tasks, Held
<1>3. \A u \in Task : ~Taken(u, c)
  BY <1>1, <1>2 DEF Taken, Loose, Held, Apart
<1>4. PICK s \in Slot : c \in On(ch[s])
  BY <1>3 DEF InUse, Chained
<1>5. file[t].slot # s
  <2>1. file[t].slot # None /\ Starts(ch[file[t].slot], loc[t].cur) /\ loc[t].cur \notin Cluster
    BY <1>1, Knows DEF Fit, Cutting, Sane, Owner, Mine, Busy
  <2>2. ch[s] # <<>> /\ ch[s][1] \in Cluster
    BY <1>4, NoPath, PathShorter DEF Owned, Chains, TInv, Volume
  <2> QED
    BY <2>1, <2>2 DEF Starts
<1>6. \A u \in Task : file[u].slot = s \/ pc[u] = "r_free" => pc[u] \notin Held
  BY <1>1, <1>2, <1>5
<1> QED
  BY <1>4, <1>5, <1>6, <1>7, ChainNamed

LEMMA CloseUse ==
    ASSUME TInv, Exclusive, NEW ch, Owned(ch), InUse(ch), NEW t \in Task, Close(t), NEW ch1,
           ch1 = Shut(ch, file[t].slot, IF dir[file[t].slot].used THEN dir[file[t].slot].first ELSE 0)
    PROVE  InUse(ch1)'
<1> DEFINE s == file[t].slot
           c == IF dir[s].used THEN dir[s].first ELSE 0
<1>1. /\ Apart(t) /\ UNCHANGED <<fat, dir, leaky>> /\ pc[t] = "idle" /\ pc'[t] = pc[t] /\ loc'[t] = loc[t]
      /\ file'[t].slot = None /\ s # None /\ s \in Slot
  BY FilesFields DEF Close, Apart, disk, past, TInv, Tasks, NoFile
<1>2. CASE leaky
  BY <1>1, <1>2 DEF InUse
<1>3. CASE ~leaky
  <2>1. dir[s].used /\ dir[s].first = file[t].ino /\ Starts(ch[s], file[t].ino)
    BY <1>1, <1>3, Knows DEF Known, Freed, Sane, Owner, Mine, Busy
  <2>2. c = 0 => ch[s] = <<>>
    <3>1. ch[s] # <<>> => ch[s][1] \in Cluster
      BY <1>1, PathShorter DEF Owned, Chains, TInv, Volume
    <3> QED
      BY <2>1, <3>1, Numbers DEF Starts
  <2>3. ch \in [Slot -> Seq(Cluster)] /\ ch1 = Shut(ch, s, c)
    BY DEF Owned, Chains
  <2>4. \A r \in Slot : ch1[r] = ch[r]
    <3> HIDE DEF s, c
    <3> QED
      BY <1>1, <2>2, <2>3 DEF Shut
  <2>5. \A d \in Cluster : Traced(t, ch, ch1, d)
    BY <1>1, <2>4, TracedSame DEF Loose
  <2>6. Known(dir', pc'[t], loc'[t], file'[t])
    BY <1>1 DEF Known
  <2> QED
    BY <1>1, <2>5, <2>6, InUseCarries
<1> QED
  BY <1>2, <1>3

-----------------------------------------------------------------------------
(* Every step keeps every cluster in use on a chain.                         *)

LEMMA FileStepUse ==
    ASSUME NEW ch, Before(ch), InUse(ch), NEW t \in Task, FileStep(t), NEW ch1, ch1 = After(t, ch)
    PROVE  InUse(ch1)'
<1>0. TInv /\ Exclusive /\ Owned(ch) /\ Tasks
  BY DEF Before, TInv
<1>1. ASSUME NEW s \in Slot, Open(t, s) PROVE InUse(ch1)'
  <2>1. ch1 = ch
    BY <1>1 DEF After, Open
  <2> QED
    BY <1>0, <1>1, <2>1, OpenUse
<1>2. CASE Close(t)
  <2>1. file'[t].slot = None
    BY <1>0, <1>2 DEF Close, Tasks, NoFile
  <2>2. ch1 = Shut(ch, file[t].slot, IF dir[file[t].slot].used THEN dir[file[t].slot].first ELSE 0)
    BY <1>2, <2>1 DEF After, Close
  <2> QED
    BY <1>0, <1>2, <2>2, CloseUse
<1>3. ASSUME NEW p \in 0 .. MaxSize - 1, Seek(t, p) PROVE InUse(ch1)'
  <2>1. file'[t].slot = file[t].slot /\ pc[t] = "idle"
    BY <1>0, <1>3 DEF Seek, Tasks, Files
  <2>2. ch1 = ch
    BY <2>1 DEF After
  <2> QED
    BY <1>0, <1>3, <2>2, SeekUse
<1> QED
  BY <1>1, <1>2, <1>3 DEF FileStep

LEMMA WriteStepUse ==
    ASSUME NEW ch, Before(ch), InUse(ch), NEW t \in Task, WriteStep(t), NEW ch1, ch1 = After(t, ch)
    PROVE  InUse(ch1)'
<1>0. TInv /\ Exclusive /\ Owned(ch) /\ Tasks
  BY DEF Before, TInv
<1>1. ASSUME NEW n \in 1 .. MaxSize, NEW v \in Value, Write(t, n, v) PROVE InUse(ch1)'
  <2>1. ch1 = ch
    BY <1>1 DEF After, Write
  <2> QED
    BY <1>0, <1>1, <2>1, WriteUse
<1>2. CASE WriteTurn(t)
  BY <1>0, <1>2, AfterNothing, WriteTurnUse DEF WriteTurn
<1>3. CASE WriteZero(t)
  BY <1>0, <1>3, AfterNothing, WriteZeroUse DEF WriteZero
<1>4. CASE WriteMark(t)
  <2>1. ch1 = IF loc[t].at = None /\ pc'[t] = "w_top" THEN Longer(ch, file[t].slot, loc[t].new) ELSE ch
    BY <1>4 DEF After, WriteMark
  <2> QED
    BY <1>0, <1>4, <2>1, WriteMarkUse
<1>5. CASE WriteLink(t)
  <2>1. ch1 = IF pc'[t] = "w_top" THEN Longer(ch, file[t].slot, loc[t].new) ELSE ch
    BY <1>5 DEF After, WriteLink
  <2> QED
    BY <1>0, <1>5, <2>1, WriteLinkUse
<1>6. CASE WriteUndo(t)
  BY <1>0, <1>6, AfterNothing, WriteUndoUse DEF WriteUndo
<1>7. CASE WriteData(t)
  BY <1>0, <1>7, AfterNothing, WriteDataUse DEF WriteData
<1>8. CASE WriteEnd(t)
  <2>1. ch1 = IF loc[t].done = 0 THEN Shut(ch, file[t].slot, file[t].ino) ELSE ch
    BY <1>8 DEF After, WriteEnd
  <2> QED
    BY <1>0, <1>8, <2>1, WriteEndUse
<1>9. CASE WriteDir(t)
  BY <1>0, <1>9, AfterNothing, WriteDirUse DEF WriteDir
<1> QED
  BY <1>1, <1>2, <1>3, <1>4, <1>5, <1>6, <1>7, <1>8, <1>9 DEF WriteStep

LEMMA CutStepUse ==
    ASSUME NEW ch, Before(ch), InUse(ch), NEW t \in Task, CutStep(t), ~torn', NEW ch1, ch1 = After(t, ch)
    PROVE  InUse(ch1)'
<1>0. TInv /\ Exclusive /\ Owned(ch) /\ Tasks
  BY DEF Before, TInv
<1>1. CASE Truncate(t)
  <2>1. ch1 = ch
    BY <1>0, <1>1 DEF After, Truncate
  <2> QED
    BY <1>0, <1>1, <2>1, TruncateUse
<1>2. CASE FreeOne(t)
  <2>1. ch1 = IF pc'[t] # "idle" THEN Shorter(ch, FreeSlot(t))
              ELSE IF pc[t] = "r_free" THEN Shut(ch, FreeSlot(t), 0) ELSE ch
    <3>1. pc[t] \in {"t_free", "r_free"} /\ loc[t].cur \in Cluster /\ (pc'[t] = pc[t] \/ pc'[t] = "idle")
      BY <1>0, <1>2, FreeOneGoes DEF FreeOne, Valid
    <3>2. pc[t] = "r_free" => FreeSlot(t) = loc[t].slot
      BY DEF FreeSlot
    <3> QED
      BY <3>1, <3>2 DEF After
  <2> QED
    BY <1>0, <1>2, <2>1, FreeOneUse
<1>3. CASE TruncateRead(t)
  <2>1. ch1 = ch
    <3>1. pc[t] = "t_free" /\ pc'[t] = "t_dir"
      BY <1>0, <1>3 DEF TruncateRead, Goto, Tasks
    <3> QED
      BY <3>1 DEF After
  <2> QED
    BY <1>0, <1>3, <2>1, ReadUse
<1>4. CASE TruncateDir(t)
  BY <1>0, <1>4, AfterNothing, TruncateDirUse DEF TruncateDir
<1> QED
  BY <1>1, <1>2, <1>3, <1>4 DEF CutStep

LEMMA NameStepUse ==
    ASSUME NEW ch, Before(ch), InUse(ch), NEW t \in Task, NameStep(t), NEW ch1, ch1 = After(t, ch)
    PROVE  InUse(ch1)'
<1>0. TInv /\ Exclusive /\ failures \in Nat /\ Owned(ch) /\ Tasks
  BY DEF Before, TInv
<1>1. ASSUME NEW kind \in {"file", "dir", "rename"}, NEW from \in Slot \cup {None}, Create(t, kind, from)
      PROVE  InUse(ch1)'
  <2>1. ch1 = ch
    BY <1>1 DEF After, Create
  <2> QED
    BY <1>0, <1>1, <2>1, CreateUse
<1>2. CASE CreateMark(t)
  BY <1>0, <1>2, AfterNothing, CreateMarkUse DEF CreateMark
<1>3. CASE CreateDir(t)
  <2>1. ch1 = IF loc[t].kind = "dir" /\ dir'[loc[t].to].used THEN Made(ch, loc[t].to, loc[t].new) ELSE ch
    BY <1>3 DEF After, CreateDir
  <2> QED
    BY <1>0, <1>3, <2>1, CreateDirUse
<1>4. CASE CreatePrepare(t)
  BY <1>0, <1>4, AfterNothing, CreatePrepareUse DEF CreatePrepare
<1>5. CASE RenameRead(t)
  BY <1>0, <1>5, AfterNothing, ReadUse DEF RenameRead
<1>6. CASE RenameDir(t)
  <2>1. ch1 = IF dir'[loc[t].slot].used THEN ch ELSE Renamed(ch, loc[t].slot, loc[t].to)
    BY <1>6 DEF After, RenameDir
  <2> QED
    BY <1>0, <1>6, <2>1, RenameDirUse
<1>7. ASSUME NEW s \in Slot, Unlink(t, s) PROVE InUse(ch1)'
  <2>1. ch1 = ch
    BY <1>7 DEF After, Unlink
  <2> QED
    BY <1>0, <1>7, <2>1, UnlinkUse
<1>8. CASE RemoveRead(t)
  BY <1>0, <1>8, AfterNothing, ReadUse DEF RemoveRead
<1>9. CASE RemoveDir(t)
  <2>1. ch1 = IF pc'[t] = "idle" /\ ~dir'[loc[t].slot].used THEN Shut(ch, loc[t].slot, 0) ELSE ch
    BY <1>9 DEF After, RemoveDir
  <2> QED
    BY <1>0, <1>9, <2>1, RemoveDirUse
<1>10. CASE RemoveEnd(t)
  <2>1. ch1 = ch
    <3>1. pc[t] = "r_free" /\ pc'[t] = "idle" /\ loc[t].cur \notin Cluster
      BY <1>0, <1>10 DEF RemoveEnd, Leave, Return, Goto, Tasks, Valid
    <3> QED
      BY <3>1 DEF After
  <2> QED
    BY <1>0, <1>10, <2>1, RemoveEndUse
<1> QED
  BY <1>1, <1>2, <1>3, <1>4, <1>5, <1>6, <1>7, <1>8, <1>9, <1>10 DEF NameStep

LEMMA TaskStepUse ==
    ASSUME NEW ch, Before(ch), InUse(ch), ~torn', NEW t \in Task,
           FileStep(t) \/ Acquire(t) \/ WriteStep(t) \/ CutStep(t) \/ NameStep(t)
    PROVE  Exclusive' /\ \E c : Owned(c)' /\ InUse(c)'
<1>1. PICK ch1 : ch1 = After(t, ch)
  OBVIOUS
<1>2. Exclusive' /\ Owned(ch1)'
  BY <1>1, FileStepOwned, AcquireStepOwned, WriteStepOwned, CutStepOwned, NameStepOwned
<1>3. ASSUME Acquire(t) PROVE InUse(ch1)'
  BY <1>1, <1>3, AfterNothing, AcquireUse DEF Acquire, Before
<1>4. InUse(ch1)'
  BY <1>1, <1>3, FileStepUse, WriteStepUse, CutStepUse, NameStepUse
<1> QED
  BY <1>2, <1>4

\* A step tears the volume only when a failure strands clusters, when the
\* record of a truncate cannot be written, or in the middle of a write.
LEMMA TornLeaky ==
    ASSUME Next, torn'
    PROVE  leaky' \/ \E t \in Task : TruncateDir(t) \/ WriteLink(t)
<1>1. ~torn
  BY DEF Next
<1>2. CASE Crash
  BY <1>2 DEF Crash
<1>3. ASSUME NEW t \in Task, FileStep(t) \/ Acquire(t) PROVE FALSE
  BY <1>1, <1>3 DEF FileStep, Open, Close, Seek, Acquire, past
<1>4. ASSUME NEW t \in Task, WriteStep(t) PROVE WriteLink(t)
  BY <1>1, <1>4 DEF WriteStep, Write, WriteTurn, WriteZero, WriteMark, WriteUndo, WriteData, WriteEnd, WriteDir, past
<1>5. ASSUME NEW t \in Task, CutStep(t) PROVE leaky' \/ TruncateDir(t)
  BY <1>1, <1>5 DEF CutStep, Truncate, FreeOne, TruncateRead, past
<1>6. ASSUME NEW t \in Task, NameStep(t) PROVE FALSE
  BY <1>1, <1>6 DEF NameStep, Create, CreateMark, CreateDir, CreatePrepare, RenameRead, RenameDir, Unlink, RemoveRead,
     RemoveDir, RemoveEnd, past
<1> QED
  BY <1>2, <1>3, <1>4, <1>5, <1>6 DEF Next, FileStep, CutStep

\* The inductive invariant: the chains also hold every cluster in use, but
\* for the one that a call has just taken.
UInv == /\ TInv /\ failures \in Nat
        /\ torn => NothingLost
        /\ ~torn /\ ~raced => Exclusive /\ \E ch : Owned(ch) /\ InUse(ch)

LEMMA NextUse == UInv /\ [Next]_vars => UInv'
<1> SUFFICES ASSUME UInv, [Next]_vars PROVE UInv'
  OBVIOUS
<1>1. TInv' /\ failures' \in Nat
  BY NextTypes, FailuresCount DEF UInv
<1>2. CASE UNCHANGED vars
  <2>1. CASE torn
    <3>1. NothingLost'
      BY <1>2, <2>1 DEF UInv, NothingLost, vars, Chain, Nth
    <3> QED
      BY <1>1, <1>2, <2>1, <3>1 DEF UInv, vars
  <2>2. CASE ~torn /\ ~raced
    <3>1. PICK ch : Owned(ch) /\ InUse(ch)
      BY <2>2 DEF UInv
    <3>2. Exclusive'
      BY <1>2, <2>2 DEF UInv, Exclusive, vars
    <3>3. Owned(ch)'
      BY <1>2, <3>1 DEF Owned, vars
    <3>4. InUse(ch)'
      BY <1>2, <3>1 DEF InUse, Taken, vars
    <3> QED
      BY <1>1, <1>2, <2>2, <3>2, <3>3, <3>4 DEF UInv, vars
  <2>3. CASE ~torn /\ raced
    BY <1>1, <1>2, <2>3 DEF UInv, vars
  <2> QED
    BY <2>1, <2>2, <2>3
<1>3. CASE raced'
  BY <1>1, <1>3 DEF UInv, NothingLost
<1>4. CASE Next /\ ~raced'
  <2>0. ~raced /\ ~Race' /\ ~torn
    BY <1>4 DEF Next
  <2>1. Exclusive /\ \E ch : Owned(ch) /\ InUse(ch)
    BY <2>0 DEF UInv
  <2>2. PICK ch : Owned(ch) /\ InUse(ch)
    BY <2>1
  <2>6. TInv' /\ ~Race' => Exclusive'
    BY NoRace, PTL
  <2>3. Before(ch) /\ TInv
    BY <1>1, <2>0, <2>1, <2>2, <2>6 DEF UInv, Before
  <2>4. CASE torn'
    <3>1. CASE leaky'
      BY <1>1, <2>4, <3>1 DEF UInv, NothingLost
    <3>2. ASSUME NEW t \in Task, TruncateDir(t) PROVE NothingLost'
      BY <2>2, <2>3, <3>2, TornNamed
    <3>4. ASSUME NEW t \in Task, WriteLink(t) PROVE NothingLost'
      <4>1. lock' = t /\ t # None
        BY <2>3, <3>4, FatAssumption DEF WriteLink, TInv, Tasks, Held
      <4> QED
        BY <4>1 DEF NothingLost
    <3>3. NothingLost'
      BY <1>4, <2>4, <3>1, <3>2, <3>4, TornLeaky DEF NothingLost
    <3> QED
      BY <1>1, <2>4, <3>3 DEF UInv
  <2>5. CASE ~torn'
    <3>1. CASE Crash
      <4>1. PICK ch1 : ch1 = Remain(ch)
        OBVIOUS
      <4>2. Exclusive' /\ Owned(ch1)'
        BY <2>1, <2>2, <2>3, <2>5, <3>1, <4>1, CrashOwned DEF UInv
      <4>3. InUse(ch1)'
        BY <3>1 DEF Crash, InUse
      <4> QED
        BY <1>1, <2>5, <4>2, <4>3 DEF UInv
    <3>2. ASSUME NEW t \in Task, FileStep(t) \/ Acquire(t) \/ WriteStep(t) \/ CutStep(t) \/ NameStep(t)
          PROVE  Exclusive' /\ \E c : Owned(c)' /\ InUse(c)'
      BY <2>2, <2>3, <2>5, <3>2, TaskStepUse
    <3>3. CASE ~Crash
      <4>1. PICK t \in Task : FileStep(t) \/ Acquire(t) \/ WriteStep(t) \/ CutStep(t) \/ NameStep(t)
        BY <1>4, <3>3 DEF Next, FileStep, CutStep
      <4>2. Exclusive' /\ \E c : Owned(c)' /\ InUse(c)'
        BY <3>2, <4>1
      <4> QED
        BY <1>1, <2>5, <4>2 DEF UInv
    <3> QED
      BY <3>1, <3>3
  <2> QED
    BY <2>4, <2>5
<1> QED
  BY <1>2, <1>3, <1>4

\* Until calls race or a failure strands clusters in a way that is known, every
\* cluster in use is on the chain of a name whenever no call holds fat_lock or
\* is about to name the cluster of a new directory.
THEOREM StaysNothingLost == Spec => []NothingLost
<1>1. Init => UInv
  <2> SUFFICES ASSUME Init PROVE UInv
    OBVIOUS
  <2>1. PICK ch : ch = [s \in Slot |-> <<>>]
    OBVIOUS
  <2>2. Exclusive /\ Owned(ch)
    BY <2>1, InitOwned
  <2>3. InUse(ch)
    <3>1. Known(dir, "idle", NoLocals, NoFile)
      BY DEF Known, NoFile
    <3> QED
      BY <3>1 DEF Init, InUse
  <2>4. failures \in Nat /\ ~torn
    BY DEF Init
  <2> QED
    BY <2>2, <2>3, <2>4, InitTypes DEF UInv
<1>2. UInv /\ [Next]_vars => UInv'
  BY NextUse
<1>3. UInv => NothingLost
  <2> SUFFICES ASSUME UInv PROVE NothingLost
    OBVIOUS
  <2>1. CASE torn
    BY <2>1 DEF UInv
  <2>2. CASE ~torn /\ ~raced
    BY <2>2, InUseNamed DEF UInv
  <2>3. CASE raced
    BY <2>3 DEF NothingLost
  <2> QED
    BY <2>1, <2>2, <2>3
<1> QED
  BY <1>1, <1>2, <1>3, PTL DEF Spec

-----------------------------------------------------------------------------
(* A file reads back what was written.                                     *)

Block == Value \cup {Zero}
Contents == content \in [Slot -> Seq(Block) \cup {Unknown}]

\* The blocks that the call under way has written so far.
WroteBy(p, l, f) == IF p \in Writing THEN f.pos + 1 .. f.pos + l.done ELSE {}

\* The chain q holds the file c, but v in the blocks W and zeroes behind the end.
Reads(q, c, A, W, v) ==
    /\ Len(c) <= Len(q)
    /\ \A i \in 1 .. Len(q) : A[q[i]] = IF i \in W THEN v ELSE IF i <= Len(c) THEN c[i] ELSE Zero

\* The open file f agrees with its record r.
Current(r, p, l, f) ==
    /\ p # "w_dir" => r.first = f.ino /\ f.size = r.size /\ (f.ino = 0 => r.size = 0)
    /\ p = "w_dir" => l.done > 0 /\ f.size = IF r.size < f.pos + l.done THEN f.pos + l.done ELSE r.size
    /\ p = "w_lock" => l.done = 0

Plain(r, q, c, A) == Len(c) = r.size /\ Reads(q, c, A, {}, Zero)
Full(r, q, c, A, p, l, f) ==
    ~Freed(p, l) => Len(c) = r.size /\ Reads(q, c, A, WroteBy(p, l, f), l.val) /\ Current(r, p, l, f)

\* The chain of a record, at rest or with a task at work on it.
Good(ch, s) ==
    dir[s].used /\ content[s] # Unknown =>
        /\ (\A t \in Task : file[t].slot # s) => Plain(dir[s], ch[s], content[s], data)
        /\ \A t \in Task : file[t].slot = s => Full(dir[s], ch[s], content[s], data, pc[t], loc[t], file[t])

Blocks(ch) ==
    /\ \A s \in Slot : Good(ch, s)
    /\ \A t \in Task : pc[t] = "c_prep" => content[loc[t].to] = Unknown

\* The same, said of a record that no other task uses.
Right(t, ch, s) ==
    dir[s].used /\ content[s] # Unknown =>
        IF file[t].slot = s THEN Full(dir[s], ch[s], content[s], data, pc[t], loc[t], file[t])
        ELSE Plain(dir[s], ch[s], content[s], data)

Untouched(t, ch, ch1, s) ==
    /\ dir'[s] = dir[s] /\ content'[s] = content[s] /\ ch1[s] = ch[s]
    /\ \A c \in On(ch[s]) : data'[c] = data[c]
    /\ file[t].slot # s /\ file'[t].slot # s

LEMMA OwnRight ==
    ASSUME Exclusive, NEW ch, Blocks(ch), NEW t \in Task, NEW s \in UsedBy(loc[t], file[t])
    PROVE  Right(t, ch, s)
<1>1. s \in Slot /\ Good(ch, s)
  BY DEF Blocks, UsedBy
<1>2. \A u \in Task \ {t} : file[u].slot # s
  BY <1>1 DEF Exclusive, UsedBy
<1> QED
  BY <1>1, <1>2 DEF Good, Right

LEMMA SameReads ==
    ASSUME NEW q, NEW c, NEW A, NEW B, NEW W, NEW v, \A d \in On(q) : B[d] = A[d], Reads(q, c, A, W, v)
    PROVE  Reads(q, c, B, W, v)
BY DEF Reads, On

LEMMA BlocksCarries ==
    ASSUME TInv, Exclusive, Exclusive', NEW ch, Blocks(ch), NEW ch1, NEW t \in Task, Apart(t),
           \A s \in Slot : \/ Untouched(t, ch, ch1, s)
                           \/ s \in UsedBy(loc[t], file[t]) \cup UsedBy(loc'[t], file'[t]) /\ Right(t, ch1, s)',
           pc'[t] = "c_prep" => content'[loc'[t].to] = Unknown
    PROVE  Blocks(ch1)'
<1>1. ASSUME NEW s \in Slot PROVE Good(ch1, s)'
  <2>1. CASE Untouched(t, ch, ch1, s)
    <3> SUFFICES ASSUME dir[s].used, content[s] # Unknown
                 PROVE  /\ (\A u \in Task : file'[u].slot # s) => Plain(dir[s], ch[s], content[s], data')
                        /\ \A u \in Task : file'[u].slot = s =>
                               Full(dir[s], ch[s], content[s], data', pc'[u], loc'[u], file'[u])
      BY <2>1 DEF Good, Untouched
    <3>1. Good(ch, s)
      BY DEF Blocks
    <3>2. ASSUME \A u \in Task : file'[u].slot # s PROVE Plain(dir[s], ch[s], content[s], data')
      <4>1. \A u \in Task : file[u].slot # s
        BY <2>1, <3>2 DEF Apart, Untouched
      <4> QED
        BY <2>1, <3>1, <4>1, SameReads DEF Good, Plain, Untouched
    <3>3. ASSUME NEW u \in Task, file'[u].slot = s
          PROVE  Full(dir[s], ch[s], content[s], data', pc'[u], loc'[u], file'[u])
      <4>1. u # t
        BY <2>1, <3>3 DEF Untouched
      <4>2. pc'[u] = pc[u] /\ loc'[u] = loc[u] /\ file'[u] = file[u]
        BY <4>1 DEF Apart
      <4>3. Full(dir[s], ch[s], content[s], data, pc[u], loc[u], file[u])
        BY <3>1, <3>3, <4>2 DEF Good
      <4> QED
        BY <2>1, <4>2, <4>3, SameReads DEF Full, Untouched
    <3> QED
      BY <3>2, <3>3
  <2>2. CASE s \in UsedBy(loc[t], file[t]) \cup UsedBy(loc'[t], file'[t]) /\ Right(t, ch1, s)'
    <3>1. \A u \in Task \ {t} : file'[u].slot # s
      BY <2>2 DEF Exclusive, UsedBy, Apart
    <3> QED
      BY <2>2, <3>1 DEF Good, Right
  <2> QED
    BY <2>1, <2>2
<1>2. ASSUME NEW u \in Task, pc'[u] = "c_prep" PROVE content'[loc'[u].to] = Unknown
  <2>1. CASE u = t
    BY <1>2, <2>1
  <2>2. CASE u # t
    <3>1. pc[u] = "c_prep" /\ loc'[u] = loc[u] /\ file'[u] = file[u]
      BY <1>2, <2>2 DEF Apart
    <3>2. loc[u].to \in Slot
      BY <3>1, LocalsFields DEF TInv, Tasks, Fit, Making
    <3>3. loc[u].to \notin UsedBy(loc[t], file[t]) \cup UsedBy(loc'[t], file'[t])
      BY <2>2, <3>1, <3>2 DEF Exclusive, UsedBy
    <3>4. content'[loc[u].to] = content[loc[u].to]
      BY <3>2, <3>3 DEF Untouched
    <3> QED
      BY <3>1, <3>4 DEF Blocks
  <2> QED
    BY <2>1, <2>2
<1> QED
  BY <1>1, <1>2 DEF Blocks

\* What is known before a step of t.
Within(ch) == Before(ch) /\ Contents /\ Blocks(ch)

LEMMA WithinKnows ==
    ASSUME NEW ch, Within(ch), NEW t \in Task
    PROVE  /\ TInv /\ Exclusive /\ Owned(ch) /\ Blocks(ch) /\ Contents /\ Chains(fat, dfat, ch)
           /\ ch \in [Slot -> Seq(Cluster)] /\ dir \in [Slot -> Entry]
           /\ Sane(fat, dfat, dir, data, pc[t], loc[t], file[t], ch)
           /\ Fit(pc[t], loc[t], file[t]) /\ loc[t] \in Locals /\ file[t] \in Files
           /\ t \in DOMAIN pc /\ t \in DOMAIN loc /\ t \in DOMAIN file
           /\ file[t].slot # None => file[t].slot \in Slot
BY FilesFields DEF Within, Before, TInv, Tasks, Volume, Owned, Chains

\* A step of a call on an open file that touches no other record.
LEMMA BlocksOwn ==
    ASSUME NEW ch, Within(ch), Exclusive', NEW ch1, NEW t \in Task, Apart(t),
           file[t].slot # None, file'[t].slot = file[t].slot, pc'[t] # "c_prep",
           \A r \in Slot \ {file[t].slot} :
               /\ dir'[r] = dir[r] /\ content'[r] = content[r] /\ ch1[r] = ch[r]
               /\ \A c \in On(ch[r]) : data'[c] = data[c],
           Right(t, ch1, file[t].slot)'
    PROVE  Blocks(ch1)'
<1>1. file[t].slot \in UsedBy(loc[t], file[t])
  BY WithinKnows DEF UsedBy
<1>2. \A s \in Slot : \/ Untouched(t, ch, ch1, s)
                      \/ s \in UsedBy(loc[t], file[t]) \cup UsedBy(loc'[t], file'[t]) /\ Right(t, ch1, s)'
  BY <1>1 DEF Untouched
<1> QED
  BY <1>2, BlocksCarries, WithinKnows

\* A step that changes no record, no chain and nothing on one.
LEMMA BlocksLocal ==
    ASSUME NEW ch, Within(ch), Exclusive', NEW t \in Task, Apart(t), UNCHANGED <<dir, content>>,
           \A r \in Slot : \A c \in On(ch[r]) : data'[c] = data[c],
           file'[t].slot = file[t].slot, pc'[t] # "c_prep",
           file[t].slot # None =>
               /\ pc[t] # "w_dir" /\ pc'[t] # "w_dir" /\ (pc'[t] = "w_lock" => loc'[t].done = 0)
               /\ file'[t].ino = file[t].ino /\ file'[t].size = file[t].size
               /\ ~Freed(pc'[t], loc'[t]) => ~Freed(pc[t], loc[t])
               /\ WroteBy(pc'[t], loc'[t], file'[t]) = WroteBy(pc[t], loc[t], file[t])
               /\ WroteBy(pc[t], loc[t], file[t]) = {} \/ loc'[t].val = loc[t].val
    PROVE  Blocks(ch)'
<1>1. CASE file[t].slot = None
  <2>1. \A s \in Slot : Untouched(t, ch, ch, s)
    BY <1>1, FatAssumption DEF Untouched
  <2> QED
    BY <2>1, BlocksCarries, WithinKnows
<1>2. CASE file[t].slot # None
  <2> DEFINE s == file[t].slot
  <2>1. s \in UsedBy(loc[t], file[t])
    BY <1>2, WithinKnows DEF UsedBy
  <2>2. Right(t, ch, s)
    BY <2>1, OwnRight, WithinKnows
  <2>3. Right(t, ch, s)'
    <3> SUFFICES ASSUME dir[s].used, content[s] # Unknown, ~Freed(pc'[t], loc'[t])
                 PROVE  /\ Len(content[s]) = dir[s].size
                        /\ Reads(ch[s], content[s], data', WroteBy(pc'[t], loc'[t], file'[t]), loc'[t].val)
                        /\ Current(dir[s], pc'[t], loc'[t], file'[t])
      BY DEF Right, Full
    <3>1. /\ Len(content[s]) = dir[s].size
          /\ Reads(ch[s], content[s], data, WroteBy(pc[t], loc[t], file[t]), loc[t].val)
          /\ Current(dir[s], pc[t], loc[t], file[t])
      BY <1>2, <2>2 DEF Right, Full
    <3>2. Current(dir[s], pc'[t], loc'[t], file'[t])
      BY <1>2, <3>1 DEF Current
    <3>3. Reads(ch[s], content[s], data, WroteBy(pc'[t], loc'[t], file'[t]), loc'[t].val)
      BY <1>2, <3>1 DEF Reads
    <3>4. Reads(ch[s], content[s], data', WroteBy(pc'[t], loc'[t], file'[t]), loc'[t].val)
      BY <1>2, <3>3, SameReads, WithinKnows
    <3> QED
      BY <3>1, <3>2, <3>4
  <2> QED
    BY <1>2, <2>3, BlocksOwn
<1> QED
  BY <1>1, <1>2

\* An open takes first cluster and size from the record at rest.
LEMMA OpenBlocks ==
    ASSUME NEW ch, Within(ch), Exclusive', NEW t \in Task, NEW s \in Slot, Open(t, s)
    PROVE  Blocks(ch)'
<1>1. /\ Apart(t) /\ UNCHANGED <<dir, data, content>> /\ pc[t] = "idle" /\ pc'[t] = "idle" /\ loc'[t] = loc[t]
      /\ file[t].slot = None /\ dir[s].used
      /\ file'[t] = [slot |-> s, ino |-> dir[s].first, size |-> dir[s].size, pos |-> 0]
  BY WithinKnows DEF Open, Apart, disk, past
<1>2. /\ file'[t].slot = s /\ file'[t].ino = dir[s].first /\ file'[t].size = dir[s].size
  BY <1>1
<1>3. Closed(dir, ch, s) /\ \A u \in Task \ {t} : s \notin UsedBy(loc[u], file[u])
  <2>1. \A u \in Task \ {t} : s \notin UsedBy(loc'[u], file'[u])
    BY <1>2 DEF Exclusive, UsedBy
  <2>2. \A u \in Task \ {t} : s \notin UsedBy(loc[u], file[u])
    BY <1>1, <2>1 DEF Apart
  <2> QED
    BY <1>1, <2>2, AloneClosed, WithinKnows
<1>4. Right(t, ch, s)'
  <2> SUFFICES ASSUME content[s] # Unknown
               PROVE  Full(dir[s], ch[s], content[s], data, "idle", loc[t], file'[t])
    BY <1>1, <1>2 DEF Right
  <2>1. \A u \in Task : file[u].slot # s
    BY <1>1, <1>3, FatAssumption DEF UsedBy
  <2>2. Plain(dir[s], ch[s], content[s], data)
    BY <1>1, <2>1, WithinKnows DEF Blocks, Good
  <2>3. dir[s].first = 0 => dir[s].size = 0
    <3>1. dir[s].first = 0 => ch[s] = <<>>
      <4>1. ch[s] # <<>> => ch[s][1] \in Cluster
        BY WithinKnows, PathShorter DEF Chains, TInv, Volume
      <4> QED
        BY <1>3, <4>1, Numbers DEF Closed, Starts
    <3>2. dir[s].size \in Nat /\ Len(content[s]) = dir[s].size /\ Len(content[s]) <= Len(ch[s])
      BY <2>2, WithinKnows DEF Plain, Reads, Entry
    <3> QED
      BY <3>1, <3>2
  <2>4. Current(dir[s], "idle", loc[t], file'[t])
    BY <1>2, <2>3 DEF Current
  <2> QED
    BY <2>2, <2>4 DEF Plain, Full, Reads, WroteBy, Writing
<1>5. \A r \in Slot : \/ Untouched(t, ch, ch, r)
                      \/ r \in UsedBy(loc[t], file[t]) \cup UsedBy(loc'[t], file'[t]) /\ Right(t, ch, r)'
  BY <1>1, <1>2, <1>4, FatAssumption DEF Untouched, UsedBy
<1> QED
  BY <1>1, <1>5, BlocksCarries, WithinKnows

LEMMA SeekBlocks ==
    ASSUME NEW ch, Within(ch), Exclusive', NEW t \in Task, NEW p \in 0 .. MaxSize - 1, Seek(t, p)
    PROVE  Blocks(ch)'
<1>1. /\ Apart(t) /\ UNCHANGED <<dir, data, content>> /\ pc[t] = "idle" /\ pc'[t] = "idle" /\ loc'[t] = loc[t]
      /\ file'[t].slot = file[t].slot /\ file'[t].ino = file[t].ino /\ file'[t].size = file[t].size
  BY WithinKnows DEF Seek, Apart, disk, past, Files
<1> QED
  BY <1>1, BlocksLocal DEF Freed, WroteBy, Writing

LEMMA AcquireBlocks ==
    ASSUME NEW ch, Within(ch), Exclusive', NEW t \in Task, Acquire(t)
    PROVE  Blocks(ch)'
<1>1. /\ Apart(t) /\ UNCHANGED <<dir, data, content>> /\ loc'[t] = loc[t] /\ file'[t] = file[t]
      /\ \/ pc[t] = "w_lock" /\ pc'[t] = "w_top"
         \/ pc[t] = "t_lock" /\ pc'[t] = "t_free"
         \/ pc[t] = "r_lock" /\ pc'[t] = "r_read"
         \/ pc[t] = "n_lock" /\ pc'[t] = "n_read"
  BY WithinKnows DEF Acquire, Goto, Apart, disk, past
<1> QED
  BY <1>1, BlocksLocal DEF Freed, WroteBy, Writing

LEMMA WriteBlocks ==
    ASSUME NEW ch, Within(ch), Exclusive', NEW t \in Task, NEW n \in 1 .. MaxSize, NEW v \in Value, Write(t, n, v)
    PROVE  Blocks(ch)'
<1>1. /\ Apart(t) /\ UNCHANGED <<dir, data, content>> /\ file'[t] = file[t] /\ pc[t] = "idle" /\ pc'[t] = "w_lock"
      /\ loc'[t] = WriteCall(file[t], n, v)
  BY WithinKnows DEF Write, Goto, Set, Apart, disk, past, WriteCall
<1>2. loc'[t].done = 0 /\ file[t].pos \in Nat
  BY <1>1, WriteLocals, NoLocalsFields, WithinKnows, FilesFields
<1>3. WroteBy(pc'[t], loc'[t], file'[t]) = {}
  BY <1>1, <1>2 DEF WroteBy
<1> QED
  BY <1>1, <1>2, <1>3, BlocksLocal DEF Freed, WroteBy, Writing

\* A step of a write that leaves the record and the chain.
LEMMA WritesBlocks ==
    ASSUME NEW ch, Within(ch), Exclusive', NEW t \in Task, Apart(t), UNCHANGED <<dir, content>>,
           \A r \in Slot : \A c \in On(ch[r]) : data'[c] = data[c],
           file'[t] = file[t], pc[t] \in Writing \ {"w_dir"}, pc'[t] \in Writing \ {"w_dir", "w_lock"},
           loc'[t].done = loc[t].done, loc'[t].val = loc[t].val
    PROVE  Blocks(ch)'
<1>1. ~Freed(pc[t], loc[t]) /\ pc'[t] # "w_dir" /\ pc'[t] # "w_lock" /\ pc'[t] # "c_prep" /\ pc[t] # "w_dir"
  BY DEF Freed, Writing
<1>2. WroteBy(pc'[t], loc'[t], file'[t]) = WroteBy(pc[t], loc[t], file[t])
  BY DEF WroteBy
<1> QED
  BY <1>1, <1>2, BlocksLocal

LEMMA WriteTurnBlocks ==
    ASSUME NEW ch, Within(ch), Exclusive', NEW t \in Task, WriteTurn(t)
    PROVE  Blocks(ch)'
<1>1. /\ Apart(t) /\ UNCHANGED <<dir, data, content>> /\ file'[t] = file[t] /\ pc[t] = "w_top"
      /\ pc'[t] \in {"w_data", "w_zero", "w_end"}
  BY WithinKnows DEF WriteTurn, Goto, Set, Apart, disk, past, TInv, Tasks
<1>2. loc'[t].done = loc[t].done /\ loc'[t].val = loc[t].val
  BY WithinKnows DEF WriteTurn, Set, Locals
<1> QED
  BY <1>1, <1>2, WritesBlocks DEF Writing

LEMMA WriteUndoBlocks ==
    ASSUME NEW ch, Within(ch), Exclusive', NEW t \in Task, WriteUndo(t)
    PROVE  Blocks(ch)'
<1>1. /\ Apart(t) /\ UNCHANGED <<dir, data, content>> /\ file'[t] = file[t] /\ pc[t] = "w_undo" /\ pc'[t] = "w_end"
      /\ loc'[t] = loc[t]
  BY WithinKnows DEF WriteUndo, Goto, Apart
<1> QED
  BY <1>1, WritesBlocks DEF Writing

LEMMA TruncateBlocks ==
    ASSUME NEW ch, Within(ch), Exclusive', NEW t \in Task, Truncate(t)
    PROVE  Blocks(ch)'
<1>1. /\ Apart(t) /\ UNCHANGED <<dir, data, content>> /\ file'[t] = file[t] /\ pc[t] = "idle" /\ pc'[t] = "t_lock"
  BY WithinKnows DEF Truncate, Goto, Set, Apart, disk, past
<1> QED
  BY <1>1, BlocksLocal DEF Freed, WroteBy, Writing

LEMMA ReadBlocks ==
    ASSUME NEW ch, Within(ch), Exclusive', NEW t \in Task, TruncateRead(t) \/ RemoveRead(t) \/ RenameRead(t)
    PROVE  Blocks(ch)'
<1>1. /\ Apart(t) /\ UNCHANGED <<dir, data, content>> /\ file'[t] = file[t]
      /\ \/ pc[t] = "t_free" /\ pc'[t] = "t_dir" /\ loc'[t] = [loc[t] EXCEPT !.buf = dir]
         \/ pc[t] \in {"r_read", "n_read"} /\ pc'[t] \in {"r_dir", "n_dir", "idle"}
  BY DEF TruncateRead, RemoveRead, RenameRead, Leave, Return, Goto, Set, Apart, disk, past, TInv, Tasks, Within, Before
<1>2. ~Freed(pc'[t], loc'[t]) => ~Freed(pc[t], loc[t])
  BY <1>1, WithinKnows DEF Freed, Locals
<1>3. pc[t] # "w_dir" /\ pc'[t] # "w_dir" /\ pc'[t] # "w_lock" /\ pc'[t] # "c_prep"
  BY <1>1
<1>4. WroteBy(pc[t], loc[t], file[t]) = {} /\ WroteBy(pc'[t], loc'[t], file'[t]) = {}
  BY <1>1 DEF WroteBy, Writing
<1> QED
  BY <1>1, <1>2, <1>3, <1>4, BlocksLocal

LEMMA UnlinkBlocks ==
    ASSUME NEW ch, Within(ch), Exclusive', NEW t \in Task, NEW s \in Slot, Unlink(t, s)
    PROVE  Blocks(ch)'
<1>1. /\ Apart(t) /\ UNCHANGED <<dir, data, content>> /\ file'[t] = file[t] /\ file[t].slot = None /\ pc'[t] = "r_lock"
  BY WithinKnows DEF Unlink, Goto, Set, Apart, disk, past
<1> QED
  BY <1>1, BlocksLocal

LEMMA RemoveEndBlocks ==
    ASSUME NEW ch, Within(ch), Exclusive', NEW t \in Task, RemoveEnd(t)
    PROVE  Blocks(ch)'
<1>1. /\ Apart(t) /\ UNCHANGED <<dir, data, content>> /\ file'[t] = file[t] /\ pc[t] = "r_free" /\ pc'[t] = "idle"
  BY WithinKnows DEF RemoveEnd, Leave, Return, Goto, Set, Apart, disk, past
<1> QED
  BY <1>1, BlocksLocal DEF Freed, WroteBy, Writing

LEMMA CreateBlocks ==
    ASSUME NEW ch, Within(ch), Exclusive', NEW t \in Task,
           NEW kind \in {"file", "dir", "rename"}, NEW from \in Slot \cup {None}, Create(t, kind, from)
    PROVE  Blocks(ch)'
<1>1. /\ Apart(t) /\ UNCHANGED <<dir, data, content>> /\ file'[t] = file[t] /\ file[t].slot = None
      /\ pc'[t] \in {"c_mark", "c_dir"}
  BY WithinKnows DEF Create, Goto, Set, Apart, disk, past
<1> QED
  BY <1>1, BlocksLocal

\* Only a call that writes or truncates has a file open.
LEMMA Fileless ==
    ASSUME NEW ch, Within(ch), NEW t \in Task, pc[t] \in Removing \cup Renaming \cup Making
    PROVE  file[t].slot = None
BY WithinKnows DEF Sane, Owner, Writing, Cutting, Removing, Renaming, Making

LEMMA CreateMarkBlocks ==
    ASSUME NEW ch, Within(ch), Exclusive', NEW t \in Task, CreateMark(t)
    PROVE  Blocks(ch)'
<1>1. /\ Apart(t) /\ UNCHANGED <<dir, data, content>> /\ file'[t] = file[t] /\ pc[t] = "c_mark"
      /\ pc'[t] \in {"c_dir", "idle"}
  BY WithinKnows DEF CreateMark, Return, Goto, Set, Apart, TInv, Tasks
<1> QED
  BY <1>1, Fileless, BlocksLocal DEF Making

LEMMA WriteZeroBlocks ==
    ASSUME NEW ch, Within(ch), Exclusive', NEW t \in Task, WriteZero(t)
    PROVE  Blocks(ch)'
<1> DEFINE n == loc[t].new
<1>1. /\ Apart(t) /\ UNCHANGED <<dir, content>> /\ file'[t] = file[t] /\ pc[t] = "w_zero" /\ loc'[t] = loc[t]
      /\ pc'[t] \in {"w_mark", "w_end"} /\ (UNCHANGED data \/ data' = [data EXCEPT ![n] = Zero])
  BY WithinKnows DEF WriteZero, Goto, Apart
<1>2. fat[n] = Free
  BY <1>1, WithinKnows DEF Sane, Grower
<1>3. \A r \in Slot : n \notin On(ch[r])
  BY <1>2, FreeOff, WithinKnows
<1>4. \A r \in Slot : \A c \in On(ch[r]) : c \in Cluster
  BY PathElements, WithinKnows DEF Chains
<1>5. \A r \in Slot : \A c \in On(ch[r]) : data'[c] = data[c]
  BY <1>1, <1>3, <1>4, WithinKnows DEF TInv, Volume
<1> QED
  BY <1>1, <1>5, WritesBlocks DEF Writing

LEMMA ReadsLonger ==
    ASSUME NEW q, Len(q) \in Nat, NEW r, Len(r) = Len(q) + 1, \A i \in 1 .. Len(q) : r[i] = q[i],
           NEW A, A[r[Len(q) + 1]] = Zero, NEW p \in Nat, NEW d \in Nat, d > 0 => p + d <= Len(q),
           NEW c, Len(c) \in Nat, NEW v, Reads(q, c, A, p + 1 .. p + d, v)
    PROVE  Reads(r, c, A, p + 1 .. p + d, v)
<1>1. Len(c) <= Len(q)
  BY DEF Reads
<1>2. ASSUME NEW i \in 1 .. Len(r)
      PROVE  A[r[i]] = IF i \in p + 1 .. p + d THEN v ELSE IF i <= Len(c) THEN c[i] ELSE Zero
  <2>1. CASE i \in 1 .. Len(q)
    BY <2>1 DEF Reads
  <2>2. CASE i = Len(q) + 1
    <3>1. i \notin p + 1 .. p + d /\ ~(i <= Len(c))
      BY <1>1, <2>2
    <3> QED
      BY <2>2, <3>1
  <2> QED
    BY <2>1, <2>2
<1> QED
  BY <1>1, <1>2 DEF Reads

\* The length of what a file must read back.
LEMMA ContentLength ==
    ASSUME Contents, NEW s \in Slot, content[s] # Unknown
    PROVE  content[s] \in Seq(Block) /\ Len(content[s]) \in Nat
BY DEF Contents

\* A write has linked a cluster of zeroes.
LEMMA BlocksLonger ==
    ASSUME NEW ch, Within(ch), Exclusive', NEW t \in Task, Apart(t), UNCHANGED <<dir, data, content>>,
           file'[t] = file[t], pc[t] \in {"w_mark", "w_link"}, pc'[t] = "w_top",
           loc'[t].done = loc[t].done, loc'[t].val = loc[t].val,
           NEW ch1, ch1 = Longer(ch, file[t].slot, loc[t].new)
    PROVE  Blocks(ch1)'
<1> DEFINE s == file[t].slot
           n == loc[t].new
           l == loc[t]
           f == file[t]
<1>1. s # None /\ s \in Slot /\ n \in Cluster
  BY WithinKnows, LocalsFields DEF Fit, Writing
<1>2. /\ \A r \in Slot \ {s} : ch1[r] = ch[r]
      /\ Len(ch1[s]) = Len(ch[s]) + 1 /\ Len(ch[s]) \in Nat
      /\ ch1[s][Len(ch[s]) + 1] = n /\ \A i \in 1 .. Len(ch[s]) : ch1[s][i] = ch[s][i]
  <2>1. ch[s] \in Seq(Cluster) /\ ch \in [Slot -> Seq(Cluster)]
    BY <1>1, WithinKnows
  <2>2. ch1[s] = Append(ch[s], n) /\ \A r \in Slot \ {s} : ch1[r] = ch[r]
    BY <1>1, <2>1 DEF Longer
  <2> HIDE DEF s, n
  <2> QED
    BY <1>1, <2>1, <2>2
<1>3. data[n] = Zero /\ f.pos \in Nat /\ l.done \in Nat /\ (l.done > 0 => f.pos + l.done <= Len(ch[s]))
  <2>1. data[n] = Zero /\ (l.done > 0 => l.off <= Len(ch[s])) /\ l.off = f.pos + l.done
    BY WithinKnows DEF Sane, Grower, Fit, Writing
  <2>2. f.pos \in Nat /\ l.done \in Nat
    BY WithinKnows, LocalsFields, FilesFields
  <2> QED
    BY <2>1, <2>2
<1>4. Right(t, ch1, s)'
  <2> SUFFICES ASSUME dir[s].used, content[s] # Unknown
               PROVE  Full(dir[s], ch1[s], content[s], data, "w_top", loc'[t], f)
    BY DEF Right
  <2>1. Right(t, ch, s)
    BY <1>1, OwnRight, WithinKnows DEF UsedBy
  <2>2. Full(dir[s], ch[s], content[s], data, pc[t], l, f)
    BY <2>1 DEF Right
  <2>3. ~Freed(pc[t], l) /\ pc[t] \in Writing /\ pc[t] # "w_dir"
    BY DEF Freed, Writing
  <2>4. /\ Len(content[s]) = dir[s].size /\ Reads(ch[s], content[s], data, f.pos + 1 .. f.pos + l.done, l.val)
        /\ Current(dir[s], pc[t], l, f)
    BY <2>2, <2>3 DEF Full, WroteBy
  <2>5. Current(dir[s], "w_top", loc'[t], f)
    BY <2>3, <2>4 DEF Current
  <2>6. Len(content[s]) \in Nat
    BY <1>1, ContentLength, WithinKnows
  <2>7. Reads(ch1[s], content[s], data, f.pos + 1 .. f.pos + l.done, l.val)
    <3> HIDE DEF s, n, l, f
    <3> QED
      BY <1>2, <1>3, <2>4, <2>6, ReadsLonger
  <2> QED
    BY <2>4, <2>5, <2>7 DEF Full, WroteBy, Writing
<1> QED
  BY <1>1, <1>2, <1>4, BlocksOwn

LEMMA WriteMarkBlocks ==
    ASSUME NEW ch, Within(ch), Exclusive', NEW t \in Task, WriteMark(t), NEW ch1,
           ch1 = IF loc[t].at = None /\ pc'[t] = "w_top" THEN Longer(ch, file[t].slot, loc[t].new) ELSE ch
    PROVE  Blocks(ch1)'
<1>1. /\ Apart(t) /\ UNCHANGED <<dir, data, content>> /\ file'[t] = file[t] /\ pc[t] = "w_mark"
      /\ pc'[t] = "w_top" \/ pc'[t] \in {"w_link", "w_end"}
      /\ pc'[t] = "w_top" => loc[t].at = None
  BY WithinKnows DEF WriteMark, Goto, Set, Apart, TInv, Tasks
<1>2. loc'[t].done = loc[t].done /\ loc'[t].val = loc[t].val
  BY WithinKnows DEF WriteMark, Set, Locals
<1>3. CASE pc'[t] = "w_top"
  BY <1>1, <1>2, <1>3, BlocksLonger
<1>4. CASE pc'[t] # "w_top"
  BY <1>1, <1>2, <1>4, WritesBlocks DEF Writing
<1> QED
  BY <1>3, <1>4

LEMMA WriteLinkBlocks ==
    ASSUME NEW ch, Within(ch), Exclusive', NEW t \in Task, WriteLink(t), NEW ch1,
           ch1 = IF pc'[t] = "w_top" THEN Longer(ch, file[t].slot, loc[t].new) ELSE ch
    PROVE  Blocks(ch1)'
<1>1. /\ Apart(t) /\ UNCHANGED <<dir, data, content>> /\ file'[t] = file[t] /\ pc[t] = "w_link"
      /\ pc'[t] \in {"w_top", "w_undo"} /\ loc'[t] = loc[t]
  BY WithinKnows DEF WriteLink, Goto, Apart
<1>3. CASE pc'[t] = "w_top"
  BY <1>1, <1>3, BlocksLonger
<1>4. CASE pc'[t] # "w_top"
  BY <1>1, <1>4, WritesBlocks DEF Writing
<1> QED
  BY <1>3, <1>4

\* One more block is written.
LEMMA ReadsWrote ==
    ASSUME NEW q, Len(q) \in Nat, NEW A, NEW B, NEW v, NEW p \in Nat, NEW d \in Nat, NEW c, p + d + 1 \in 1 .. Len(q),
           B[q[p + d + 1]] = v, \A i \in 1 .. Len(q) : i # p + d + 1 => B[q[i]] = A[q[i]],
           Reads(q, c, A, p + 1 .. p + d, v)
    PROVE  Reads(q, c, B, p + 1 .. p + (d + 1), v)
<1>1. ASSUME NEW i \in 1 .. Len(q)
      PROVE  B[q[i]] = IF i \in p + 1 .. p + (d + 1) THEN v ELSE IF i <= Len(c) THEN c[i] ELSE Zero
  <2>1. CASE i = p + d + 1
    BY <2>1
  <2>2. CASE i # p + d + 1
    <3>1. i \in p + 1 .. p + d <=> i \in p + 1 .. p + (d + 1)
      BY <2>2
    <3> QED
      BY <2>2, <3>1 DEF Reads
  <2> QED
    BY <2>1, <2>2
<1> QED
  BY <1>1 DEF Reads

LEMMA WriteDataBlocks ==
    ASSUME NEW ch, Within(ch), Exclusive', NEW t \in Task, WriteData(t)
    PROVE  Blocks(ch)'
<1> DEFINE l == loc[t]
           f == file[t]
           s == f.slot
<1>1. /\ Apart(t) /\ UNCHANGED dir /\ file'[t] = f /\ pc[t] = "w_data" /\ pc'[t] \in {"w_end", "w_top"}
      /\ UNCHANGED data \/ data' = [data EXCEPT ![l.at] = l.val]
  BY DEF WriteData, Goto, Set, Apart, TInv, Tasks, Within, Before
<1>2. s # None /\ s \in Slot /\ l.off = f.pos + l.done /\ f.pos \in Nat /\ l.done \in Nat
  BY <1>1, WithinKnows, LocalsFields, FilesFields DEF Fit, Writing
<1>3. f.pos + l.done + 1 \in 1 .. Len(ch[s]) /\ l.at = ch[s][f.pos + l.done + 1]
  BY <1>1, <1>2, WithinKnows DEF Sane, Grower
<1>4. Path(fat, ch[s]) /\ Len(ch[s]) \in Nat /\ l.at \in Cluster /\ l.at \in On(ch[s])
  BY <1>2, <1>3, PathElements, WithinKnows DEF Chains
<1>5. \A c \in Cluster : c # l.at => data'[c] = data[c]
  BY <1>1, WithinKnows DEF TInv, Volume
<1>6. \A r \in Slot \ {s} : \A c \in On(ch[r]) : data'[c] = data[c]
  <2> TAKE r \in Slot \ {s}
  <2>1. On(ch[r]) \subseteq Cluster
    BY PathElements, WithinKnows DEF Chains
  <2>2. l.at \notin On(ch[r])
    BY <1>2, <1>4, WithinKnows DEF Chains
  <2> QED
    BY <1>5, <2>1, <2>2
<1>7. CASE content' = [content EXCEPT ![s] = Unknown]
  <2>1. content'[s] = Unknown /\ \A r \in Slot \ {s} : content'[r] = content[r]
    BY <1>2, <1>7, WithinKnows DEF Contents
  <2>2. Right(t, ch, s)'
    BY <1>1, <2>1 DEF Right
  <2> QED
    BY <1>1, <1>2, <1>6, <2>1, <2>2, BlocksOwn
<1>8. CASE /\ data' = [data EXCEPT ![l.at] = l.val] /\ UNCHANGED content
           /\ loc'[t] = [l EXCEPT !.off = @ + 1, !.left = @ - 1, !.done = @ + 1]
  <2>1. loc'[t].done = l.done + 1 /\ loc'[t].val = l.val
    BY <1>8, WithinKnows DEF Locals
  <2>5. \A i \in 1 .. Len(ch[s]) : i # f.pos + l.done + 1 => ch[s][i] # l.at
    BY <1>3, <1>4 DEF Path
  <2>6. data'[l.at] = l.val
    BY <1>4, <1>8, WithinKnows DEF TInv, Volume
  <2>8. \A i \in 1 .. Len(ch[s]) : i # f.pos + l.done + 1 => data'[ch[s][i]] = data[ch[s][i]]
    BY <1>4, <1>5, <2>5, PathElements
  <2>9. Right(t, ch, s)'
    <3> SUFFICES ASSUME dir[s].used, content[s] # Unknown
                 PROVE  Full(dir[s], ch[s], content[s], data', pc'[t], loc'[t], f)
      BY <1>1, <1>8 DEF Right
    <3>1. Right(t, ch, s)
      BY <1>2, OwnRight, WithinKnows DEF UsedBy
    <3>2. Full(dir[s], ch[s], content[s], data, "w_data", l, f)
      BY <1>1, <3>1 DEF Right
    <3>3. /\ Len(content[s]) = dir[s].size /\ Reads(ch[s], content[s], data, f.pos + 1 .. f.pos + l.done, l.val)
          /\ Current(dir[s], "w_data", l, f)
      BY <3>2 DEF Full, Freed, WroteBy, Writing
    <3>4. Current(dir[s], pc'[t], loc'[t], f)
      BY <1>1, <3>3 DEF Current
    <3>5. Reads(ch[s], content[s], data', f.pos + 1 .. f.pos + (l.done + 1), l.val)
      <4> DEFINE q == ch[s]
                 c == content[s]
                 p == f.pos
                 d == l.done
                 v == l.val
      <4>1. /\ Len(q) \in Nat /\ p \in Nat /\ d \in Nat /\ p + d + 1 \in 1 .. Len(q) /\ data'[q[p + d + 1]] = v
            /\ \A i \in 1 .. Len(q) : i # p + d + 1 => data'[q[i]] = data[q[i]]
        BY <1>2, <1>3, <1>4, <2>6, <2>8
      <4>2. Reads(q, c, data, p + 1 .. p + d, v)
        BY <3>3
      <4>3. Reads(q, c, data', p + 1 .. p + (d + 1), v)
        <5> HIDE DEF q, c, p, d, v
        <5> QED
          BY <4>1, <4>2, ReadsWrote
      <4> QED
        BY <4>3
    <3>6. WroteBy(pc'[t], loc'[t], f) = f.pos + 1 .. f.pos + (l.done + 1)
      BY <1>1, <2>1 DEF WroteBy, Writing
    <3> QED
      BY <2>1, <3>3, <3>4, <3>5, <3>6 DEF Full
  <2> QED
    BY <1>1, <1>2, <1>6, <1>8, <2>9, BlocksOwn
<1>9. \/ content' = [content EXCEPT ![s] = Unknown]
      \/ /\ data' = [data EXCEPT ![l.at] = l.val] /\ UNCHANGED content
         /\ loc'[t] = [l EXCEPT !.off = @ + 1, !.left = @ - 1, !.done = @ + 1]
  BY DEF WriteData, Set, TInv, Tasks, Within, Before
<1> QED
  BY <1>7, <1>8, <1>9

\* A chain that no name needs is given up.
LEMMA ShutReads ==
    ASSUME NEW ch \in [Slot -> Seq(Cluster)], NEW s \in Slot, NEW i, NEW ch1, ch1 = Shut(ch, s, i),
           NEW c, NEW A, NEW v, NEW w, Reads(ch[s], c, A, {}, v), i = 0 => Len(c) = 0
    PROVE  Reads(ch1[s], c, A, {}, w)
<1>1. ch1[s] = IF i = 0 THEN <<>> ELSE ch[s]
  BY DEF Shut
<1> QED
  BY <1>1 DEF Reads

LEMMA WriteEndBlocks ==
    ASSUME NEW ch, Within(ch), Exclusive', NEW t \in Task, WriteEnd(t), NEW ch1,
           ch1 = IF loc[t].done = 0 THEN Shut(ch, file[t].slot, file[t].ino) ELSE ch
    PROVE  Blocks(ch1)'
<1> DEFINE l == loc[t]
           f == file[t]
           s == f.slot
<1>1. /\ Apart(t) /\ UNCHANGED <<dir, data, content>> /\ pc[t] = "w_end"
  BY DEF WriteEnd, Leave, Return, Goto, Set, Apart, disk, TInv, Tasks, Within, Before
<1>2. s # None /\ s \in Slot /\ ~Freed(pc[t], l)
  BY <1>1, WithinKnows DEF Fit, Writing, Freed
<1>3. Right(t, ch, s)
  BY <1>2, OwnRight, WithinKnows DEF UsedBy
<1>4. dir[s].used /\ content[s] # Unknown =>
          /\ Len(content[s]) = dir[s].size /\ Reads(ch[s], content[s], data, f.pos + 1 .. f.pos + l.done, l.val)
          /\ dir[s].first = f.ino /\ f.size = dir[s].size /\ (f.ino = 0 => dir[s].size = 0)
  BY <1>1, <1>2, <1>3 DEF Right, Full, WroteBy, Writing, Current
<1>5. CASE l.done = 0
  <2>1. pc'[t] = "idle" /\ file'[t] = f /\ ch1 = Shut(ch, s, f.ino)
    BY <1>5, WithinKnows DEF WriteEnd, Leave, Return, Goto
  <2>2. \A r \in Slot \ {s} : ch1[r] = ch[r]
    BY <2>1, WithinKnows DEF Shut
  <2>3. f.pos \in Nat
    BY WithinKnows, FilesFields
  <2>4. f.pos + 1 .. f.pos + l.done = {}
    BY <1>5, <2>3
  <2>5. Right(t, ch1, s)'
    <3> SUFFICES ASSUME dir[s].used, content[s] # Unknown
                 PROVE  Full(dir[s], ch1[s], content[s], data, "idle", loc'[t], f)
      BY <1>1, <2>1 DEF Right
    <3>1. ch \in [Slot -> Seq(Cluster)]
      BY WithinKnows
    <3>2. Reads(ch1[s], content[s], data, {}, loc'[t].val)
      <4> DEFINE i == f.ino
                 v == l.val
                 w == loc'[t].val
                 c == content[s]
      <4>1. Reads(ch[s], c, data, {}, v) /\ (i = 0 => Len(c) = 0) /\ ch1 = Shut(ch, s, i) /\ s \in Slot
        BY <1>2, <1>4, <2>1, <2>4
      <4> HIDE DEF s, i, v, w, c
      <4>2. Reads(ch1[s], c, data, {}, w)
        BY <3>1, <4>1, ShutReads
      <4> QED
        BY <4>2 DEF w, c
    <3> QED
      BY <1>4, <3>2 DEF Full, WroteBy, Writing, Current
  <2> QED
    BY <1>1, <1>2, <2>1, <2>2, <2>5, BlocksOwn
<1>6. CASE l.done # 0
  <2>1. pc'[t] = "w_dir" /\ loc'[t] = [l EXCEPT !.buf = dir] /\ file'[t] = Ended(t)
    BY <1>6, WriteEndIs, WithinKnows DEF Moves, Leave, Return
  <2>2. loc'[t].done = l.done /\ loc'[t].val = l.val
    BY <2>1, WithinKnows DEF Locals
  <2>3. /\ file'[t].slot = s /\ file'[t].pos = f.pos
        /\ file'[t].size = IF f.size < f.pos + l.done THEN f.pos + l.done ELSE f.size
    BY <2>1 DEF Ended
  <2>4. l.done > 0
    BY <1>6, WithinKnows, LocalsFields
  <2>5. Right(t, ch, s)'
    BY <1>1, <1>4, <2>1, <2>2, <2>3, <2>4 DEF Right, Full, WroteBy, Writing, Current
  <2> QED
    BY <1>1, <1>2, <1>6, <2>1, <2>3, <2>5, BlocksOwn
<1> QED
  BY <1>5, <1>6

LEMMA CloseBlocks ==
    ASSUME NEW ch, Within(ch), Exclusive', NEW t \in Task, Close(t), NEW ch1,
           ch1 = Shut(ch, file[t].slot, IF dir[file[t].slot].used THEN dir[file[t].slot].first ELSE 0)
    PROVE  Blocks(ch1)'
<1>0. PICK s : s = file[t].slot
  OBVIOUS
<1> DEFINE f == file[t]
           i == IF dir[s].used THEN dir[s].first ELSE 0
<1>1. /\ Apart(t) /\ UNCHANGED <<dir, data, content>> /\ pc[t] = "idle" /\ pc'[t] = "idle" /\ file'[t].slot = None
      /\ s # None
  BY <1>0, WithinKnows DEF Close, Apart, disk, past, NoFile
<1>2. s \in Slot /\ s \in UsedBy(loc[t], f)
  BY <1>0, <1>1, WithinKnows DEF UsedBy
<1>3. Right(t, ch, s)
  BY <1>2, OwnRight, WithinKnows
<1>4. dir[s].used /\ content[s] # Unknown =>
          /\ Len(content[s]) = dir[s].size /\ Reads(ch[s], content[s], data, {}, loc[t].val)
          /\ dir[s].first = f.ino /\ (f.ino = 0 => dir[s].size = 0)
  BY <1>0, <1>1, <1>3 DEF Right, Full, Freed, WroteBy, Writing, Current
<1>5. ch1 = Shut(ch, s, i) /\ ch \in [Slot -> Seq(Cluster)]
  BY <1>0, WithinKnows
<1>6. \A r \in Slot \ {s} : ch1[r] = ch[r]
  BY <1>5 DEF Shut
<1>7. Right(t, ch1, s)'
  <2>0. file'[t].slot # s
    BY <1>1, <1>2, FatAssumption
  <2> SUFFICES ASSUME dir[s].used, content[s] # Unknown PROVE Plain(dir[s], ch1[s], content[s], data)
    BY <1>1, <2>0 DEF Right
  <2>1. i = 0 => Len(content[s]) = 0
    BY <1>4
  <2>2. Reads(ch1[s], content[s], data, {}, Zero)
    <3> HIDE DEF i, f
    <3> QED
      BY <1>2, <1>4, <1>5, <2>1, ShutReads
  <2> QED
    BY <1>4, <2>2 DEF Plain
<1>8. \A r \in Slot : \/ Untouched(t, ch, ch1, r)
                      \/ r \in UsedBy(loc[t], file[t]) \cup UsedBy(loc'[t], file'[t]) /\ Right(t, ch1, r)'
  <2> TAKE r \in Slot
  <2>1. CASE r = s
    BY <1>2, <1>7, <2>1
  <2>2. CASE r # s
    BY <1>0, <1>1, <1>6, <2>2, FatAssumption DEF Untouched
  <2> QED
    BY <2>1, <2>2
<1> QED
  BY <1>1, <1>8, BlocksCarries, WithinKnows

\* The record takes what the write has done.
LEMMA OverlayReads ==
    ASSUME NEW q, Len(q) \in Nat, NEW A, NEW v, NEW p \in Nat, NEW d \in Nat, NEW c, Len(c) \in Nat, p + d <= Len(q),
           Reads(q, c, A, p + 1 .. p + d, v)
    PROVE  /\ Len(Overlay(c, p, d, v)) = IF Len(c) < p + d THEN p + d ELSE Len(c)
           /\ \A w : Reads(q, Overlay(c, p, d, v), A, {}, w)
<1> DEFINE n == IF Len(c) < p + d THEN p + d ELSE Len(c)
           f(i) == IF i > p /\ i <= p + d THEN v ELSE IF i <= Len(c) THEN c[i] ELSE Zero
           o == Overlay(c, p, d, v)
<1>1. n \in Nat /\ p + d <= n /\ Len(c) <= n /\ n <= Len(q)
  BY DEF Reads
<1>2. o = [i \in 1 .. n |-> f(i)]
  BY DEF Overlay
<1> HIDE DEF f, o
<1>3. Len(o) = n /\ \A i \in 1 .. n : o[i] = f(i)
  <2> HIDE DEF n
  <2> QED
    BY <1>1, <1>2
<1>4. ASSUME NEW i \in 1 .. Len(q) PROVE A[q[i]] = IF i <= n THEN o[i] ELSE Zero
  <2>1. A[q[i]] = f(i)
    BY DEF Reads, f
  <2>2. ~(i <= n) => f(i) = Zero
    BY <1>1 DEF f
  <2>3. i <= n => o[i] = f(i)
    BY <1>1, <1>3
  <2> QED
    BY <2>1, <2>2, <2>3
<1> QED
  BY <1>1, <1>3, <1>4 DEF Reads, o

LEMMA WriteDirBlocks ==
    ASSUME NEW ch, Within(ch), Exclusive', NEW t \in Task, WriteDir(t)
    PROVE  Blocks(ch)'
<1> DEFINE l == loc[t]
           f == file[t]
<1>0. PICK s : s = f.slot
  OBVIOUS
<1>1. /\ Apart(t) /\ UNCHANGED data /\ pc[t] = "w_dir" /\ pc'[t] = "idle"
      /\ \/ /\ dir' = dir \/ dir' = [l.buf EXCEPT ![s] = [l.buf[s] EXCEPT !.first = f.ino, !.size = f.size]]
            /\ UNCHANGED file /\ content' = [content EXCEPT ![s] = Unknown]
         \/ /\ dir' = [l.buf EXCEPT ![s] = [l.buf[s] EXCEPT !.first = f.ino, !.size = f.size]]
            /\ file' = [file EXCEPT ![t].pos = @ + l.done]
            /\ content' = [content EXCEPT ![s] = IF @ = Unknown THEN @ ELSE Overlay(@, f.pos, l.done, l.val)]
  BY <1>0 DEF WriteDir, InDoubt, Leave, Return, Goto, Set, Apart, TInv, Tasks, Within, Before
<1>2. /\ s # None /\ s \in Slot /\ l.buf = dir /\ f.pos \in Nat /\ l.done \in Nat /\ l.off = f.pos + l.done
      /\ l.cur = f.ino /\ Starts(ch[s], l.cur)
  <2>1. s # None /\ l.off = f.pos + l.done /\ s \in Slot
    BY <1>0, <1>1, WithinKnows DEF Fit, Writing
  <2>2. l.buf = dir /\ l.cur = f.ino /\ Starts(ch[s], l.cur)
    BY <1>0, <1>1, <2>1, WithinKnows DEF Sane, Namer, Owner, Mine, Busy
  <2>3. f.pos \in Nat /\ l.done \in Nat
    BY WithinKnows, LocalsFields, FilesFields
  <2> QED
    BY <2>1, <2>2, <2>3
<1>3. Right(t, ch, s)
  BY <1>0, <1>2, OwnRight, WithinKnows DEF UsedBy
<1>4. dir[s].used /\ content[s] # Unknown =>
          /\ Len(content[s]) = dir[s].size /\ Reads(ch[s], content[s], data, f.pos + 1 .. f.pos + l.done, l.val)
          /\ l.done > 0 /\ f.size = IF dir[s].size < f.pos + l.done THEN f.pos + l.done ELSE dir[s].size
  BY <1>0, <1>1, <1>3 DEF Right, Full, Freed, WroteBy, Writing, Current
<1>5. DOMAIN content = Slot /\ DOMAIN file = Task /\ dir \in [Slot -> Entry] /\ f \in Files
  BY WithinKnows DEF Contents, Within, Before, TInv, Tasks
<1>6. file'[t].slot = s /\ \A r \in Slot \ {s} : dir'[r] = dir[r] /\ content'[r] = content[r]
  BY <1>0, <1>1, <1>2, <1>5 DEF Files
<1>7. Right(t, ch, s)'
  <2>1. CASE content' = [content EXCEPT ![s] = Unknown]
    BY <1>2, <1>5, <2>1 DEF Right
  <2>2. CASE /\ dir' = [l.buf EXCEPT ![s] = [l.buf[s] EXCEPT !.first = f.ino, !.size = f.size]]
             /\ file' = [file EXCEPT ![t].pos = @ + l.done]
             /\ content' = [content EXCEPT ![s] = IF @ = Unknown THEN @ ELSE Overlay(@, f.pos, l.done, l.val)]
    <3> DEFINE c == content[s]
               o == Overlay(c, f.pos, l.done, l.val)
    <3>1. dir'[s].used = dir[s].used /\ dir'[s].first = f.ino /\ dir'[s].size = f.size
      BY <1>2, <1>5, <2>2 DEF Entry
    <3>2. file'[t].ino = f.ino /\ file'[t].size = f.size
      BY <1>5, <2>2 DEF Files
    <3>3. content'[s] = IF c = Unknown THEN c ELSE o
      BY <1>2, <1>5, <2>2
    <3> SUFFICES ASSUME dir[s].used, c # Unknown
                 PROVE  Full(dir'[s], ch[s], o, data, "idle", loc'[t], file'[t])
      BY <1>1, <1>6, <3>1, <3>3 DEF Right
    <3>4. Len(c) \in Nat /\ Len(ch[s]) \in Nat /\ f.pos + l.done <= Len(ch[s])
      <4>1. l.off <= Len(ch[s])
        BY <1>0, <1>1, <1>4, WithinKnows DEF Sane, Grower, Writing
      <4>2. ch[s] \in Seq(Cluster)
        BY <1>2, WithinKnows
      <4> QED
        BY <1>2, <4>1, <4>2, ContentLength, WithinKnows
    <3>5. f.ino # 0
      <4>1. ch[s] # <<>>
        BY <1>2, <1>4, <3>4
      <4>2. ch[s][1] \in Cluster
        BY <1>2, <4>1, WithinKnows, PathShorter DEF Chains, TInv, Volume
      <4> QED
        BY <1>2, <4>1, <4>2, Numbers DEF Starts
    <3>6. Len(o) = f.size /\ Reads(ch[s], o, data, {}, loc'[t].val)
      <4> DEFINE q == ch[s]
                 p == f.pos
                 d == l.done
                 v == l.val
                 w == loc'[t].val
      <4>1. /\ Len(q) \in Nat /\ p \in Nat /\ d \in Nat /\ Len(c) \in Nat /\ p + d <= Len(q)
            /\ Reads(q, c, data, p + 1 .. p + d, v)
        BY <1>2, <1>4, <3>4
      <4>2. f.size = IF Len(c) < p + d THEN p + d ELSE Len(c)
        BY <1>4
      <4>3. /\ Len(Overlay(c, p, d, v)) = IF Len(c) < p + d THEN p + d ELSE Len(c)
            /\ Reads(q, Overlay(c, p, d, v), data, {}, w)
        <5> HIDE DEF q, p, d, v, w, c
        <5> QED
          BY <4>1, OverlayReads
      <4> QED
        BY <4>2, <4>3
    <3> HIDE DEF c, o
    <3> QED
      BY <3>1, <3>2, <3>5, <3>6 DEF Full, WroteBy, Writing, Current
  <2> QED
    BY <1>1, <2>1, <2>2
<1> QED
  BY <1>0, <1>1, <1>2, <1>6, <1>7, BlocksOwn

\* A step of a call that has no file open, on one record.
LEMMA BlocksName ==
    ASSUME NEW ch, Within(ch), Exclusive', NEW ch1, NEW t \in Task, Apart(t), NEW s, s \in UsedBy(loc[t], file[t]),
           file[t].slot = None, file'[t].slot \in {None, s},
           \A r \in Slot \ {s} :
               /\ dir'[r] = dir[r] /\ content'[r] = content[r] /\ ch1[r] = ch[r]
               /\ \A c \in On(ch[r]) : data'[c] = data[c],
           Right(t, ch1, s)',
           pc'[t] = "c_prep" => content'[loc'[t].to] = Unknown
    PROVE  Blocks(ch1)'
<1>1. \A r \in Slot : \/ Untouched(t, ch, ch1, r)
                      \/ r \in UsedBy(loc[t], file[t]) \cup UsedBy(loc'[t], file'[t]) /\ Right(t, ch1, r)'
  <2> TAKE r \in Slot
  <2>1. CASE r = s
    BY <2>1
  <2>2. CASE r # s
    BY <2>2, FatAssumption DEF Untouched
  <2> QED
    BY <2>1, <2>2
<1> QED
  BY <1>1, BlocksCarries, WithinKnows

LEMMA FreeOneBlocks ==
    ASSUME NEW ch, Within(ch), Exclusive', NEW t \in Task, FreeOne(t), ~torn', NEW ch1,
           ch1 = IF pc'[t] # "idle" THEN Shorter(ch, FreeSlot(t))
                 ELSE IF pc[t] = "r_free" THEN Shut(ch, FreeSlot(t), 0) ELSE ch
    PROVE  Blocks(ch1)'
<1>1. /\ Apart(t) /\ UNCHANGED <<dir, data, content>> /\ file'[t] = file[t] /\ pc[t] \in {"t_free", "r_free"}
      /\ \/ pc'[t] = pc[t] /\ loc'[t] = [loc[t] EXCEPT !.cur = fat[loc[t].cur], !.freed = TRUE]
         \/ pc'[t] = "idle" /\ (pc[t] = "t_free" => ~loc[t].freed)
  BY DEF FreeOne, Leave, Return, Goto, Set, Apart, past, TInv, Tasks, Within, Before
<1>2. PICK s : s = FreeSlot(t)
  OBVIOUS
<1>3. s \in Slot /\ s # None /\ s \in UsedBy(loc[t], file[t])
  BY <1>1, <1>2, WithinKnows, LocalsFields, FatAssumption DEF FreeSlot, Fit, Cutting, Removing, UsedBy
<1>4. ch \in [Slot -> Seq(Cluster)] /\ ch1 \in {Shorter(ch, s), Shut(ch, s, 0), ch}
  BY <1>2, WithinKnows
<1>5. \A r \in Slot \ {s} : ch1[r] = ch[r]
  BY <1>4 DEF Shorter, Shut
<1>6. CASE pc[t] = "r_free"
  <2>1. file[t].slot = None /\ ~dir[s].used
    BY <1>2, <1>6, Fileless, WithinKnows DEF FreeSlot, Removing, Sane, Namer
  <2>2. Right(t, ch1, s)'
    BY <1>1, <2>1 DEF Right
  <2> QED
    BY <1>1, <1>3, <1>5, <2>1, <2>2, BlocksName
<1>7. CASE pc[t] = "t_free" /\ pc'[t] = "idle"
  <2>1. ch1 = ch /\ ~Freed(pc[t], loc[t]) /\ WroteBy(pc[t], loc[t], file[t]) = {} /\ WroteBy("idle", loc'[t], file[t]) = {}
    BY <1>1, <1>7 DEF Freed, WroteBy, Writing
  <2>2. Blocks(ch)'
    BY <1>1, <1>7, <2>1, BlocksLocal
  <2> QED
    BY <2>1, <2>2
<1>8. CASE pc[t] = "t_free" /\ pc'[t] = pc[t]
  <2>1. s = file[t].slot
    BY <1>2, <1>8 DEF FreeSlot
  <2>2. Freed(pc'[t], loc'[t])
    BY <1>1, <1>8, WithinKnows DEF Freed, Locals
  <2>3. Right(t, ch1, s)'
    BY <1>1, <2>1, <2>2 DEF Right, Full
  <2> QED
    BY <1>1, <1>3, <1>5, <1>8, <2>1, <2>3, BlocksOwn
<1> QED
  BY <1>1, <1>6, <1>7, <1>8

LEMMA TruncateDirBlocks ==
    ASSUME NEW ch, Within(ch), Exclusive', NEW t \in Task, TruncateDir(t), ~torn'
    PROVE  Blocks(ch)'
<1> DEFINE l == loc[t]
           f == file[t]
<1>0. PICK s : s = f.slot
  OBVIOUS
<1> DEFINE emptied == [l.buf EXCEPT ![s].first = 0, ![s].size = 0]
<1>1. /\ Apart(t) /\ UNCHANGED data /\ pc[t] = "t_dir" /\ pc'[t] = "idle"
      /\ \/ /\ dir' = dir \/ dir' = emptied
            /\ UNCHANGED file /\ content' = [content EXCEPT ![s] = Unknown]
         \/ dir' = emptied /\ file'[t] = Emptied(f) /\ content' = [content EXCEPT ![s] = <<>>]
  BY <1>0 DEF TruncateDir, InDoubt, Leave, Return, Goto, Set, Apart, Emptied, past, TInv, Tasks, Within, Before
<1>2. s # None /\ s \in Slot /\ l.buf = dir /\ l.cur \notin Cluster /\ Starts(ch[s], l.cur)
  BY <1>0, <1>1, WithinKnows DEF Fit, Cutting, Sane, Namer, Owner, Mine, Busy
<1>3. emptied[s].first = 0 /\ emptied[s].size = 0 /\ \A r \in Slot \ {s} : emptied[r] = dir[r]
  <2> DEFINE b == [dir EXCEPT ![s].first = 0]
  <2>1. b \in [Slot -> Entry] /\ b[s].first = 0 /\ \A r \in Slot \ {s} : b[r] = dir[r]
    <3>1. dir \in [Slot -> Entry]
      BY WithinKnows
    <3> QED
      BY ONLY <1>2, <3>1 DEF Entry
  <2>2. emptied = [b EXCEPT ![s].size = 0]
    BY <1>2
  <2> HIDE DEF b, emptied
  <2> QED
    BY <1>2, <2>1, <2>2 DEF Entry
<1> HIDE DEF emptied
<1>4. \A r \in Slot \ {s} : dir'[r] = dir[r] /\ content'[r] = content[r]
  BY <1>1, <1>3, WithinKnows DEF Contents
<1>5. file'[t].slot = s
  BY <1>0, <1>1, WithinKnows DEF Emptied, Files
<1>6. Right(t, ch, s)'
  <2>1. CASE content' = [content EXCEPT ![s] = Unknown]
    BY <1>2, <2>1, WithinKnows DEF Right, Contents
  <2>2. CASE dir' = emptied /\ file'[t] = Emptied(f) /\ content' = [content EXCEPT ![s] = <<>>]
    <3>1. file'[t].ino = 0 /\ file'[t].size = 0
      BY <2>2, WithinKnows DEF Emptied, Files
    <3>2. content'[s] = <<>>
      BY <1>2, <2>2, WithinKnows DEF Contents
    <3>3. ch[s] = <<>>
      BY <1>2, WithinKnows, PathShorter DEF Starts, Chains, TInv, Volume
    <3>4. Reads(<<>>, <<>>, data', {}, loc'[t].val) /\ Len(<<>>) = 0
      BY DEF Reads
    <3> QED
      BY <1>1, <1>3, <1>5, <2>2, <3>1, <3>2, <3>3, <3>4 DEF Right, Full, WroteBy, Writing, Current
  <2> QED
    BY <1>1, <2>1, <2>2
<1> QED
  BY <1>0, <1>1, <1>2, <1>4, <1>5, <1>6, BlocksOwn

LEMMA RemoveDirBlocks ==
    ASSUME NEW ch, Within(ch), Exclusive', NEW t \in Task, RemoveDir(t), NEW ch1,
           ch1 = IF pc'[t] = "idle" /\ ~dir'[loc[t].slot].used THEN Shut(ch, loc[t].slot, 0) ELSE ch
    PROVE  Blocks(ch1)'
<1> DEFINE l == loc[t]
<1>0. PICK s : s = l.slot
  OBVIOUS
<1>1. /\ Apart(t) /\ UNCHANGED data /\ pc[t] = "r_dir" /\ pc'[t] \in {"r_free", "idle"} /\ file'[t] = file[t]
      /\ dir' = dir \/ dir' = [l.buf EXCEPT ![s].used = FALSE]
      /\ content' = [content EXCEPT ![s] = Unknown]
  BY <1>0 DEF RemoveDir, InDoubt, Leave, Return, Goto, Set, Apart, TInv, Tasks, Within, Before
<1>2. /\ l.buf = dir /\ s # None /\ s \in Slot /\ file[t].slot = None /\ pc'[t] # "c_prep"
      /\ s \in UsedBy(loc[t], file[t])
  BY <1>0, <1>1, Fileless, WithinKnows, LocalsFields DEF Sane, Namer, Fit, Removing, UsedBy
<1>3. content'[s] = Unknown /\ \A r \in Slot \ {s} : content'[r] = content[r] /\ dir'[r] = dir[r]
  BY <1>1, <1>2, WithinKnows DEF Contents
<1>4. \A r \in Slot \ {s} : ch1[r] = ch[r]
  BY <1>0, WithinKnows DEF Shut
<1>5. Right(t, ch1, s)'
  BY <1>3 DEF Right
<1> QED
  BY <1>1, <1>2, <1>3, <1>4, <1>5, BlocksName

LEMMA CreateDirBlocks ==
    ASSUME NEW ch, Within(ch), Exclusive', NEW t \in Task, CreateDir(t), NEW ch1,
           ch1 = IF loc[t].kind = "dir" /\ dir'[loc[t].to].used THEN Made(ch, loc[t].to, loc[t].new) ELSE ch
    PROVE  Blocks(ch1)'
<1> DEFINE l == loc[t]
<1>0. PICK s : s = l.to
  OBVIOUS
<1> DEFINE e == [used |-> TRUE, isdir |-> l.kind = "dir", first |-> l.new, size |-> 0]
<1>1. Apart(t) /\ UNCHANGED data /\ pc[t] = "c_dir"
  BY DEF CreateDir, Return, Goto, Set, Apart, TInv, Tasks, Within, Before
<1>2. dir' = dir \/ dir' = [l.buf EXCEPT ![s] = e]
  BY <1>0 DEF CreateDir, InDoubt
<1>3. \/ content' = [content EXCEPT ![s] = Unknown]
      \/ l.kind # "dir" /\ dir' = [l.buf EXCEPT ![s] = e] /\ content' = [content EXCEPT ![s] = <<>>]
  <2>1. \/ content' = [content EXCEPT ![s] = Unknown]
        \/ dir' = [l.buf EXCEPT ![s] = e] /\ content' = [content EXCEPT ![s] = IF l.kind = "dir" THEN Unknown ELSE <<>>]
    BY <1>0 DEF CreateDir
  <2> HIDE DEF l, e
  <2> QED
    BY <2>1
<1>4. l.kind = "file" => pc'[t] = "idle" /\ file'[t] = [NoFile EXCEPT !.slot = s]
  BY <1>0, WithinKnows DEF CreateDir, Return, Goto
<1>5. l.kind # "file" => file'[t] = file[t]
  BY DEF CreateDir
<1>6. pc'[t] = "c_prep" => l.kind = "dir" /\ loc'[t] = l
  <2>1. CASE l.kind = "file"
    BY <1>4, <2>1
  <2>2. CASE l.kind = "rename"
    BY <2>2, WithinKnows DEF CreateDir, Goto
  <2>3. CASE l.kind \notin {"file", "rename"}
    <3>1. IF failures' = failures THEN Goto(t, "c_prep") /\ UNCHANGED loc ELSE Return(t)
      BY <2>3 DEF CreateDir
    <3>2. l.kind = "dir"
      BY <1>1, <2>3, WithinKnows DEF Fit, Making
    <3> QED
      BY <3>1, <3>2, WithinKnows DEF Return, Goto
  <2> QED
    BY <2>1, <2>2, <2>3
<1>7. /\ l.buf = dir /\ ~dir[s].used /\ (l.kind # "dir" => l.new = 0)
      /\ s \in Slot /\ s # None /\ file[t].slot = None /\ s \in UsedBy(loc[t], file[t])
  BY <1>0, <1>1, Fileless, WithinKnows, LocalsFields DEF Making, Sane, Namer, Fit, UsedBy
<1>8. ch[s] = <<>>
  BY <1>1, <1>7, UnusedBare, WithinKnows
<1>9. dir \in [Slot -> Entry] /\ DOMAIN content = Slot /\ e.first = l.new /\ e.size = 0
  BY WithinKnows DEF Contents, Within, Before
<1> HIDE DEF e
<1>10. \A r \in Slot \ {s} : dir'[r] = dir[r] /\ content'[r] = content[r]
  BY <1>2, <1>3, <1>7, <1>9
<1>11. /\ ch1 \in {ch, Made(ch, s, l.new)} /\ (l.kind # "dir" => ch1 = ch) /\ ch \in [Slot -> Seq(Cluster)]
  BY <1>0, WithinKnows
<1>12. \A r \in Slot \ {s} : ch1[r] = ch[r]
  BY <1>11 DEF Made
<1>13. file'[t].slot \in {None, s}
  BY <1>4, <1>5, <1>7 DEF NoFile
<1>14. pc'[t] = "c_prep" => content'[loc'[t].to] = Unknown
  BY <1>0, <1>3, <1>6, <1>7, <1>9
<1>15. Right(t, ch1, s)'
  <2>1. CASE content' = [content EXCEPT ![s] = Unknown]
    BY <1>7, <1>9, <2>1 DEF Right
  <2>2. CASE l.kind # "dir" /\ dir' = [l.buf EXCEPT ![s] = e] /\ content' = [content EXCEPT ![s] = <<>>]
    <3>1. ch1[s] = <<>> /\ content'[s] = <<>> /\ dir'[s].first = 0 /\ dir'[s].size = 0 /\ Len(<<>>) = 0
      BY <1>7, <1>8, <1>9, <1>11, <2>2
    <3>2. \A w : Reads(<<>>, <<>>, data', {}, w)
      BY DEF Reads
    <3>3. Plain(dir'[s], ch1[s], content'[s], data')
      BY <3>1, <3>2 DEF Plain
    <3>4. file'[t].slot = s => pc'[t] = "idle" /\ file'[t].ino = 0 /\ file'[t].size = 0
      BY <1>4, <1>5, <1>7 DEF NoFile
    <3>5. file'[t].slot = s => Full(dir'[s], ch1[s], content'[s], data', pc'[t], loc'[t], file'[t])
      BY <3>1, <3>2, <3>4 DEF Full, WroteBy, Writing, Current
    <3> QED
      BY <3>3, <3>5 DEF Right
  <2> QED
    BY <1>3, <2>1, <2>2
<1> QED
  BY <1>1, <1>7, <1>10, <1>12, <1>13, <1>14, <1>15, BlocksName

LEMMA CreatePrepareBlocks ==
    ASSUME NEW ch, Within(ch), Exclusive', NEW t \in Task, CreatePrepare(t)
    PROVE  Blocks(ch)'
<1> DEFINE n == loc[t].new
<1>0. PICK s : s = loc[t].to
  OBVIOUS
<1>1. /\ Apart(t) /\ UNCHANGED <<dir, content>> /\ pc[t] = "c_prep" /\ pc'[t] = "idle" /\ file'[t] = file[t]
      /\ UNCHANGED data \/ data' = [data EXCEPT ![n] = Zero]
  BY DEF CreatePrepare, Return, Goto, Set, Apart, TInv, Tasks, Within, Before
<1>2. /\ s # None /\ s \in Slot /\ file[t].slot = None /\ ch[s] = <<n>> /\ content[s] = Unknown
      /\ s \in UsedBy(loc[t], file[t])
  BY <1>0, <1>1, Fileless, WithinKnows, LocalsFields DEF Making, Sane, Grower, Fit, UsedBy, Blocks
<1>3. \A r \in Slot \ {s} : \A c \in On(ch[r]) : data'[c] = data[c]
  <2> TAKE r \in Slot \ {s}
  <2>1. On(ch[r]) \subseteq Cluster
    BY PathElements, WithinKnows DEF Chains
  <2>2. n \in On(ch[s])
    BY <1>2 DEF On
  <2>3. n \notin On(ch[r])
    BY <1>2, <2>2, WithinKnows DEF Chains
  <2> QED
    BY <1>1, <2>1, <2>3, WithinKnows DEF TInv, Volume
<1>4. Right(t, ch, s)'
  BY <1>1, <1>2 DEF Right
<1> QED
  BY <1>1, <1>2, <1>3, <1>4, BlocksName

LEMMA RenameDirBlocks ==
    ASSUME NEW ch, Within(ch), Exclusive', NEW t \in Task, RenameDir(t), NEW ch1,
           ch1 = IF dir'[loc[t].slot].used THEN ch ELSE Renamed(ch, loc[t].slot, loc[t].to)
    PROVE  Blocks(ch1)'
<1> DEFINE l == loc[t]
<1>0. PICK s, r : s = l.slot /\ r = l.to
  OBVIOUS
<1> DEFINE moved == [l.buf EXCEPT ![s].used = FALSE, ![r] = l.buf[s]]
<1>1. /\ Apart(t) /\ UNCHANGED data /\ pc[t] = "n_dir" /\ pc'[t] = "idle" /\ file'[t] = file[t]
      /\ \/ /\ dir' = dir \/ dir' = moved
            /\ content' = [content EXCEPT ![r] = Unknown, ![s] = Unknown]
         \/ dir' = moved /\ content' = [content EXCEPT ![r] = content[s], ![s] = Unknown]
  BY <1>0 DEF RenameDir, InDoubt, Leave, Return, Goto, Set, Apart, TInv, Tasks, Within, Before
<1>2. /\ l.buf = dir /\ file[t].slot = None /\ r # s /\ dir[s].used
      /\ s \in Slot /\ r \in Slot /\ s # None /\ r # None
  BY <1>0, <1>1, Fileless, WithinKnows, LocalsFields DEF Renaming, Sane, Namer, Fit
<1>3. s \in UsedBy(loc[t], file[t]) /\ r \in UsedBy(loc[t], file[t])
  BY <1>0, <1>2 DEF UsedBy
<1>4. moved[r] = dir[s] /\ moved[s].used = FALSE /\ \A q \in Slot \ {s, r} : moved[q] = dir[q]
  <2>1. dir \in [Slot -> Entry]
    BY WithinKnows
  <2> QED
    BY <1>2, <2>1 DEF Entry
<1> HIDE DEF moved
<1>5. content'[s] = Unknown /\ \A q \in Slot \ {s, r} : content'[q] = content[q]
  BY <1>1, <1>2, WithinKnows DEF Contents
<1>6. ch1 \in {ch, Renamed(ch, s, r)} /\ (dir' = moved => ch1 = Renamed(ch, s, r))
  BY <1>0, <1>4
<1>7. \A q \in Slot \ {s, r} : dir'[q] = dir[q] /\ ch1[q] = ch[q]
  BY <1>1, <1>4, <1>6 DEF Renamed
<1>8. Right(t, ch1, s)'
  BY <1>5 DEF Right
<1>9. Right(t, ch1, r)'
  <2>1. CASE content' = [content EXCEPT ![r] = Unknown, ![s] = Unknown]
    BY <1>2, <2>1, WithinKnows DEF Right, Contents
  <2>2. CASE dir' = moved /\ content' = [content EXCEPT ![r] = content[s], ![s] = Unknown]
    <3>1. Right(t, ch, s)
      BY <1>3, OwnRight, WithinKnows
    <3>2. content'[r] = content[s]
      BY <1>2, <2>2, WithinKnows DEF Contents
    <3>3. ch1[r] = ch[s] /\ dir'[r] = dir[s]
      BY <1>2, <1>4, <1>6, <2>2 DEF Renamed
    <3> QED
      BY <1>1, <1>2, <3>1, <3>2, <3>3 DEF Right
  <2> QED
    BY <1>1, <2>1, <2>2
<1>10. \A q \in Slot : \/ Untouched(t, ch, ch1, q)
                       \/ q \in UsedBy(loc[t], file[t]) \cup UsedBy(loc'[t], file'[t]) /\ Right(t, ch1, q)'
  <2> TAKE q \in Slot
  <2>1. CASE q \in {s, r}
    BY <1>3, <1>8, <1>9, <2>1
  <2>2. CASE q \notin {s, r}
    BY <1>1, <1>2, <1>5, <1>7, <2>2, FatAssumption DEF Untouched
  <2> QED
    BY <2>1, <2>2
<1> QED
  BY <1>1, <1>10, BlocksCarries, WithinKnows

\* What is on the disk at a crash is what the calls that returned have written.
LEMMA CrashBlocks ==
    ASSUME NEW ch, Within(ch), Crash, ~torn', NEW ch1, ch1 = Remain(ch)
    PROVE  Blocks(ch1)'
<1>1. /\ UNCHANGED <<dir, data>> /\ \A t \in Task : pc'[t] = "idle" /\ file'[t] = NoFile
      /\ \A t \in Task : ~Freed(pc[t], loc[t])
      /\ content' = [s \in Slot |-> IF \E t \in Task : Cut(t) /\ file[t].slot = s THEN Unknown ELSE content[s]]
  BY DEF Crash, disk, Freed
<1>2. ASSUME NEW s \in Slot PROVE Good(ch1, s)'
  <2>1. \A t \in Task : file'[t].slot # s
    BY <1>1, FatAssumption DEF NoFile
  <2> SUFFICES ASSUME dir[s].used, content[s] # Unknown, \A t \in Task : Cut(t) => file[t].slot # s
               PROVE  Plain(dir[s], ch1[s], content[s], data)
    BY <1>1, <2>1 DEF Good
  <2>2. /\ Len(content[s]) = dir[s].size /\ Reads(ch[s], content[s], data, {}, Zero)
        /\ dir[s].first = 0 => Len(content[s]) = 0
    <3>1. CASE \A t \in Task : file[t].slot # s
      <4>1. Plain(dir[s], ch[s], content[s], data)
        BY <3>1, WithinKnows DEF Blocks, Good, Within
      <4>2. \A t \in Task : ~Holds(pc[t], loc[t], file[t], s)
        BY <3>1, WithinKnows DEF Holds, Sane, Namer
      <4>3. dir[s].first = 0 => ch[s] = <<>>
        <5>1. Starts(ch[s], dir[s].first)
          BY <4>2 DEF Within, Before, Owned, Closed
        <5>2. ch[s] # <<>> => ch[s][1] \in Cluster
          BY PathShorter DEF Within, Before, Owned, Chains, TInv, Volume
        <5> QED
          BY <5>1, <5>2, Numbers DEF Starts
      <4>4. Len(content[s]) \in Nat
        BY ContentLength DEF Within
      <4> QED
        BY <4>1, <4>3, <4>4 DEF Plain, Reads
    <3>2. ASSUME NEW t \in Task, file[t].slot = s
          PROVE  /\ Len(content[s]) = dir[s].size /\ Reads(ch[s], content[s], data, {}, Zero)
                 /\ dir[s].first = 0 => Len(content[s]) = 0
      <4>1. ~Cut(t) /\ ~Freed(pc[t], loc[t])
        BY <1>1, <3>2
      <4>2. Full(dir[s], ch[s], content[s], data, pc[t], loc[t], file[t])
        BY <3>2, WithinKnows DEF Blocks, Good
      <4>3. pc[t] # "w_dir" /\ (pc[t] \in Writing => pc[t] = "w_lock")
        BY <4>1 DEF Cut, Writing
      <4>4. /\ Len(content[s]) = dir[s].size /\ Reads(ch[s], content[s], data, WroteBy(pc[t], loc[t], file[t]), loc[t].val)
            /\ Current(dir[s], pc[t], loc[t], file[t])
        BY <4>1, <4>2 DEF Full
      <4>5. WroteBy(pc[t], loc[t], file[t]) = {}
        <5>1. pc[t] \in Writing => loc[t].done = 0 /\ file[t].pos \in Nat
          BY <4>3, <4>4, WithinKnows, FilesFields DEF Current
        <5> QED
          BY <5>1 DEF WroteBy
      <4> QED
        BY <4>3, <4>4, <4>5 DEF Reads, Current
    <3> QED
      BY <3>1, <3>2
  <2>3. ch1[s] = IF dir[s].first # 0 THEN ch[s] ELSE <<>>
    BY DEF Remain
  <2> QED
    BY <2>2, <2>3 DEF Plain, Reads
<1> QED
  BY <1>1, <1>2 DEF Blocks

LEMMA OverlayType ==
    ASSUME NEW c \in Seq(Block), NEW p \in Nat, NEW d \in Nat, NEW v \in Block
    PROVE  Overlay(c, p, d, v) \in Seq(Block)
<1> DEFINE n == IF Len(c) < p + d THEN p + d ELSE Len(c)
           f(i) == IF i > p /\ i <= p + d THEN v ELSE IF i <= Len(c) THEN c[i] ELSE Zero
<1>1. n \in Nat
  OBVIOUS
<1>2. \A i \in 1 .. n : f(i) \in Block
  BY DEF Block
<1>3. Overlay(c, p, d, v) = [i \in 1 .. n |-> f(i)]
  BY DEF Overlay
<1> HIDE DEF n, f
<1> QED
  BY <1>1, <1>2, <1>3

LEMMA NextContents == ASSUME TInv, Contents, [Next]_vars PROVE Contents'
<1> DEFINE C == Seq(Block) \cup {Unknown}
<1>1. content \in [Slot -> C] /\ Unknown \in C /\ <<>> \in C
  BY DEF Contents
<1>2. ASSUME NEW s \in Slot, NEW v \in C, content' = [content EXCEPT ![s] = v] PROVE Contents'
  BY <1>1, <1>2 DEF Contents
<1>3. ASSUME UNCHANGED content PROVE Contents'
  BY <1>3 DEF Contents
<1>4. CASE Crash
  BY <1>1, <1>4 DEF Crash, Contents
<1>5. ASSUME NEW t \in Task, FileStep(t) \/ Acquire(t) PROVE UNCHANGED content
  BY <1>5 DEF FileStep, Open, Close, Seek, Acquire
<1>6. ASSUME NEW t \in Task, WriteStep(t) PROVE Contents'
  <2>1. CASE WriteDir(t)
    <3> DEFINE l == loc[t]
               f == file[t]
               v == IF content[f.slot] = Unknown THEN content[f.slot] ELSE Overlay(content[f.slot], f.pos, l.done, l.val)
    <3>1. f.slot \in Slot /\ f.pos \in Nat /\ l.done \in Nat /\ l.val \in Block
      <4>1. f \in Files /\ l \in Locals /\ f.slot # None
        BY <2>1, Still DEF TInv, WriteDir, Fit, Writing
      <4> QED
        BY <4>1, FilesFields, LocalsFields DEF Block
    <3>2. v \in C
      BY <1>1, <3>1, OverlayType
    <3>3. \/ content' = [content EXCEPT ![f.slot] = Unknown]
          \/ content' = [content EXCEPT ![f.slot] = v]
      BY <2>1 DEF WriteDir
    <3> HIDE DEF C, v, f
    <3> QED
      BY <1>1, <1>2, <3>1, <3>2, <3>3
  <2>2. CASE WriteData(t)
    <3>1. file[t].slot \in Slot
      BY <2>2, Still, FilesFields DEF TInv, WriteData, Fit, Writing
    <3>2. UNCHANGED content \/ content' = [content EXCEPT ![file[t].slot] = Unknown]
      BY <2>2 DEF WriteData
    <3> HIDE DEF C
    <3> QED
      BY <1>1, <1>2, <1>3, <3>1, <3>2
  <2>3. CASE ~WriteDir(t) /\ ~WriteData(t)
    BY <1>3, <1>6, <2>3 DEF WriteStep, Write, WriteTurn, WriteZero, WriteMark, WriteLink, WriteUndo, WriteEnd
  <2> QED
    BY <2>1, <2>2, <2>3
<1>7. ASSUME NEW t \in Task, CutStep(t) PROVE Contents'
  <2>1. \/ UNCHANGED content
        \/ /\ file[t].slot \in Slot
           /\ \/ content' = [content EXCEPT ![file[t].slot] = <<>>]
              \/ content' = [content EXCEPT ![file[t].slot] = Unknown]
    <3>1. CASE TruncateDir(t)
      <4>1. file[t].slot \in Slot
        BY <3>1, Still, FilesFields DEF TInv, TruncateDir, Fit, Cutting
      <4> QED
        BY <3>1, <4>1 DEF TruncateDir
    <3>2. CASE ~TruncateDir(t)
      BY <1>7, <3>2 DEF CutStep, Truncate, FreeOne, TruncateRead
    <3> QED
      BY <3>1, <3>2
  <2> QED
    BY <1>1, <1>2, <1>3, <2>1
<1>8. ASSUME NEW t \in Task, NameStep(t) PROVE Contents'
  <2>1. CASE RemoveDir(t)
    <3>1. loc[t].slot \in Slot
      BY <2>1, Still, LocalsFields DEF TInv, RemoveDir, Fit, Removing
    <3>2. content' = [content EXCEPT ![loc[t].slot] = Unknown]
      BY <2>1 DEF RemoveDir
    <3> QED
      BY <1>1, <1>2, <1>3, <3>1, <3>2
  <2>2. CASE CreateDir(t)
    <3> DEFINE v == IF loc[t].kind = "dir" THEN Unknown ELSE <<>>
    <3>1. loc[t].to \in Slot
      BY <2>2, Still, LocalsFields DEF TInv, CreateDir, Fit, Making
    <3>2. content' = [content EXCEPT ![loc[t].to] = v] \/ content' = [content EXCEPT ![loc[t].to] = Unknown]
      BY <2>2 DEF CreateDir
    <3>3. v \in C
      BY <1>1
    <3> HIDE DEF v, C
    <3> QED
      BY <1>1, <1>2, <1>3, <3>1, <3>2, <3>3
  <2>3. CASE RenameDir(t)
    <3>1. loc[t].to \in Slot /\ loc[t].slot \in Slot
      BY <2>3, Still, LocalsFields DEF TInv, RenameDir, Fit, Renaming
    <3>2. \/ content' = [content EXCEPT ![loc[t].to] = content[loc[t].slot], ![loc[t].slot] = Unknown]
          \/ content' = [content EXCEPT ![loc[t].to] = Unknown, ![loc[t].slot] = Unknown]
      BY <2>3 DEF RenameDir
    <3>3. content[loc[t].slot] \in C
      BY <1>1, <3>1
    <3> HIDE DEF C
    <3>4. content' \in [Slot -> C]
      BY <1>1, <3>1, <3>2, <3>3
    <3> QED
      BY <3>4 DEF C, Contents
  <2>4. CASE ~RemoveDir(t) /\ ~CreateDir(t) /\ ~RenameDir(t)
    BY <1>3, <1>8, <2>4 DEF NameStep, Create, CreateMark, CreatePrepare, RenameRead, Unlink, RemoveRead, RemoveEnd
  <2> QED
    BY <2>1, <2>2, <2>3, <2>4
<1>9. CASE UNCHANGED vars
  BY <1>3, <1>9 DEF vars
<1> QED
  BY <1>3, <1>4, <1>5, <1>6, <1>7, <1>8, <1>9 DEF Next, FileStep, CutStep

-----------------------------------------------------------------------------
(* Every step keeps what a file must read back in its clusters.            *)

LEMMA FileStepBlocks ==
    ASSUME NEW ch, Within(ch), Exclusive', NEW t \in Task, FileStep(t), NEW ch1, ch1 = After(t, ch)
    PROVE  Blocks(ch1)'
<1>0. Tasks
  BY DEF Within, Before, TInv
<1>1. ASSUME NEW s \in Slot, Open(t, s) PROVE Blocks(ch1)'
  <2>1. ch1 = ch
    BY <1>1 DEF After, Open
  <2> QED
    BY <1>1, <2>1, OpenBlocks
<1>2. CASE Close(t)
  <2>1. file'[t].slot = None
    BY <1>0, <1>2 DEF Close, Tasks, NoFile
  <2>2. ch1 = Shut(ch, file[t].slot, IF dir[file[t].slot].used THEN dir[file[t].slot].first ELSE 0)
    BY <1>2, <2>1 DEF After, Close
  <2> QED
    BY <1>2, <2>2, CloseBlocks
<1>3. ASSUME NEW p \in 0 .. MaxSize - 1, Seek(t, p) PROVE Blocks(ch1)'
  <2>1. file'[t].slot = file[t].slot /\ pc[t] = "idle"
    BY <1>0, <1>3 DEF Seek, Tasks, Files
  <2>2. ch1 = ch
    BY <2>1 DEF After
  <2> QED
    BY <1>3, <2>2, SeekBlocks
<1> QED
  BY <1>1, <1>2, <1>3 DEF FileStep

LEMMA WriteStepBlocks ==
    ASSUME NEW ch, Within(ch), Exclusive', NEW t \in Task, WriteStep(t), NEW ch1, ch1 = After(t, ch)
    PROVE  Blocks(ch1)'
<1>1. ASSUME NEW n \in 1 .. MaxSize, NEW v \in Value, Write(t, n, v) PROVE Blocks(ch1)'
  <2>1. ch1 = ch
    BY <1>1 DEF After, Write
  <2> QED
    BY <1>1, <2>1, WriteBlocks
<1>2. CASE WriteTurn(t)
  BY <1>2, AfterNothing, WriteTurnBlocks DEF WriteTurn
<1>3. CASE WriteZero(t)
  BY <1>3, AfterNothing, WriteZeroBlocks DEF WriteZero
<1>4. CASE WriteMark(t)
  <2>1. ch1 = IF loc[t].at = None /\ pc'[t] = "w_top" THEN Longer(ch, file[t].slot, loc[t].new) ELSE ch
    BY <1>4 DEF After, WriteMark
  <2> QED
    BY <1>4, <2>1, WriteMarkBlocks
<1>5. CASE WriteLink(t)
  <2>1. ch1 = IF pc'[t] = "w_top" THEN Longer(ch, file[t].slot, loc[t].new) ELSE ch
    BY <1>5 DEF After, WriteLink
  <2> QED
    BY <1>5, <2>1, WriteLinkBlocks
<1>6. CASE WriteUndo(t)
  BY <1>6, AfterNothing, WriteUndoBlocks DEF WriteUndo
<1>7. CASE WriteData(t)
  BY <1>7, AfterNothing, WriteDataBlocks DEF WriteData
<1>8. CASE WriteEnd(t)
  <2>1. ch1 = IF loc[t].done = 0 THEN Shut(ch, file[t].slot, file[t].ino) ELSE ch
    BY <1>8 DEF After, WriteEnd
  <2> QED
    BY <1>8, <2>1, WriteEndBlocks
<1>9. CASE WriteDir(t)
  BY <1>9, AfterNothing, WriteDirBlocks DEF WriteDir
<1> QED
  BY <1>1, <1>2, <1>3, <1>4, <1>5, <1>6, <1>7, <1>8, <1>9 DEF WriteStep

LEMMA CutStepBlocks ==
    ASSUME NEW ch, Within(ch), Exclusive', NEW t \in Task, CutStep(t), ~torn', NEW ch1, ch1 = After(t, ch)
    PROVE  Blocks(ch1)'
<1>0. TInv /\ Tasks
  BY DEF Within, Before, TInv
<1>1. CASE Truncate(t)
  <2>1. ch1 = ch
    BY <1>0, <1>1 DEF After, Truncate
  <2> QED
    BY <1>1, <2>1, TruncateBlocks
<1>2. CASE FreeOne(t)
  <2>1. ch1 = IF pc'[t] # "idle" THEN Shorter(ch, FreeSlot(t))
              ELSE IF pc[t] = "r_free" THEN Shut(ch, FreeSlot(t), 0) ELSE ch
    <3>1. pc[t] \in {"t_free", "r_free"} /\ loc[t].cur \in Cluster /\ (pc'[t] = pc[t] \/ pc'[t] = "idle")
      BY <1>0, <1>2, FreeOneGoes DEF FreeOne, Valid
    <3>2. pc[t] = "r_free" => FreeSlot(t) = loc[t].slot
      BY DEF FreeSlot
    <3> QED
      BY <3>1, <3>2 DEF After
  <2> QED
    BY <1>2, <2>1, FreeOneBlocks
<1>3. CASE TruncateRead(t)
  <2>1. ch1 = ch
    <3>1. pc[t] = "t_free" /\ pc'[t] = "t_dir"
      BY <1>0, <1>3 DEF TruncateRead, Goto, Tasks
    <3> QED
      BY <3>1 DEF After
  <2> QED
    BY <1>3, <2>1, ReadBlocks
<1>4. CASE TruncateDir(t)
  BY <1>4, AfterNothing, TruncateDirBlocks DEF TruncateDir
<1> QED
  BY <1>1, <1>2, <1>3, <1>4 DEF CutStep

LEMMA NameStepBlocks ==
    ASSUME NEW ch, Within(ch), Exclusive', NEW t \in Task, NameStep(t), NEW ch1, ch1 = After(t, ch)
    PROVE  Blocks(ch1)'
<1>0. TInv /\ Tasks
  BY DEF Within, Before, TInv
<1>1. ASSUME NEW kind \in {"file", "dir", "rename"}, NEW from \in Slot \cup {None}, Create(t, kind, from)
      PROVE  Blocks(ch1)'
  <2>1. ch1 = ch
    BY <1>1 DEF After, Create
  <2> QED
    BY <1>1, <2>1, CreateBlocks
<1>2. CASE CreateMark(t)
  BY <1>2, AfterNothing, CreateMarkBlocks DEF CreateMark
<1>3. CASE CreateDir(t)
  <2>1. ch1 = IF loc[t].kind = "dir" /\ dir'[loc[t].to].used THEN Made(ch, loc[t].to, loc[t].new) ELSE ch
    BY <1>3 DEF After, CreateDir
  <2> QED
    BY <1>3, <2>1, CreateDirBlocks
<1>4. CASE CreatePrepare(t)
  BY <1>4, AfterNothing, CreatePrepareBlocks DEF CreatePrepare
<1>5. CASE RenameRead(t)
  BY <1>5, AfterNothing, ReadBlocks DEF RenameRead
<1>6. CASE RenameDir(t)
  <2>1. ch1 = IF dir'[loc[t].slot].used THEN ch ELSE Renamed(ch, loc[t].slot, loc[t].to)
    BY <1>6 DEF After, RenameDir
  <2> QED
    BY <1>6, <2>1, RenameDirBlocks
<1>7. ASSUME NEW s \in Slot, Unlink(t, s) PROVE Blocks(ch1)'
  <2>1. ch1 = ch
    BY <1>7 DEF After, Unlink
  <2> QED
    BY <1>7, <2>1, UnlinkBlocks
<1>8. CASE RemoveRead(t)
  BY <1>8, AfterNothing, ReadBlocks DEF RemoveRead
<1>9. CASE RemoveDir(t)
  <2>1. ch1 = IF pc'[t] = "idle" /\ ~dir'[loc[t].slot].used THEN Shut(ch, loc[t].slot, 0) ELSE ch
    BY <1>9 DEF After, RemoveDir
  <2> QED
    BY <1>9, <2>1, RemoveDirBlocks
<1>10. CASE RemoveEnd(t)
  <2>1. ch1 = ch
    <3>1. pc[t] = "r_free" /\ pc'[t] = "idle" /\ loc[t].cur \notin Cluster
      BY <1>0, <1>10 DEF RemoveEnd, Leave, Return, Goto, Tasks, Valid
    <3> QED
      BY <3>1 DEF After
  <2> QED
    BY <1>10, <2>1, RemoveEndBlocks
<1> QED
  BY <1>1, <1>2, <1>3, <1>4, <1>5, <1>6, <1>7, <1>8, <1>9, <1>10 DEF NameStep

LEMMA TaskStepBlocks ==
    ASSUME NEW ch, Within(ch), Exclusive', ~torn', NEW t \in Task,
           FileStep(t) \/ Acquire(t) \/ WriteStep(t) \/ CutStep(t) \/ NameStep(t)
    PROVE  Exclusive' /\ \E c : Owned(c)' /\ Blocks(c)'
<1>0. Before(ch)
  BY DEF Within
<1>1. PICK ch1 : ch1 = After(t, ch)
  OBVIOUS
<1>2. Exclusive' /\ Owned(ch1)'
  BY <1>0, <1>1, FileStepOwned, AcquireStepOwned, WriteStepOwned, CutStepOwned, NameStepOwned
<1>3. ASSUME Acquire(t) PROVE Blocks(ch1)'
  BY <1>1, <1>2, <1>3, AfterNothing, AcquireBlocks DEF Acquire
<1>4. Blocks(ch1)'
  BY <1>1, <1>2, <1>3, FileStepBlocks, WriteStepBlocks, CutStepBlocks, NameStepBlocks
<1> QED
  BY <1>2, <1>4

\* The inductive invariant: each chain holds what its file must read back,
\* and what the call under way has written over it.
BInv == TInv /\ failures \in Nat /\ Contents /\ (~torn /\ ~raced => Exclusive /\ \E ch : Owned(ch) /\ Blocks(ch))

LEMMA NextBlocks == BInv /\ [Next]_vars => BInv'
<1> SUFFICES ASSUME BInv, [Next]_vars PROVE BInv'
  OBVIOUS
<1>1. TInv' /\ failures' \in Nat /\ Contents'
  BY NextTypes, FailuresCount, NextContents DEF BInv
<1>2. CASE UNCHANGED vars
  <2> SUFFICES ASSUME ~torn, ~raced PROVE Exclusive' /\ \E ch : Owned(ch)' /\ Blocks(ch)'
    BY <1>1, <1>2 DEF BInv, vars
  <2>1. PICK ch : Owned(ch) /\ Blocks(ch)
    BY DEF BInv
  <2>2. Exclusive'
    BY <1>2 DEF BInv, Exclusive, vars
  <2>3. Owned(ch)'
    BY <1>2, <2>1 DEF Owned, vars
  <2>4. Blocks(ch)'
    BY <1>2, <2>1 DEF Blocks, Good, vars
  <2> QED
    BY <2>2, <2>3, <2>4
<1>4. CASE raced'
  BY <1>1, <1>4 DEF BInv
<1>3. CASE Next /\ ~raced'
  <2>0. ~raced /\ ~Race' /\ ~torn
    BY <1>3 DEF Next
  <2>1. Exclusive /\ \E ch : Owned(ch) /\ Blocks(ch)
    BY <2>0 DEF BInv
  <2>2. PICK ch : Owned(ch) /\ Blocks(ch)
    BY <2>1
  <2>6. TInv' /\ ~Race' => Exclusive'
    BY NoRace, PTL
  <2>3. Within(ch) /\ Exclusive'
    BY <1>1, <2>0, <2>1, <2>2, <2>6 DEF BInv, Within, Before
  <2> SUFFICES ASSUME ~torn' PROVE Exclusive' /\ \E c : Owned(c)' /\ Blocks(c)'
    BY <1>1 DEF BInv
  <2>4. CASE Crash
    <3>1. PICK ch1 : ch1 = Remain(ch)
      OBVIOUS
    <3>2. Exclusive' /\ Owned(ch1)'
      BY <2>1, <2>2, <2>3, <2>4, <3>1, CrashOwned DEF BInv
    <3>3. Blocks(ch1)'
      BY <2>3, <2>4, <3>1, CrashBlocks
    <3> QED
      BY <3>2, <3>3
  <2>5. CASE ~Crash
    <3>1. PICK t \in Task : FileStep(t) \/ Acquire(t) \/ WriteStep(t) \/ CutStep(t) \/ NameStep(t)
      BY <1>3, <2>5 DEF Next, FileStep, CutStep
    <3> QED
      BY <2>3, <3>1, TaskStepBlocks
  <2> QED
    BY <2>4, <2>5
<1> QED
  BY <1>2, <1>3, <1>4

\* A read of the record finds the blocks of its chain.
LEMMA ReadChain ==
    ASSUME fat \in [Cluster -> Links], NEW q, Path(fat, q), NEW c \in Seq(Block), NEW first,
           Reads(q, c, data, {}, Zero), Len(c) # 0 => first = q[1]
    PROVE  ReadFile(first, Len(c)) = c
<1> DEFINE size == Len(c)
           there == {n \in 0 .. (size - 1) : Valid(Nth(fat, first, n))}
<1>1. size \in Nat /\ size <= Len(q) /\ Len(q) \in Nat /\ \A i \in 1 .. Len(q) : q[i] \in Cluster
  BY PathElements DEF Reads
<1>2. ASSUME NEW n \in 0 .. (size - 1) PROVE Nth(fat, first, n) = q[n + 1] /\ Valid(q[n + 1])
  <2>1. n \in Nat /\ n < Len(q) /\ q # <<>> /\ first = q[1] /\ n + 1 \in 1 .. Len(q)
    BY <1>1
  <2> QED
    BY <1>1, <2>1, NthPath DEF Valid
<1>3. there = 0 .. (size - 1)
  BY <1>2
<1>4. Cardinality(there) = size
  <2>1. 0 \in Int /\ size - 1 \in Int
    BY <1>1
  <2>2. Cardinality(0 .. (size - 1)) = IF 0 > size - 1 THEN 0 ELSE (size - 1) - 0 + 1
    BY <2>1, FS_Interval
  <2>3. Cardinality(0 .. (size - 1)) = size
    <3> HIDE DEF size
    <3> QED
      BY <1>1, <2>2
  <2> HIDE DEF there
  <2> QED
    BY <1>3, <2>3
<1>5. \A i \in 1 .. size : data[Nth(fat, first, i - 1)] = c[i]
  <2> TAKE i \in 1 .. size
  <2>1. i - 1 \in 0 .. (size - 1) /\ (i - 1) + 1 = i /\ i \in 1 .. Len(q)
    BY <1>1
  <2>2. Nth(fat, first, i - 1) = q[i]
    BY <1>2, <2>1
  <2>3. data[q[i]] = c[i]
    BY <1>1, <2>1 DEF Reads
  <2> QED
    BY <2>2, <2>3
<1>6. ReadFile(first, size) = [i \in 1 .. Cardinality(there) |-> data[Nth(fat, first, i - 1)]]
  BY DEF ReadFile
<1> HIDE DEF there
<1>7. ReadFile(first, size) = [i \in 1 .. size |-> c[i]]
  BY <1>4, <1>5, <1>6
<1> QED
  BY <1>7

LEMMA BlocksReadBack == ASSUME TInv, Exclusive, Contents, NEW ch, Owned(ch), Blocks(ch) PROVE ReadsBack
<1> SUFFICES ASSUME NEW s \in Slot, dir[s].used, content[s] # Unknown, \A t \in Task : file[t].slot = s => pc[t] = "idle"
             PROVE  ReadFile(dir[s].first, dir[s].size) = content[s]
  BY DEF ReadsBack
<1> DEFINE q == ch[s]
           c == content[s]
<1>1. /\ fat \in [Cluster -> Links] /\ Path(fat, q) /\ c \in Seq(Block) /\ Good(ch, s)
  BY ContentLength DEF TInv, Volume, Owned, Chains, Blocks
<1>2. ~Truncating(s)
  BY DEF Truncating
<1>3. /\ Len(c) = dir[s].size /\ Reads(q, c, data, {}, Zero)
      /\ dir[s].first = 0 => Len(c) = 0
  <2>1. CASE \A t \in Task : file[t].slot # s
    <3>1. Plain(dir[s], q, c, data)
      BY <1>1, <2>1 DEF Good
    <3>2. \A t \in Task : ~Holds(pc[t], loc[t], file[t], s)
      BY <2>1 DEF Holds, Owned, Sane, Namer
    <3>3. dir[s].first = 0 => q = <<>>
      <4>1. Starts(q, dir[s].first)
        BY <3>2 DEF Owned, Closed
      <4>2. q # <<>> => q[1] \in Cluster
        BY <1>1, PathShorter
      <4> QED
        BY <4>1, <4>2, Numbers DEF Starts
    <3>4. Len(c) \in Nat
      BY <1>1
    <3> QED
      BY <3>1, <3>3, <3>4 DEF Plain, Reads
  <2>2. ASSUME NEW t \in Task, file[t].slot = s
        PROVE  /\ Len(c) = dir[s].size /\ Reads(q, c, data, {}, Zero)
               /\ dir[s].first = 0 => Len(c) = 0
    BY <1>1, <2>2 DEF Good, Full, Freed, WroteBy, Writing, Current, Reads
  <2> QED
    BY <2>1, <2>2
<1>4. Len(c) # 0 => dir[s].first = q[1]
  BY <1>2, <1>3, NamedStarts
<1>5. ReadFile(dir[s].first, Len(c)) = c
  <2> HIDE DEF q, c
  <2> QED
    BY <1>1, <1>3, <1>4, ReadChain
<1> QED
  BY <1>3, <1>5

\* A file that no call is working on reads back, block by block, what the
\* calls that returned have written, also after failed writes and crashes,
\* until calls race or a truncate is torn.
THEOREM StaysReadBack == Spec => []ReadsBack
<1>1. Init => BInv
  <2> SUFFICES ASSUME Init PROVE BInv
    OBVIOUS
  <2>1. PICK ch : ch = [s \in Slot |-> <<>>]
    OBVIOUS
  <2>2. Exclusive /\ Owned(ch)
    BY <2>1, InitOwned
  <2>3. Contents /\ Blocks(ch) /\ failures \in Nat
    BY DEF Init, Contents, Blocks, Good
  <2> QED
    BY <2>2, <2>3, InitTypes DEF BInv
<1>2. BInv /\ [Next]_vars => BInv'
  BY NextBlocks
<1>3. BInv => ReadsBack
  BY BlocksReadBack DEF BInv, ReadsBack
<1> QED
  BY <1>1, <1>2, <1>3, PTL DEF Spec
=============================================================================
