----------------------------- MODULE VmmProofs -----------------------------
(***************************************************************************)
(* Theorems about Vmm for every number of address spaces, frames, pages    *)
(* and tables, every shape of the page tables and every program.           *)
(***************************************************************************)
EXTENDS Vmm, FiniteSetTheorems, TLAPS

-----------------------------------------------------------------------------
(* The inductive invariant                                                 *)

IoSet == [op : {"none", "read", "exec"}, page : Page \cup {0},
          frame : Frame \cup {NoFrame}, rw : BOOLEAN,
          why : {"none", "user", "kernel", "exec"}, next : Space \cup {None}]
JobSet == [op : {"none", "cow", "demand", "map", "fail", "share"} \cup Halts,
           to : Space \cup {None}, page : Page \cup {0},
           frame : Frame \cup {NoFrame}, rw : BOOLEAN, cow : BOOLEAN,
           why : {"none", "user", "kernel", "exec", "fork"}, todo : SUBSET Page]
Entry == Pte \cup {NoPte}

Types ==
    /\ page_refs \in [Frame -> Int] /\ lost \in [Frame -> Nat] /\ data \in [Frame -> Val]
    /\ root \in [Space -> Frame \cup {NoFrame}]
    /\ tables \in [Space -> [Table -> Frame \cup {NoFrame}]]
    /\ pte \in [Space -> [Page -> Entry]]
    /\ areas \in [Space -> Seq(Block)]
    /\ status \in [Space -> {"free", "loading", "live"}]
    /\ cur \in Space \cup {None} /\ tlb \in [Page -> Entry]
    /\ io \in [Space -> IoSet] /\ job \in JobSet

Counts == \A f \in Frame : page_refs[f] = Holders(f) + lost[f]

\* Frames with one holder: what can be written, tables, and what is not mapped yet.
Sole(f) == page_refs[f] = 1
Soles ==
    /\ \A m \in Space, v \in Page : pte[m][v].rw => Sole(pte[m][v].frame)
    /\ \A m \in Space, t \in Table : tables[m][t] # NoFrame => Sole(tables[m][t])
    /\ \A m \in Space : root[m] # NoFrame => Sole(root[m])
    /\ \A m \in Space : io[m].op = "read" => Sole(io[m].frame)
    /\ job.op = "map" /\ job.rw => Sole(job.frame)

Blank(m) ==
    /\ root[m] = NoFrame /\ tables[m] = [t \in Table |-> NoFrame] /\ pte[m] = Flushed
    /\ areas[m] = <<>> /\ io[m] = NoIo

\* What a space has, by its status.
Spaces ==
    /\ \A m \in Space : status[m] = "free" => Blank(m)
    /\ cur # None => status[cur] = "live"
    /\ \A m \in Space : \A i \in DOMAIN areas[m] :
           areas[m][i] = Null \/ (i \in DOMAIN Blocks /\ areas[m][i] = Blocks[i])

\* What a space waits for.
Waits ==
    /\ \A m \in Space : io[m].op # "none" => status[m] = "live"
    /\ \A m \in Space : io[m].op # "read" => io[m].frame = NoFrame
    /\ \A m \in Space : io[m].op = "none" => io[m] = NoIo
    /\ \A m \in Space : io[m].op = "read" =>
           /\ io[m].page \in Page /\ io[m].frame \in Frame
           /\ io[m].why \in {"user", "kernel"}
           /\ pte[m][io[m].page] = NoPte
    /\ \A m \in Space : io[m].op = "exec" =>
           /\ io[m].next \in Space /\ status[io[m].next] = "loading"
           /\ areas[io[m].next] = <<>>
    /\ \A m, n \in Space : io[m].op = "exec" /\ io[n].op = "exec" => m = n

\* What the handler at work goes by.
Busy == {"cow", "demand", "map", "fail", "share"}
Left(v) == \/ v \in job.todo
           \/ \E i \in DOMAIN areas[cur] : i > Len(areas[job.to]) + 1 /\ v \in areas[cur][i].pages

\* A fork: the pages of the child are those of the blocks done so far.
Forking ==
    /\ job.op \in {"share", "map"}
    /\ cur # None /\ cur # job.to /\ io[cur].op = "none"
    /\ status[job.to] = "loading"
    /\ job.todo \subseteq PagesOf(cur, Len(areas[job.to]) + 1)
    /\ \A v \in Page : Left(v) => pte[job.to][v] = NoPte
    /\ job.op = "map" => /\ job.page \in PagesOf(cur, Len(areas[job.to]) + 1)
                         /\ ~Left(job.page)

Handling ==
    job.op \in Busy =>
        /\ job.to \in Space /\ io[job.to].op = "none"
        /\ \A m \in Space : io[m].op = "exec" => io[m].next # job.to
        /\ job.op \in {"cow", "demand", "map"} => job.page \in Page
        /\ job.op = "map" => job.frame \in Frame /\ pte[job.to][job.page] = NoPte
        /\ job.op = "cow" => job.why \in {"user", "kernel"}
        /\ job.op = "share" => job.why = "fork"
        /\ \/ job.why \in {"user", "kernel"} /\ cur = job.to
           \/ /\ job.why = "exec" /\ cur = None /\ status[job.to] = "loading"
              /\ job.op = "demand" => job.page = StackTop /\ areas[job.to] = Image
           \/ job.why = "fork" /\ Forking

IInv == /\ Types /\ Counts /\ Soles /\ Spaces /\ Waits /\ Handling /\ TlbCoherent
        /\ job.op # "panic_free"

-----------------------------------------------------------------------------
(* Counting                                                                *)

\* Two subsets of S that differ in x at most.
LEMMA CountChange ==
    ASSUME NEW S, IsFiniteSet(S), NEW x \in S, NEW A \in SUBSET S, NEW B \in SUBSET S,
           \A y \in S \ {x} : y \in A <=> y \in B
    PROVE  /\ Cardinality(A) \in Nat /\ Cardinality(B) \in Nat
           /\ Cardinality(B) + (IF x \in A THEN 1 ELSE 0) = Cardinality(A) + (IF x \in B THEN 1 ELSE 0)
<1> DEFINE C == A \ {x}
<1>1. IsFiniteSet(A) /\ IsFiniteSet(B)
  BY FS_Subset
<1>2. Cardinality(A) \in Nat /\ Cardinality(B) \in Nat
  BY <1>1, FS_CardinalityType
<1>3. IsFiniteSet(C) /\ Cardinality(C) \in Nat
  BY <1>1, FS_RemoveElement, FS_CardinalityType
<1>4. Cardinality(A) = IF x \in A THEN Cardinality(C) + 1 ELSE Cardinality(C)
  <2>1. CASE x \in A
    <3>1. A = C \cup {x} /\ x \notin C
      BY <2>1
    <3> QED
      BY <1>3, <2>1, <3>1, FS_AddElement
  <2>2. CASE x \notin A
    <3>1. A = C
      BY <2>2
    <3> QED
      BY <2>2, <3>1
  <2> QED
    BY <2>1, <2>2
<1>5. Cardinality(B) = IF x \in B THEN Cardinality(C) + 1 ELSE Cardinality(C)
  <2>1. CASE x \in B
    <3>1. B = C \cup {x} /\ x \notin C
      BY <2>1
    <3> QED
      BY <1>3, <2>1, <3>1, FS_AddElement
  <2>2. CASE x \notin B
    <3>1. B = C
      BY <2>2
    <3> QED
      BY <2>2, <3>1
  <2> QED
    BY <2>1, <2>2
<1> QED
  BY <1>2, <1>3, <1>4, <1>5

\* At least one, at least two.
LEMMA CountLeast ==
    ASSUME NEW S, IsFiniteSet(S), NEW A \in SUBSET S
    PROVE  /\ Cardinality(A) \in Nat
           /\ A # {} => Cardinality(A) >= 1
           /\ \A x, y \in A : x # y => Cardinality(A) >= 2
<1>1. IsFiniteSet(A) /\ Cardinality(A) \in Nat
  BY FS_Subset, FS_CardinalityType
<1>2. A # {} => Cardinality(A) >= 1
  BY <1>1, FS_EmptySet
<1>3. ASSUME NEW x \in A, NEW y \in A, x # y PROVE Cardinality(A) >= 2
  <2>1. IsFiniteSet({x}) /\ Cardinality({x}) = 1
    BY FS_Singleton
  <2>2. IsFiniteSet({x} \cup {y}) /\ Cardinality({x} \cup {y}) = 2
    <3>1. y \notin {x}
      BY <1>3
    <3>2. IsFiniteSet({x} \cup {y}) /\ Cardinality({x} \cup {y}) = Cardinality({x}) + 1
      BY <2>1, <3>1, FS_AddElement
    <3> QED
      BY <2>1, <3>2
  <2>3. {x} \cup {y} \in SUBSET A
    OBVIOUS
  <2> QED
    BY <1>1, <2>2, <2>3, FS_Subset
<1> QED
  BY <1>1, <1>2, <1>3

\* Everything that is counted is finite.
LEMMA Finite ==
    /\ IsFiniteSet(Space) /\ IsFiniteSet(Space \X Page) /\ IsFiniteSet(Space \X Table)
BY VmmAssumption, FS_Product

\* Every count is a natural number.
LEMMA CountTypes ==
    ASSUME NEW f
    PROVE  /\ Mapped(f) \in Nat /\ Tabled(f) \in Nat /\ Rooted(f) \in Nat
           /\ Reading(f) \in Nat /\ Mapping(f) \in Nat
<1>1. Mapped(f) \in Nat
  <2>1. {x \in Space \X Page : pte[x[1]][x[2]].frame = f} \in SUBSET (Space \X Page)
    OBVIOUS
  <2> QED
    BY <2>1, Finite, CountLeast DEF Mapped
<1>2. Tabled(f) \in Nat
  <2>1. {x \in Space \X Table : tables[x[1]][x[2]] = f} \in SUBSET (Space \X Table)
    OBVIOUS
  <2> QED
    BY <2>1, Finite, CountLeast DEF Tabled
<1>3. Rooted(f) \in Nat
  <2>1. {m \in Space : root[m] = f} \in SUBSET Space
    OBVIOUS
  <2> QED
    BY <2>1, Finite, CountLeast DEF Rooted
<1>4. Reading(f) \in Nat
  <2>1. {m \in Space : io[m].frame = f} \in SUBSET Space
    OBVIOUS
  <2> QED
    BY <2>1, Finite, CountLeast DEF Reading
<1>5. Mapping(f) \in Nat
  BY DEF Mapping
<1> QED
  BY <1>1, <1>2, <1>3, <1>4, <1>5

\* One entry, one table, one root, one wait changes.
Entered(m, v, e) == pte' = [pte EXCEPT ![m][v] = e]
Linked(m, t, e) == tables' = [tables EXCEPT ![m][t] = e]
Planted(m, e) == root' = [root EXCEPT ![m] = e]
Waiting(m, e) == io' = [io EXCEPT ![m] = e]

\* What that does to the number of holders of a frame f.
LEMMA MappedChange ==
    ASSUME NEW m \in Space, NEW v \in Page, NEW e, Types, Entered(m, v, e), NEW f
    PROVE  /\ Mapped(f) \in Nat /\ Mapped(f)' \in Nat
           /\ Mapped(f)' + (IF pte[m][v].frame = f THEN 1 ELSE 0)
                  = Mapped(f) + (IF e.frame = f THEN 1 ELSE 0)
<1> DEFINE A == {x \in Space \X Page : pte[x[1]][x[2]].frame = f}
           B == {x \in Space \X Page : pte'[x[1]][x[2]].frame = f}
<1>1. pte'[m][v] = e
  BY DEF Types, Entered
<1>2. ASSUME NEW x \in Space \X Page, x # <<m, v>> PROVE pte'[x[1]][x[2]] = pte[x[1]][x[2]]
  BY <1>2 DEF Types, Entered
<1>3. A \in SUBSET (Space \X Page) /\ B \in SUBSET (Space \X Page) /\ <<m, v>> \in Space \X Page
  OBVIOUS
<1>4. \A y \in (Space \X Page) \ {<<m, v>>} : y \in A <=> y \in B
  BY <1>2
<1>5. (<<m, v>> \in A <=> pte[m][v].frame = f) /\ (<<m, v>> \in B <=> e.frame = f)
  BY <1>1
<1>6. /\ Cardinality(A) \in Nat /\ Cardinality(B) \in Nat
      /\ Cardinality(B) + (IF <<m, v>> \in A THEN 1 ELSE 0)
             = Cardinality(A) + (IF <<m, v>> \in B THEN 1 ELSE 0)
  <2> DEFINE S == Space \X Page
             y0 == <<m, v>>
  <2>1. IsFiniteSet(S) /\ y0 \in S /\ A \in SUBSET S /\ B \in SUBSET S
        /\ \A y \in S \ {y0} : y \in A <=> y \in B
    BY <1>3, <1>4, Finite
  <2> HIDE DEF A, B, S, y0
  <2>2. /\ Cardinality(A) \in Nat /\ Cardinality(B) \in Nat
        /\ Cardinality(B) + (IF y0 \in A THEN 1 ELSE 0)
               = Cardinality(A) + (IF y0 \in B THEN 1 ELSE 0)
    BY <2>1, CountChange
  <2> QED
    BY <2>2 DEF y0
<1>7. Mapped(f) = Cardinality(A) /\ Mapped(f)' = Cardinality(B)
  BY DEF Mapped
<1> HIDE DEF A, B
<1> QED
  BY <1>5, <1>6, <1>7

LEMMA TabledChange ==
    ASSUME NEW m \in Space, NEW t \in Table, NEW e, Types, Linked(m, t, e), NEW f
    PROVE  /\ Tabled(f) \in Nat /\ Tabled(f)' \in Nat
           /\ Tabled(f)' + (IF tables[m][t] = f THEN 1 ELSE 0)
                  = Tabled(f) + (IF e = f THEN 1 ELSE 0)
<1> DEFINE A == {x \in Space \X Table : tables[x[1]][x[2]] = f}
           B == {x \in Space \X Table : tables'[x[1]][x[2]] = f}
<1>1. tables'[m][t] = e
  BY DEF Types, Linked
<1>2. ASSUME NEW x \in Space \X Table, x # <<m, t>> PROVE tables'[x[1]][x[2]] = tables[x[1]][x[2]]
  BY <1>2 DEF Types, Linked
<1>3. A \in SUBSET (Space \X Table) /\ B \in SUBSET (Space \X Table) /\ <<m, t>> \in Space \X Table
  OBVIOUS
<1>4. \A y \in (Space \X Table) \ {<<m, t>>} : y \in A <=> y \in B
  BY <1>2
<1>5. (<<m, t>> \in A <=> tables[m][t] = f) /\ (<<m, t>> \in B <=> e = f)
  BY <1>1
<1>6. /\ Cardinality(A) \in Nat /\ Cardinality(B) \in Nat
      /\ Cardinality(B) + (IF <<m, t>> \in A THEN 1 ELSE 0)
             = Cardinality(A) + (IF <<m, t>> \in B THEN 1 ELSE 0)
  <2> DEFINE S == Space \X Table
             y0 == <<m, t>>
  <2>1. IsFiniteSet(S) /\ y0 \in S /\ A \in SUBSET S /\ B \in SUBSET S
        /\ \A y \in S \ {y0} : y \in A <=> y \in B
    BY <1>3, <1>4, Finite
  <2> HIDE DEF A, B, S, y0
  <2>2. /\ Cardinality(A) \in Nat /\ Cardinality(B) \in Nat
        /\ Cardinality(B) + (IF y0 \in A THEN 1 ELSE 0)
               = Cardinality(A) + (IF y0 \in B THEN 1 ELSE 0)
    BY <2>1, CountChange
  <2> QED
    BY <2>2 DEF y0
<1>7. Tabled(f) = Cardinality(A) /\ Tabled(f)' = Cardinality(B)
  BY DEF Tabled
<1> HIDE DEF A, B
<1> QED
  BY <1>5, <1>6, <1>7

LEMMA RootedChange ==
    ASSUME NEW m \in Space, NEW e, Types, Planted(m, e), NEW f
    PROVE  /\ Rooted(f) \in Nat /\ Rooted(f)' \in Nat
           /\ Rooted(f)' + (IF root[m] = f THEN 1 ELSE 0) = Rooted(f) + (IF e = f THEN 1 ELSE 0)
<1> DEFINE A == {n \in Space : root[n] = f}
           B == {n \in Space : root'[n] = f}
<1>1. A \in SUBSET Space /\ B \in SUBSET Space
  OBVIOUS
<1>2. (\A y \in Space \ {m} : y \in A <=> y \in B)
      /\ (m \in A <=> root[m] = f) /\ (m \in B <=> e = f)
  BY DEF Types, Planted
<1>3. /\ Cardinality(A) \in Nat /\ Cardinality(B) \in Nat
      /\ Cardinality(B) + (IF m \in A THEN 1 ELSE 0) = Cardinality(A) + (IF m \in B THEN 1 ELSE 0)
  <2> HIDE DEF A, B
  <2> QED
    BY <1>1, <1>2, Finite, CountChange
<1>4. Rooted(f) = Cardinality(A) /\ Rooted(f)' = Cardinality(B)
  BY DEF Rooted
<1> HIDE DEF A, B
<1> QED
  BY <1>2, <1>3, <1>4

LEMMA ReadingChange ==
    ASSUME NEW m \in Space, NEW e, Types, Waiting(m, e), NEW f
    PROVE  /\ Reading(f) \in Nat /\ Reading(f)' \in Nat
           /\ Reading(f)' + (IF io[m].frame = f THEN 1 ELSE 0)
                  = Reading(f) + (IF e.frame = f THEN 1 ELSE 0)
<1> DEFINE A == {n \in Space : io[n].frame = f}
           B == {n \in Space : io'[n].frame = f}
<1>1. A \in SUBSET Space /\ B \in SUBSET Space
  OBVIOUS
<1>2. (\A y \in Space \ {m} : y \in A <=> y \in B)
      /\ (m \in A <=> io[m].frame = f) /\ (m \in B <=> e.frame = f)
  BY DEF Types, Waiting
<1>3. /\ Cardinality(A) \in Nat /\ Cardinality(B) \in Nat
      /\ Cardinality(B) + (IF m \in A THEN 1 ELSE 0) = Cardinality(A) + (IF m \in B THEN 1 ELSE 0)
  <2> HIDE DEF A, B
  <2> QED
    BY <1>1, <1>2, Finite, CountChange
<1>4. Reading(f) = Cardinality(A) /\ Reading(f)' = Cardinality(B)
  BY DEF Reading
<1> HIDE DEF A, B
<1> QED
  BY <1>2, <1>3, <1>4

\* Whoever holds f is counted; two holders of a kind are counted twice.
LEMMA CountHolders ==
    ASSUME NEW f
    PROVE  /\ \A m \in Space, v \in Page : pte[m][v].frame = f => Mapped(f) >= 1
           /\ \A m, n \in Space, v, w \in Page :
                  /\ pte[m][v].frame = f /\ pte[n][w].frame = f /\ <<m, v>> # <<n, w>>
                  => Mapped(f) >= 2
           /\ \A m \in Space, t \in Table : tables[m][t] = f => Tabled(f) >= 1
           /\ \A m, n \in Space, t, u \in Table :
                  /\ tables[m][t] = f /\ tables[n][u] = f /\ <<m, t>> # <<n, u>>
                  => Tabled(f) >= 2
           /\ \A m \in Space : root[m] = f => Rooted(f) >= 1
           /\ \A m, n \in Space : root[m] = f /\ root[n] = f /\ m # n => Rooted(f) >= 2
           /\ \A m \in Space : io[m].frame = f => Reading(f) >= 1
           /\ \A m, n \in Space : io[m].frame = f /\ io[n].frame = f /\ m # n => Reading(f) >= 2
<1>1. /\ \A m \in Space, v \in Page : pte[m][v].frame = f => Mapped(f) >= 1
      /\ \A m, n \in Space, v, w \in Page :
             /\ pte[m][v].frame = f /\ pte[n][w].frame = f /\ <<m, v>> # <<n, w>>
             => Mapped(f) >= 2
  <2> DEFINE S == Space \X Page
             A == {x \in S : pte[x[1]][x[2]].frame = f}
  <2>1. A \in SUBSET S /\ IsFiniteSet(S) /\ Mapped(f) = Cardinality(A)
    BY Finite DEF Mapped
  <2>2. \A m \in Space, v \in Page : pte[m][v].frame = f => <<m, v>> \in A
    OBVIOUS
  <2> HIDE DEF S, A
  <2>3. (A # {} => Mapped(f) >= 1) /\ \A x, y \in A : x # y => Mapped(f) >= 2
    BY <2>1, CountLeast
  <2> QED
    BY <2>2, <2>3
<1>2. /\ \A m \in Space, t \in Table : tables[m][t] = f => Tabled(f) >= 1
      /\ \A m, n \in Space, t, u \in Table :
             /\ tables[m][t] = f /\ tables[n][u] = f /\ <<m, t>> # <<n, u>>
             => Tabled(f) >= 2
  <2> DEFINE S == Space \X Table
             A == {x \in S : tables[x[1]][x[2]] = f}
  <2>1. A \in SUBSET S /\ IsFiniteSet(S) /\ Tabled(f) = Cardinality(A)
    BY Finite DEF Tabled
  <2>2. \A m \in Space, t \in Table : tables[m][t] = f => <<m, t>> \in A
    OBVIOUS
  <2> HIDE DEF S, A
  <2>3. (A # {} => Tabled(f) >= 1) /\ \A x, y \in A : x # y => Tabled(f) >= 2
    BY <2>1, CountLeast
  <2> QED
    BY <2>2, <2>3
<1>3. /\ \A m \in Space : root[m] = f => Rooted(f) >= 1
      /\ \A m, n \in Space : root[m] = f /\ root[n] = f /\ m # n => Rooted(f) >= 2
  <2> DEFINE A == {m \in Space : root[m] = f}
  <2>1. A \in SUBSET Space /\ Rooted(f) = Cardinality(A)
    BY DEF Rooted
  <2>2. \A m \in Space : root[m] = f => m \in A
    OBVIOUS
  <2> HIDE DEF A
  <2>3. (A # {} => Rooted(f) >= 1) /\ \A x, y \in A : x # y => Rooted(f) >= 2
    BY <2>1, Finite, CountLeast
  <2> QED
    BY <2>2, <2>3
<1>4. /\ \A m \in Space : io[m].frame = f => Reading(f) >= 1
      /\ \A m, n \in Space : io[m].frame = f /\ io[n].frame = f /\ m # n => Reading(f) >= 2
  <2> DEFINE A == {m \in Space : io[m].frame = f}
  <2>1. A \in SUBSET Space /\ Reading(f) = Cardinality(A)
    BY DEF Reading
  <2>2. \A m \in Space : io[m].frame = f => m \in A
    OBVIOUS
  <2> HIDE DEF A
  <2>3. (A # {} => Reading(f) >= 1) /\ \A x, y \in A : x # y => Reading(f) >= 2
    BY <2>1, Finite, CountLeast
  <2> QED
    BY <2>2, <2>3
<1> QED
  BY <1>1, <1>2, <1>3, <1>4

\* A frame that is held has a count.
LEMMA HeldCounted ==
    ASSUME Types, Counts, NEW f \in Frame
    PROVE  /\ page_refs[f] \in Nat
           /\ \A m \in Space, v \in Page : pte[m][v].frame = f => page_refs[f] >= 1
           /\ \A m \in Space, t \in Table : tables[m][t] = f => page_refs[f] >= 1
           /\ \A m \in Space : root[m] = f => page_refs[f] >= 1
           /\ \A m \in Space : io[m].frame = f => page_refs[f] >= 1
           /\ job.op = "map" /\ job.frame = f => page_refs[f] >= 1
<1>1. page_refs[f] = Mapped(f) + Tabled(f) + Rooted(f) + Reading(f) + Mapping(f) + lost[f]
  BY DEF Counts, Holders
<1>2. /\ Mapped(f) \in Nat /\ Tabled(f) \in Nat /\ Rooted(f) \in Nat
      /\ Reading(f) \in Nat /\ Mapping(f) \in Nat /\ lost[f] \in Nat
  BY CountTypes DEF Types
<1>3. job.op = "map" /\ job.frame = f => Mapping(f) = 1
  BY DEF Mapping
<1>4. /\ page_refs[f] \in Nat
      /\ Mapped(f) >= 1 => page_refs[f] >= 1
      /\ Tabled(f) >= 1 => page_refs[f] >= 1
      /\ Rooted(f) >= 1 => page_refs[f] >= 1
      /\ Reading(f) >= 1 => page_refs[f] >= 1
      /\ Mapping(f) = 1 => page_refs[f] >= 1
  BY <1>1, <1>2
<1> QED
  BY <1>3, <1>4, CountHolders

\* A frame whose count is 1 has one holder.
LEMMA SoleHolder ==
    ASSUME Types, Counts, NEW f \in Frame, Sole(f)
    PROVE  /\ \A m, n \in Space, v, w \in Page :
                  pte[m][v].frame = f /\ pte[n][w].frame = f => m = n /\ v = w
           /\ \A m, n \in Space, t, u \in Table :
                  tables[m][t] = f /\ tables[n][u] = f => m = n /\ t = u
           /\ \A m, n \in Space : root[m] = f /\ root[n] = f => m = n
           /\ \A m, n \in Space : io[m].frame = f /\ io[n].frame = f => m = n
           /\ \A m, n \in Space, v \in Page :
                  pte[m][v].frame = f => /\ \A t \in Table : tables[n][t] # f
                                         /\ root[n] # f /\ io[n].frame # f
                                         /\ ~(job.op = "map" /\ job.frame = f)
           /\ \A m, n \in Space, t \in Table :
                  tables[m][t] = f => /\ root[n] # f /\ io[n].frame # f
                                      /\ ~(job.op = "map" /\ job.frame = f)
           /\ \A m, n \in Space :
                  root[m] = f => /\ io[n].frame # f
                                 /\ ~(job.op = "map" /\ job.frame = f)
           /\ \A m \in Space : io[m].frame = f => ~(job.op = "map" /\ job.frame = f)
<1>1. Mapped(f) + Tabled(f) + Rooted(f) + Reading(f) + Mapping(f) + lost[f] = 1
  BY DEF Counts, Holders, Sole
<1>2. /\ Mapped(f) \in Nat /\ Tabled(f) \in Nat /\ Rooted(f) \in Nat
      /\ Reading(f) \in Nat /\ Mapping(f) \in Nat /\ lost[f] \in Nat
  BY CountTypes DEF Types
<1>3. job.op = "map" /\ job.frame = f => Mapping(f) = 1
  BY DEF Mapping
<1>4. /\ ~(Mapped(f) >= 2) /\ ~(Tabled(f) >= 2) /\ ~(Rooted(f) >= 2) /\ ~(Reading(f) >= 2)
      /\ Mapped(f) >= 1 => /\ ~(Tabled(f) >= 1) /\ ~(Rooted(f) >= 1)
                           /\ ~(Reading(f) >= 1) /\ Mapping(f) # 1
      /\ Tabled(f) >= 1 => /\ ~(Rooted(f) >= 1) /\ ~(Reading(f) >= 1) /\ Mapping(f) # 1
      /\ Rooted(f) >= 1 => ~(Reading(f) >= 1) /\ Mapping(f) # 1
      /\ Reading(f) >= 1 => Mapping(f) # 1
  BY <1>1, <1>2
<1>5. ASSUME NEW m \in Space, NEW n \in Space, NEW v \in Page, NEW w \in Page,
             pte[m][v].frame = f, pte[n][w].frame = f
      PROVE  m = n /\ v = w
  <2>1. <<m, v>> = <<n, w>>
    BY <1>4, <1>5, CountHolders
  <2> QED
    BY <2>1
<1>6. ASSUME NEW m \in Space, NEW n \in Space, NEW t \in Table, NEW u \in Table,
             tables[m][t] = f, tables[n][u] = f
      PROVE  m = n /\ t = u
  <2>1. <<m, t>> = <<n, u>>
    BY <1>4, <1>6, CountHolders
  <2> QED
    BY <2>1
<1>7. /\ \A m, n \in Space : root[m] = f /\ root[n] = f => m = n
      /\ \A m, n \in Space : io[m].frame = f /\ io[n].frame = f => m = n
  BY <1>4, CountHolders
<1>8. ASSUME NEW m \in Space, NEW n \in Space, NEW v \in Page, pte[m][v].frame = f
      PROVE  /\ \A t \in Table : tables[n][t] # f
             /\ root[n] # f /\ io[n].frame # f
             /\ ~(job.op = "map" /\ job.frame = f)
  BY <1>3, <1>4, <1>8, CountHolders
<1>9. ASSUME NEW m \in Space, NEW n \in Space, NEW t \in Table, tables[m][t] = f
      PROVE  root[n] # f /\ io[n].frame # f /\ ~(job.op = "map" /\ job.frame = f)
  BY <1>3, <1>4, <1>9, CountHolders
<1>10. ASSUME NEW m \in Space, NEW n \in Space, root[m] = f
       PROVE  io[n].frame # f /\ ~(job.op = "map" /\ job.frame = f)
  BY <1>3, <1>4, <1>10, CountHolders
<1>11. \A m \in Space : io[m].frame = f => ~(job.op = "map" /\ job.frame = f)
  BY <1>3, <1>4, CountHolders
<1> QED
  BY <1>5, <1>6, <1>7, <1>8, <1>9, <1>10, <1>11

\* An entry that is present names a frame.
LEMMA EntryFrames ==
    ASSUME Types
    PROVE  /\ NoFrame \notin Frame /\ NoPte.frame = NoFrame /\ ~NoPte.rw /\ ~NoPte.cow
           /\ \A m \in Space, v \in Page :
                  /\ pte[m][v] \in Entry
                  /\ pte[m][v] # NoPte => pte[m][v].frame \in Frame
                  /\ pte[m][v].rw \/ pte[m][v].cow => pte[m][v] # NoPte
<1>1. NoFrame \notin Frame /\ NoPte.frame = NoFrame
  BY DEF NoPte, Frame, NoFrame
<1>2. NoPte.rw = FALSE /\ NoPte.cow = FALSE
  BY DEF NoPte
<1>3. ASSUME NEW m \in Space, NEW v \in Page
      PROVE  pte[m][v] \in Entry /\ (pte[m][v] # NoPte => pte[m][v].frame \in Frame)
  <2>1. pte[m][v] \in Pte \cup {NoPte}
    BY DEF Types, Entry
  <2> QED
    BY <2>1 DEF Entry, Pte
<1> QED
  BY <1>1, <1>2, <1>3

\* So does a table that is present.
LEMMA TableFrame ==
    ASSUME Types
    PROVE  /\ \A m \in Space, t \in Table : tables[m][t] # NoFrame => tables[m][t] \in Frame
           /\ \A m \in Space : root[m] # NoFrame => root[m] \in Frame
BY DEF Types

\* The blocks of a new program are the first of all blocks.
LEMMA ImageBlocks ==
    /\ \A i \in DOMAIN Image : i \in DOMAIN Blocks /\ Blocks[i] = Image[i]
    /\ Blocks \in Seq(Block) /\ Null \in Block /\ Null.pages = {}
    /\ StackTop \in Page /\ Image \in Seq(Block)
<1>1. Image \in Seq(Block) /\ Grow \in Seq(Block)
  BY VmmAssumption
<1>2. Blocks \in Seq(Block) /\ \A i \in DOMAIN Image : i \in DOMAIN Blocks /\ Blocks[i] = Image[i]
  BY <1>1 DEF Blocks
<1>3. Null \in Block /\ Null.pages = {}
  BY DEF Null, Block
<1>4. StackTop \in Page
  <2>1. PICK i \in DOMAIN Image : StackTop \in Image[i].pages
    BY VmmAssumption
  <2>2. Image[i] \in Block
    BY <1>1
  <2> QED
    BY <2>1, <2>2 DEF Block
<1> QED
  BY <1>1, <1>2, <1>3, <1>4

\* Two blocks of the program have no page in common.
LEMMA BlocksApart ==
    ASSUME Spaces, NEW m \in Space, NEW i \in DOMAIN areas[m], NEW j \in DOMAIN areas[m],
           NEW v, v \in areas[m][i].pages, v \in areas[m][j].pages
    PROVE  i = j /\ areas[m][i] # Null /\ i \in DOMAIN Blocks /\ areas[m][i] = Blocks[i]
<1>1. areas[m][i] # Null /\ areas[m][j] # Null
  BY ImageBlocks
<1>2. /\ i \in DOMAIN Blocks /\ areas[m][i] = Blocks[i]
      /\ j \in DOMAIN Blocks /\ areas[m][j] = Blocks[j]
  BY <1>1 DEF Spaces
<1> QED
  BY <1>1, <1>2, VmmAssumption

\* Boot: one space with a top-level table and nothing else.
LEMMA InitIInv == Init => IInv
<1> SUFFICES ASSUME Init PROVE IInv
  OBVIOUS
<1> USE VmmAssumption
<1>1. 1 \in Frame /\ NoFrame \notin Frame /\ Flushed \in [Page -> Entry]
  BY DEF Frame, NoFrame, Flushed, Entry
<1>2. Types
  <2>1. page_refs \in [Frame -> Int] /\ lost \in [Frame -> Nat] /\ data \in [Frame -> Val]
    BY DEF Init
  <2>2. root \in [Space -> Frame \cup {NoFrame}]
        /\ tables \in [Space -> [Table -> Frame \cup {NoFrame}]]
    BY <1>1 DEF Init
  <2>3. pte \in [Space -> [Page -> Entry]] /\ tlb \in [Page -> Entry]
    BY <1>1 DEF Init
  <2>4. areas \in [Space -> Seq(Block)]
    BY ImageBlocks DEF Init
  <2>5. status \in [Space -> {"free", "loading", "live"}] /\ cur \in Space \cup {None}
    BY DEF Init
  <2>6. io \in [Space -> IoSet]
    BY DEF Init, NoIo, IoSet
  <2>7. job \in JobSet
    BY ImageBlocks DEF Init, NoJob, JobSet
  <2> QED
    BY <2>1, <2>2, <2>3, <2>4, <2>5, <2>6, <2>7 DEF Types
<1>3. /\ \A m \in Space, v \in Page : pte[m][v] = NoPte
      /\ \A m \in Space, t \in Table : tables[m][t] = NoFrame
      /\ \A m \in Space : io[m] = NoIo
      /\ job.op = "demand"
  BY DEF Init, Flushed, NoJob
<1>4. Counts
  <2> SUFFICES ASSUME NEW f \in Frame PROVE page_refs[f] = Holders(f) + lost[f]
    BY DEF Counts
  <2>1. f # NoFrame
    BY <1>1
  <2>2. Mapped(f) = 0
    <3>1. ASSUME NEW x \in Space \X Page PROVE pte[x[1]][x[2]].frame # f
      <4>1. pte[x[1]][x[2]] = NoPte
        BY <1>3
      <4> QED
        BY <2>1, <4>1 DEF NoPte
    <3>2. {x \in Space \X Page : pte[x[1]][x[2]].frame = f} = {}
      BY <3>1
    <3> QED
      BY <3>2, FS_EmptySet DEF Mapped
  <2>3. Tabled(f) = 0
    <3>1. {x \in Space \X Table : tables[x[1]][x[2]] = f} = {}
      BY <1>3, <2>1
    <3> QED
      BY <3>1, FS_EmptySet DEF Tabled
  <2>4. Reading(f) = 0
    <3>1. {m \in Space : io[m].frame = f} = {}
      BY <1>3, <2>1 DEF NoIo
    <3> QED
      BY <3>1, FS_EmptySet DEF Reading
  <2>5. Mapping(f) = 0
    BY <1>3 DEF Mapping
  <2>6. Rooted(f) = IF f = 1 THEN 1 ELSE 0
    <3>1. {m \in Space : root[m] = f} = IF f = 1 THEN {First} ELSE {}
      BY <2>1 DEF Init
    <3> QED
      BY <3>1, FS_EmptySet, FS_Singleton DEF Rooted
  <2>7. page_refs[f] = (IF f = 1 THEN 1 ELSE 0) /\ lost[f] = 0
    BY DEF Init
  <2> QED
    BY <2>2, <2>3, <2>4, <2>5, <2>6, <2>7 DEF Holders
<1>5. Soles
  <2>1. \A m \in Space : root[m] # NoFrame => Sole(root[m])
    BY <1>1 DEF Init, Sole
  <2> QED
    BY <1>3, <2>1 DEF Soles, NoPte, NoIo
<1>6. Spaces
  <2>1. ASSUME NEW m \in Space, status[m] = "free" PROVE Blank(m)
    <3>1. m # First
      BY <2>1 DEF Init
    <3> QED
      BY <1>3, <3>1 DEF Init, Blank
  <2>2. cur = None
    BY DEF Init
  <2>3. ASSUME NEW m \in Space, NEW i \in DOMAIN areas[m]
        PROVE  areas[m][i] = Null \/ (i \in DOMAIN Blocks /\ areas[m][i] = Blocks[i])
    <3>1. areas[m] = Image
      BY <2>3 DEF Init
    <3> QED
      BY <2>3, <3>1, ImageBlocks
  <2> QED
    BY <2>1, <2>2, <2>3 DEF Spaces
<1>7. Waits
  <2>1. NoIo.op = "none" /\ NoIo.frame = NoFrame
    BY DEF NoIo
  <2> QED
    BY <1>3, <2>1 DEF Waits
<1>8. Handling
  BY <1>3, ImageBlocks DEF Init, Handling, NoJob, NoIo
<1>9. TlbCoherent
  BY DEF Init, TlbCoherent
<1> QED
  BY <1>2, <1>3, <1>4, <1>5, <1>6, <1>7, <1>8, <1>9 DEF IInv

-----------------------------------------------------------------------------
(* Steps that leave the frames alone                                       *)

LEMMA LightKept ==
    ASSUME Types, Counts, Soles, UNCHANGED <<page_refs, lost, root, tables, pte, io>>,
           job.op # "map" /\ job'.op # "map"
    PROVE  Counts' /\ Soles'
<1>1. Counts'
  <2>1. \A f : Mapping(f) = 0 /\ Mapping(f)' = 0
    BY DEF Mapping
  <2>2. \A f : Mapped(f)' = Mapped(f) /\ Tabled(f)' = Tabled(f)
               /\ Rooted(f)' = Rooted(f) /\ Reading(f)' = Reading(f)
    BY DEF Mapped, Tabled, Rooted, Reading
  <2>3. \A f : Holders(f)' = Holders(f)
    BY <2>1, <2>2 DEF Holders
  <2> QED
    BY <2>3 DEF Counts
<1>2. Soles'
  BY DEF Soles, Sole
<1> QED
  BY <1>1, <1>2

\* The CPU uses a cached translation only for what the tables say (TlbCoherent).
LEMMA AccessStep == ASSUME IInv, NEW m \in Space, Access(m) PROVE IInv'
<1>1. /\ InUser(m) /\ UNCHANGED <<page_refs, spaceVars, cur, io, job, lost>>
      /\ UNCHANGED <<root, tables, pte, areas, status>>
      /\ job.op = "none"
  BY DEF Access, InUser, spaceVars
<1>2. PICK v \in Page, write \in BOOLEAN :
          /\ Translation(m, v) # NoPte
          /\ tlb' = [Flushed EXCEPT ![v] = Translation(m, v)]
          /\ \/ \E x \in Val : data' = [data EXCEPT ![Translation(m, v).frame] = x]
             \/ UNCHANGED data
  BY DEF Access, Allowed
<1>3. cur = m /\ Translation(m, v) = pte[m][v]
  BY <1>1 DEF InUser, Translation, IInv, TlbCoherent
<1>4. Types'
  <2>1. data' \in [Frame -> Val]
    BY <1>2 DEF IInv, Types
  <2>2. tlb' \in [Page -> Entry]
    BY <1>2, <1>3 DEF IInv, Types, Flushed, Entry
  <2> QED
    BY <1>1, <2>1, <2>2 DEF IInv, Types
<1>5. TlbCoherent'
  BY <1>1, <1>2, <1>3 DEF TlbCoherent, Flushed
<1>6. Counts' /\ Soles'
  BY <1>1, LightKept DEF IInv
<1>7. Spaces' /\ Waits' /\ Handling'
  BY <1>1 DEF IInv, Spaces, Blank, Waits, Handling, Busy
<1> QED
  BY <1>1, <1>4, <1>5, <1>6, <1>7 DEF IInv

LEMMA FaultStep == ASSUME IInv, NEW m \in Space, Fault(m) PROVE IInv'
<1>1. /\ InUser(m) /\ UNCHANGED <<page_refs, data, root, tables, pte, areas, status, cur, tlb, io, lost>>
      /\ job.op = "none" /\ cur = m /\ io[m] = NoIo
  BY DEF Fault, InUser, spaceVars
<1>2. PICK v \in Page, write \in BOOLEAN, why \in {"user", "kernel"} :
          job' = [NoJob EXCEPT !.op = IF Translation(m, v) # NoPte THEN "cow" ELSE "demand",
                               !.to = m, !.page = v, !.rw = write, !.why = why]
  BY DEF Fault
<1>3. /\ job'.op \in {"cow", "demand"} /\ job'.to = m /\ job'.page = v /\ job'.why \in {"user", "kernel"}
      /\ job' \in JobSet
  BY <1>2 DEF NoJob, JobSet, NoFrame
<1>4. Types' /\ Spaces' /\ Waits' /\ TlbCoherent'
  BY <1>1, <1>3 DEF IInv, Types, Spaces, Blank, Waits, TlbCoherent
<1>5. Counts' /\ Soles'
  BY <1>1, <1>3, LightKept DEF IInv
<1>6. Handling'
  <2>1. \A n \in Space : io[n].op = "exec" => io[n].next # m
    <3>1. status[m] = "live"
      BY <1>1, VmmAssumption DEF IInv, Spaces
    <3> QED
      BY <3>1 DEF IInv, Waits
  <2> QED
    BY <1>1, <1>3, <2>1 DEF Handling, NoIo
<1> QED
  BY <1>3, <1>4, <1>5, <1>6 DEF IInv

LEMMA SbrkStep == ASSUME IInv, NEW m \in Space, Sbrk(m) PROVE IInv'
<1>1. /\ UNCHANGED <<page_refs, data, root, tables, pte, status, cur, tlb, io, job, lost>>
      /\ job.op = "none" /\ cur = m /\ io[m] = NoIo /\ Len(areas[m]) < Len(Blocks)
      /\ areas' = [areas EXCEPT ![m] = Append(areas[m], Blocks[Len(areas[m]) + 1])]
  BY DEF Sbrk, InUser, spaceVars
<1>2. areas \in [Space -> Seq(Block)] /\ Blocks \in Seq(Block)
  BY ImageBlocks DEF IInv, Types
<1>3. Len(areas[m]) + 1 \in DOMAIN Blocks /\ Blocks[Len(areas[m]) + 1] \in Block
  BY <1>1, <1>2
<1>4. Types'
  BY <1>1, <1>2, <1>3 DEF IInv, Types
<1>5. status[m] = "live"
  BY <1>1, VmmAssumption DEF IInv, Spaces
<1>6. \A n \in Space : n # m => areas'[n] = areas[n]
  BY <1>1, <1>2
<1>7. Spaces'
  <2>1. ASSUME NEW n \in Space, status'[n] = "free" PROVE Blank(n)'
    BY <1>1, <1>5, <1>6, <2>1 DEF IInv, Spaces, Blank
  <2>2. ASSUME NEW n \in Space, NEW i \in DOMAIN areas'[n]
        PROVE  areas'[n][i] = Null \/ (i \in DOMAIN Blocks /\ areas'[n][i] = Blocks[i])
    <3>1. CASE n # m
      BY <1>6, <2>2, <3>1 DEF IInv, Spaces
    <3>2. CASE n = m
      <4>1. areas'[n] = Append(areas[m], Blocks[Len(areas[m]) + 1])
        BY <1>1, <1>2, <3>2
      <4>2. \/ i \in DOMAIN areas[m] /\ areas'[n][i] = areas[m][i]
            \/ i = Len(areas[m]) + 1 /\ areas'[n][i] = Blocks[i]
        BY <1>2, <1>3, <2>2, <4>1
      <4> QED
        BY <1>3, <4>2 DEF IInv, Spaces
    <3> QED
      BY <3>1, <3>2
  <2> QED
    BY <1>1, <2>1, <2>2 DEF IInv, Spaces
<1>8. Waits'
  <2>1. \A n \in Space : io[n].op = "exec" => io[n].next # m
    BY <1>5 DEF IInv, Waits
  <2> QED
    BY <1>1, <1>6, <2>1 DEF IInv, Waits
<1>9. Handling' /\ TlbCoherent'
  BY <1>1 DEF IInv, Handling, Busy, TlbCoherent
<1>10. Counts' /\ Soles'
  BY <1>1, LightKept DEF IInv
<1> QED
  BY <1>1, <1>4, <1>7, <1>8, <1>9, <1>10 DEF IInv

\* Another process on the CPU, and an empty TLB.
LEMMA SwitchStep == ASSUME IInv, NEW m \in Space, Switch(m) PROVE IInv'
<1>1. /\ UNCHANGED <<page_refs, data, root, tables, pte, areas, status, io, job, lost>>
      /\ job.op = "none" /\ status[m] = "live" /\ cur' = m /\ tlb' = Flushed
  BY DEF Switch, spaceVars
<1>2. Types'
  BY <1>1 DEF IInv, Types, Flushed, Entry
<1>3. Spaces' /\ Waits' /\ Handling'
  BY <1>1 DEF IInv, Spaces, Blank, Waits, Handling, Busy
<1>4. TlbCoherent'
  BY <1>1 DEF TlbCoherent, Flushed
<1>5. Counts' /\ Soles'
  BY <1>1, LightKept DEF IInv
<1> QED
  BY <1>1, <1>2, <1>3, <1>4, <1>5 DEF IInv

\* The kernel stops, or a handler gives up, and nothing else happens.
LEMMA OnlyJob ==
    ASSUME IInv, UNCHANGED <<page_refs, data, root, tables, pte, areas, status, cur, tlb, io, lost>>,
           job.op # "map", job' \in JobSet, job'.op # "map", Handling', job'.op # "panic_free"
    PROVE  IInv'
<1>1. Types' /\ Spaces' /\ Waits' /\ TlbCoherent'
  BY DEF IInv, Types, Spaces, Blank, Waits, TlbCoherent
<1>2. Counts' /\ Soles'
  BY LightKept DEF IInv
<1> QED
  BY <1>1, <1>2 DEF IInv

LEMMA HaltStep ==
    ASSUME IInv, UNCHANGED <<page_refs, data, root, tables, pte, areas, status, cur, tlb, io, lost>>,
           job.op # "map", NEW x \in Halts \ {"panic_free"},
           job' = [job EXCEPT !.op = x] \/ job' = [NoJob EXCEPT !.op = x]
    PROVE  IInv'
<1>1. job \in JobSet /\ NoJob \in JobSet
  BY DEF IInv, Types, JobSet, NoJob, NoFrame
<1>2. job' \in JobSet /\ job'.op = x
  <2>1. CASE job' = [job EXCEPT !.op = x]
    BY <1>1, <2>1 DEF JobSet
  <2>2. CASE job' = [NoJob EXCEPT !.op = x]
    BY <1>1, <2>2 DEF JobSet
  <2> QED
    BY <2>1, <2>2
<1>3. x \notin Busy /\ x # "map" /\ x # "panic_free"
  BY DEF Halts, Busy
<1>4. Handling'
  BY <1>2, <1>3 DEF Handling
<1> QED
  BY <1>2, <1>3, <1>4, OnlyJob

LEMMA FailKept ==
    ASSUME IInv, UNCHANGED <<page_refs, data, root, tables, pte, areas, status, cur, tlb, io, lost>>,
           job.op \in {"cow", "demand"}, Fail
    PROVE  IInv'
<1>1. /\ job'.op = "fail" /\ job'.to = job.to /\ job'.why = job.why /\ job' \in JobSet
  BY DEF IInv, Types, JobSet, Fail
<1>2. Handling'
  BY <1>1 DEF IInv, Handling, Busy, Forking
<1> QED
  BY <1>1, <1>2, OnlyJob

-----------------------------------------------------------------------------
(* Steps that change an entry                                              *)

\* The first frame that is free: nobody holds it.
LEMMA FreshFrame ==
    ASSUME Types, Counts, NEW f \in Frame, FirstFree(f)
    PROVE  /\ page_refs[f] = 0
           /\ \A m \in Space, v \in Page : pte[m][v].frame # f
           /\ \A m \in Space, t \in Table : tables[m][t] # f
           /\ \A m \in Space : root[m] # f /\ io[m].frame # f
           /\ job.op = "map" => job.frame # f
<1>1. page_refs[f] = 0
  BY DEF FirstFree
<1> QED
  BY <1>1, HeldCounted

\* One entry of one space changes.
LEMMA EntrySet ==
    ASSUME Types, NEW m \in Space, NEW v \in Page, NEW e \in Entry, Entered(m, v, e)
    PROVE  /\ pte' \in [Space -> [Page -> Entry]] /\ pte'[m][v] = e
           /\ \A n \in Space, w \in Page : ~(n = m /\ w = v) => pte'[n][w] = pte[n][w]
           /\ \A n \in Space : n # m => pte'[n] = pte[n]
<1>1. pte \in [Space -> [Page -> Entry]]
  BY DEF Types
<1>2. pte' = [n \in Space |-> IF n = m THEN [w \in Page |-> IF w = v THEN e ELSE pte[n][w]]
                              ELSE pte[n]]
  BY <1>1 DEF Entered
<1>3. ASSUME NEW n \in Space PROVE pte'[n] \in [Page -> Entry]
  BY <1>1, <1>2
<1> QED
  BY <1>1, <1>2, <1>3

\* What needs a frame of its own still has one, if whatever is new has one.
LEMMA SolesKept ==
    ASSUME IInv, \A g \in Frame : page_refs[g] = 1 => page_refs'[g] = 1,
           \A n \in Space, w \in Page :
               pte'[n][w] = pte[n][w] \/ (pte'[n][w].rw => page_refs'[pte'[n][w].frame] = 1),
           \A n \in Space, t \in Table :
               \/ tables'[n][t] \in {tables[n][t], NoFrame}
               \/ page_refs'[tables'[n][t]] = 1,
           \A n \in Space : root'[n] \in {root[n], NoFrame} \/ page_refs'[root'[n]] = 1,
           \A n \in Space : \/ io'[n] = io[n] \/ io'[n].op # "read"
                            \/ page_refs'[io'[n].frame] = 1,
           job'.op = "map" /\ job'.rw => page_refs'[job'.frame] = 1
    PROVE  Soles'
<1> USE DEF Sole
<1>1. Types /\ Soles /\ Waits
  BY DEF IInv
<1>2. ASSUME NEW n \in Space, NEW w \in Page, pte'[n][w].rw
      PROVE  page_refs'[pte'[n][w].frame] = 1
  <2>1. CASE pte'[n][w] = pte[n][w]
    BY <1>1, <1>2, <2>1, EntryFrames DEF Soles
  <2> QED
    BY <1>2, <2>1
<1>3. ASSUME NEW n \in Space, NEW t \in Table, tables'[n][t] # NoFrame
      PROVE  page_refs'[tables'[n][t]] = 1
  <2>1. tables[n][t] \in Frame \cup {NoFrame}
    BY <1>1 DEF Types
  <2> QED
    BY <1>1, <1>3, <2>1 DEF Soles
<1>4. ASSUME NEW n \in Space, root'[n] # NoFrame PROVE page_refs'[root'[n]] = 1
  <2>1. root[n] \in Frame \cup {NoFrame}
    BY <1>1 DEF Types
  <2> QED
    BY <1>1, <1>4, <2>1 DEF Soles
<1>5. ASSUME NEW n \in Space, io'[n].op = "read" PROVE page_refs'[io'[n].frame] = 1
  BY <1>1, <1>5 DEF Soles, Waits
<1> QED
  BY <1>2, <1>3, <1>4, <1>5 DEF Soles

\* Copying takes a fresh frame and one reference from the old one; a sole holder keeps its frame.
LEMMA CowStepIInv == ASSUME IInv, CowStep PROVE IInv'
<1> DEFINE m == job.to
           v == job.page
           old == pte[m][v].frame
<1>1. job.op = "cow" /\ UNCHANGED <<root, tables, areas, status, cur, io, lost>>
  BY DEF CowStep
<1>2. m \in Space /\ v \in Page /\ cur = m /\ io[m].op = "none" /\ job.op \in Busy
  BY <1>1 DEF IInv, Handling, Busy, Forking
<1>3. CASE Fail /\ UNCHANGED <<page_refs, data, pte, tlb>>
  BY <1>1, <1>3, FailKept
<1>4. ASSUME pte[m][v].cow, NEW f \in Frame, pte' = [pte EXCEPT ![m][v] = [frame |-> f, rw |-> TRUE, cow |-> FALSE]],
             tlb' = Invlpg(v), job' = NoJob,
             \A g \in Frame : page_refs'[g] + (IF old = g THEN 1 ELSE 0)
                              = page_refs[g] + (IF f = g THEN 1 ELSE 0),
             page_refs' \in [Frame -> Int], data' \in [Frame -> Val],
             page_refs'[f] = 1, \A g \in Frame : page_refs[g] = 1 => page_refs'[g] = 1
      PROVE  IInv'
  <2> DEFINE e == [frame |-> f, rw |-> TRUE, cow |-> FALSE]
  <2>1. e \in Entry /\ e.rw /\ e.frame = f
    BY DEF Entry, Pte
  <2> HIDE DEF e
  <2>2. Entered(m, v, e)
    BY <1>4 DEF e, Entered
  <2>3. Types'
    <3>1. pte' \in [Space -> [Page -> Entry]]
      BY <1>2, <2>1, <2>2, EntrySet DEF IInv
    <3>2. tlb' \in [Page -> Entry]
      BY <1>2, <1>4 DEF IInv, Types, Invlpg, Entry
    <3>3. NoJob \in JobSet
      BY DEF NoJob, JobSet, NoFrame
    <3> QED
      BY <1>1, <1>4, <3>1, <3>2, <3>3 DEF IInv, Types
  <2>4. Counts'
    <3> SUFFICES ASSUME NEW g \in Frame PROVE page_refs'[g] = Holders(g)' + lost'[g]
      BY DEF Counts
    <3>1. /\ Mapped(g) \in Nat /\ Mapped(g)' \in Nat
          /\ Mapped(g)' + (IF old = g THEN 1 ELSE 0) = Mapped(g) + (IF f = g THEN 1 ELSE 0)
      <4>1. Types
        BY DEF IInv
      <4>2. /\ Mapped(g) \in Nat /\ Mapped(g)' \in Nat
            /\ Mapped(g)' + (IF old = g THEN 1 ELSE 0) = Mapped(g) + (IF e.frame = g THEN 1 ELSE 0)
        BY <1>2, <2>2, <4>1, MappedChange
      <4> QED
        BY <2>1, <4>2
    <3>2. Tabled(g)' = Tabled(g) /\ Rooted(g)' = Rooted(g) /\ Reading(g)' = Reading(g)
      BY <1>1 DEF Tabled, Rooted, Reading
    <3>3. Mapping(g) = 0 /\ Mapping(g)' = 0
      BY <1>1, <1>4 DEF Mapping, NoJob
    <3>4. page_refs[g] = Mapped(g) + Tabled(g) + Rooted(g) + Reading(g) + 0 + lost[g]
      BY <3>3 DEF IInv, Counts, Holders
    <3>5. Tabled(g) \in Nat /\ Rooted(g) \in Nat /\ Reading(g) \in Nat /\ lost[g] \in Nat
          /\ page_refs'[g] \in Int
      BY <1>4, CountTypes DEF IInv, Types
    <3>6. page_refs'[g] + (IF old = g THEN 1 ELSE 0) = page_refs[g] + (IF f = g THEN 1 ELSE 0)
      BY <1>4
    <3>7. page_refs'[g] = Mapped(g)' + Tabled(g) + Rooted(g) + Reading(g) + 0 + lost[g]
      BY <3>1, <3>4, <3>5, <3>6
    <3> QED
      BY <1>1, <3>2, <3>3, <3>7 DEF Holders
  <2>5. Soles'
    <3>1. \A n \in Space, w \in Page :
              pte'[n][w] = pte[n][w] \/ (pte'[n][w].rw => page_refs'[pte'[n][w].frame] = 1)
      BY <1>2, <1>4, <2>1, <2>2, EntrySet DEF IInv
    <3>2. job'.op # "map"
      BY <1>4 DEF NoJob
    <3> QED
      BY <1>1, <1>4, <3>1, <3>2, SolesKept
  <2>6. status[m] = "live"
    BY <1>2, VmmAssumption DEF IInv, Spaces
  <2>7. \A n \in Space : n # m => pte'[n] = pte[n]
    BY <1>2, <2>1, <2>2, EntrySet DEF IInv
  <2>8. Spaces' /\ Waits'
    BY <1>1, <1>2, <2>6, <2>7 DEF IInv, Spaces, Blank, Waits
  <2>9. Handling'
    BY <1>4 DEF Handling, Busy, NoJob
  <2>10. TlbCoherent'
    <3>1. ASSUME NEW w \in Page, tlb'[w] # NoPte PROVE tlb'[w] = pte'[m][w]
      <4>1. w # v /\ tlb'[w] = tlb[w]
        BY <1>2, <1>4, <3>1 DEF Invlpg, IInv, Types
      <4>2. pte'[m][w] = pte[m][w]
        BY <1>2, <2>1, <2>2, <4>1, EntrySet DEF IInv
      <4> QED
        BY <1>2, <3>1, <4>1, <4>2, VmmAssumption DEF IInv, TlbCoherent
    <3> QED
      BY <1>1, <1>2, <3>1 DEF TlbCoherent
  <2> QED
    BY <1>4, <2>3, <2>4, <2>5, <2>8, <2>9, <2>10 DEF IInv, NoJob
<1>5. ASSUME pte[m][v].cow
      PROVE  old \in Frame /\ page_refs[old] >= 1 /\ page_refs[old] \in Nat
  <2>1. old \in Frame
    BY <1>2, <1>5, EntryFrames DEF IInv
  <2> QED
    BY <1>2, <2>1, HeldCounted DEF IInv
<1>6. ASSUME pte[m][v].cow, Shared(old), NEW f \in Frame, FirstFree(f),
             page_refs' = [page_refs EXCEPT ![f] = 1, ![old] = @ - 1],
             data' = [data EXCEPT ![f] = data[old]],
             pte' = [pte EXCEPT ![m][v] = [frame |-> f, rw |-> TRUE, cow |-> FALSE]],
             tlb' = Invlpg(v), job' = NoJob
      PROVE  IInv'
  <2>1. page_refs[f] = 0 /\ page_refs[old] > 1 /\ f # old /\ old \in Frame
    BY <1>2, <1>5, <1>6, FreshFrame DEF IInv, Shared
  <2>2. page_refs \in [Frame -> Int] /\ data \in [Frame -> Val]
    BY DEF IInv, Types
  <2>3. /\ page_refs' \in [Frame -> Int] /\ page_refs'[f] = 1 /\ page_refs'[old] = page_refs[old] - 1
        /\ \A g \in Frame : g # f /\ g # old => page_refs'[g] = page_refs[g]
    BY SMTT(30), <1>6, <2>1, <2>2
  <2>4. data' \in [Frame -> Val]
    BY <1>6, <2>1, <2>2
  <2>5. \A g \in Frame : page_refs'[g] + (IF old = g THEN 1 ELSE 0)
                         = page_refs[g] + (IF f = g THEN 1 ELSE 0)
    BY <2>1, <2>2, <2>3
  <2>6. page_refs'[f] = 1 /\ \A g \in Frame : page_refs[g] = 1 => page_refs'[g] = 1
    BY <2>1, <2>3
  <2> QED
    BY <1>4, <1>6, <2>3, <2>4, <2>5, <2>6
<1>7. ASSUME pte[m][v].cow, ~Shared(old),
             UNCHANGED <<page_refs, data>>,
             pte' = [pte EXCEPT ![m][v] = [frame |-> old, rw |-> TRUE, cow |-> FALSE]],
             tlb' = Invlpg(v), job' = NoJob
      PROVE  IInv'
  <2>1. Sole(old) /\ old \in Frame
    BY <1>5, <1>7 DEF Shared, Sole
  <2>2. page_refs' \in [Frame -> Int] /\ data' \in [Frame -> Val]
        /\ page_refs'[old] = 1 /\ \A g \in Frame : page_refs[g] = 1 => page_refs'[g] = 1
    BY <1>7, <2>1 DEF IInv, Types, Sole
  <2>3. \A g \in Frame : page_refs'[g] + (IF old = g THEN 1 ELSE 0)
                         = page_refs[g] + (IF old = g THEN 1 ELSE 0)
    BY <1>7
  <2> QED
    BY <1>4, <1>7, <2>1, <2>2, <2>3
<1> QED
  BY <1>3, <1>6, <1>7 DEF CowStep
-----------------------------------------------------------------------------
(* Steps that take a frame or give one back                                *)

\* pmem_alloc_zero_page: one more reference, to a frame that nobody holds.
LEMMA Taken ==
    ASSUME Types, NEW f \in Frame, FirstFree(f),
           page_refs' = [page_refs EXCEPT ![f] = 1], data' = [data EXCEPT ![f] = Zero]
    PROVE  /\ page_refs' \in [Frame -> Int] /\ data' \in [Frame -> Val] /\ page_refs'[f] = 1
           /\ \A g \in Frame : page_refs'[g] = page_refs[g] + (IF f = g THEN 1 ELSE 0)
           /\ \A g \in Frame : page_refs[g] = 1 => page_refs'[g] = 1
<1>1. page_refs \in [Frame -> Int] /\ data \in [Frame -> Val] /\ Zero \in Val /\ page_refs[f] = 0
  BY VmmAssumption DEF Types, FirstFree
<1> QED
  BY <1>1

\* pmem_free_block: one reference less.
LEMMA Returned ==
    ASSUME Types, NEW f \in Frame, page_refs' = Dropped(f), Leftover
    PROVE  /\ page_refs' \in [Frame -> Int] /\ data' \in [Frame -> Val]
           /\ \A g \in Frame : page_refs'[g] + (IF f = g THEN 1 ELSE 0) = page_refs[g]
<1>1. page_refs \in [Frame -> Int] /\ data \in [Frame -> Val] /\ Stale \in Val
  BY VmmAssumption DEF Types
<1>2. page_refs' = [page_refs EXCEPT ![f] = page_refs[f] - 1]
  BY DEF Dropped
<1>3. data' \in [Frame -> Val]
  BY <1>1 DEF Leftover
<1>4. page_refs' \in [Frame -> Int]
  BY <1>1, <1>2
<1>5. ASSUME NEW g \in Frame PROVE page_refs'[g] + (IF f = g THEN 1 ELSE 0) = page_refs[g]
  <2>1. page_refs[g] \in Int /\ page_refs'[g] = IF f = g THEN page_refs[g] - 1 ELSE page_refs[g]
    BY <1>1, <1>2
  <2> QED
    BY <2>1
<1> QED
  BY <1>3, <1>4, <1>5

\* What still needs a frame of its own needed it before.
Stays(f) == page_refs[f] = 1 => page_refs'[f] = 1
LEMMA SolesReleased ==
    ASSUME Soles,
           \A n \in Space, w \in Page :
               pte'[n][w].rw => pte'[n][w] = pte[n][w] /\ Stays(pte[n][w].frame),
           \A n \in Space, t \in Table :
               tables'[n][t] # NoFrame => tables'[n][t] = tables[n][t] /\ Stays(tables[n][t]),
           \A n \in Space : root'[n] # NoFrame => root'[n] = root[n] /\ Stays(root[n]),
           \A n \in Space : io'[n].op = "read" => io'[n] = io[n] /\ Stays(io[n].frame),
           ~(job'.op = "map" /\ job'.rw)
    PROVE  Soles'
BY DEF Soles, Sole, Stays

\* The new frame is held by the handler, or by the read that it waits for.
LEMMA DemandStepIInv == ASSUME IInv, DemandStep PROVE IInv'
<1> DEFINE m == job.to
           v == job.page
<1>1. job.op = "demand" /\ UNCHANGED <<root, tables, pte, areas, status, tlb, lost>>
  BY DEF DemandStep, spaceVars
<1>2. /\ m \in Space /\ v \in Page /\ io[m].op = "none" /\ job.op \in Busy
      /\ \A n \in Space : io[n].op = "exec" => io[n].next # m
      /\ \/ job.why \in {"user", "kernel"} /\ cur = m
         \/ /\ job.why = "exec" /\ cur = None /\ status[m] = "loading"
            /\ v = StackTop /\ areas[m] = Image
  BY <1>1 DEF IInv, Handling, Busy, Forking
<1>3. CASE Fail /\ UNCHANGED <<page_refs, data, cur, io>>
  BY <1>1, <1>3, FailKept
<1>4. CASE job' = [job EXCEPT !.op = "wild"] /\ UNCHANGED <<page_refs, data, cur, io>>
  BY <1>1, <1>4, HaltStep DEF Halts
<1>5. ASSUME NEW i \in Hits(m, v), NEW f \in Frame, areas[m][i] # Null, pte[m][v] = NoPte, FirstFree(f),
             page_refs' = [page_refs EXCEPT ![f] = 1], data' = [data EXCEPT ![f] = Zero],
             \/ /\ areas[m][i].file
                /\ io' = [io EXCEPT ![m] = [NoIo EXCEPT !.op = "read",
                                   !.page = v, !.frame = f,
                                   !.rw = areas[m][i].write, !.why = job.why]]
                /\ job' = NoJob /\ cur' = None
             \/ /\ ~areas[m][i].file
                /\ job' = [job EXCEPT !.op = "map", !.frame = f, !.rw = areas[m][i].write]
                /\ UNCHANGED <<cur, io>>
      PROVE  IInv'
  <2>1. /\ page_refs' \in [Frame -> Int] /\ data' \in [Frame -> Val] /\ page_refs'[f] = 1
        /\ \A g \in Frame : page_refs'[g] = page_refs[g] + (IF f = g THEN 1 ELSE 0)
        /\ \A g \in Frame : page_refs[g] = 1 => page_refs'[g] = 1
    BY <1>5, Taken DEF IInv
  <2>2. /\ i \in DOMAIN areas[m] /\ v \in areas[m][i].pages /\ areas[m][i] \in Block
        /\ areas[m][i].write \in BOOLEAN
    <3>1. i \in DOMAIN areas[m] /\ v \in areas[m][i].pages /\ areas[m] \in Seq(Block)
      BY <1>2, <1>5 DEF Hits, IInv, Types
    <3>2. areas[m][i] \in Block
      BY <3>1
    <3> QED
      BY <3>1, <3>2 DEF Block
  <2>3. /\ \A g : Mapped(g)' = Mapped(g) /\ Tabled(g)' = Tabled(g) /\ Rooted(g)' = Rooted(g)
        /\ \A g : Mapping(g) = 0
    BY <1>1 DEF Mapped, Tabled, Rooted, Mapping
  <2>4. \A g \in Frame : page_refs[g] = Mapped(g) + Tabled(g) + Rooted(g) + Reading(g) + 0 + lost[g]
    BY <2>3 DEF IInv, Counts, Holders
  <2>5. \A g \in Frame : /\ Mapped(g) \in Nat /\ Tabled(g) \in Nat /\ Rooted(g) \in Nat
                         /\ Reading(g) \in Nat /\ lost[g] \in Nat
    BY CountTypes DEF IInv, Types
  <2>6. CASE areas[m][i].file
    <3> DEFINE e == [NoIo EXCEPT !.op = "read", !.page = v, !.frame = f,
                                 !.rw = areas[m][i].write, !.why = job.why]
    <3>1. Waiting(m, e) /\ job' = NoJob /\ cur' = None
      BY <1>5, <2>6 DEF Waiting
    <3>2. job.why \in {"user", "kernel"} /\ cur = m
      <4>1. ASSUME areas[m] = Image, v = StackTop PROVE FALSE
        <5>1. PICK k \in DOMAIN Image : StackTop \in Image[k].pages /\ ~Image[k].file
          BY VmmAssumption
        <5>2. i = k
          BY <1>2, <2>2, <4>1, <5>1, BlocksApart DEF IInv
        <5> QED
          BY <2>6, <4>1, <5>1, <5>2
      <4> QED
        BY <1>2, <4>1
    <3>3. /\ e.op = "read" /\ e.page = v /\ e.frame = f /\ e.why = job.why /\ e \in IoSet
      BY <1>2, <2>2, <3>2 DEF NoIo, IoSet
    <3> HIDE DEF e
    <3>4. /\ io' \in [Space -> IoSet] /\ io'[m] = e
          /\ \A n \in Space : n # m => io'[n] = io[n]
      BY <1>2, <3>1, <3>3 DEF IInv, Types, Waiting
    <3>5. NoJob \in JobSet /\ NoJob.op = "none"
      BY DEF NoJob, JobSet, NoFrame
    <3>6. Types'
      BY <1>1, <2>1, <3>1, <3>4, <3>5 DEF IInv, Types
    <3>7. status[m] = "live"
      BY <1>2, <3>2, VmmAssumption DEF IInv, Spaces
    <3>8. Counts'
      <4> SUFFICES ASSUME NEW g \in Frame PROVE page_refs'[g] = Holders(g)' + lost'[g]
        BY DEF Counts
      <4>1. io[m].frame # g
        BY <1>2, EntryFrames DEF IInv, Waits
      <4>2. /\ Reading(g)' \in Nat
            /\ Reading(g)' + 0 = Reading(g) + (IF f = g THEN 1 ELSE 0)
        <5>1. Types
          BY DEF IInv
        <5>2. /\ Reading(g)' \in Nat
              /\ Reading(g)' + (IF io[m].frame = g THEN 1 ELSE 0)
                 = Reading(g) + (IF e.frame = g THEN 1 ELSE 0)
          BY <1>2, <3>1, <5>1, ReadingChange
        <5> QED
          BY <3>3, <4>1, <5>2
      <4>3. Mapping(g)' = 0
        BY <3>1, <3>5 DEF Mapping
      <4>4. page_refs'[g] = Mapped(g) + Tabled(g) + Rooted(g) + Reading(g)' + 0 + lost[g]
        BY <2>1, <2>4, <2>5, <4>2
      <4> QED
        BY <1>1, <2>3, <4>3, <4>4 DEF Holders
    <3>9. Soles'
      BY <1>1, <2>1, <3>1, <3>3, <3>4, <3>5, SolesKept
    <3>10. Spaces'
      BY <1>1, <3>1, <3>4, <3>7 DEF IInv, Spaces, Blank
    <3>11. Waits'
      BY <1>1, <1>2, <1>5, <3>2, <3>3, <3>4, <3>7 DEF IInv, Waits
    <3>12. Handling' /\ TlbCoherent'
      BY <3>1, <3>5 DEF Handling, Busy, TlbCoherent
    <3> QED
      BY <3>1, <3>5, <3>6, <3>8, <3>9, <3>10, <3>11, <3>12 DEF IInv
  <2>7. CASE ~areas[m][i].file
    <3>1. /\ job' = [job EXCEPT !.op = "map", !.frame = f, !.rw = areas[m][i].write]
          /\ UNCHANGED <<cur, io>>
      BY <1>5, <2>7
    <3>2. /\ job'.op = "map" /\ job'.to = m /\ job'.page = v /\ job'.frame = f
          /\ job'.why = job.why /\ job' \in JobSet
      BY <2>2, <3>1 DEF IInv, Types, JobSet
    <3>3. Types'
      BY <1>1, <2>1, <3>1, <3>2 DEF IInv, Types
    <3>4. Counts'
      <4> SUFFICES ASSUME NEW g \in Frame PROVE page_refs'[g] = Holders(g)' + lost'[g]
        BY DEF Counts
      <4>1. Reading(g)' = Reading(g) /\ Mapping(g)' = IF f = g THEN 1 ELSE 0
        BY <3>1, <3>2 DEF Reading, Mapping
      <4>2. page_refs'[g] = Mapped(g) + Tabled(g) + Rooted(g) + Reading(g) + Mapping(g)' + lost[g]
        BY <2>1, <2>4, <2>5, <4>1
      <4> QED
        BY <1>1, <2>3, <4>1, <4>2 DEF Holders
    <3>5. Soles'
      BY <1>1, <2>1, <3>1, <3>2, SolesKept
    <3>6. Spaces' /\ Waits' /\ TlbCoherent'
      BY <1>1, <3>1 DEF IInv, Spaces, Blank, Waits, TlbCoherent
    <3>7. Handling'
      BY <1>1, <1>2, <1>5, <3>1, <3>2 DEF Handling
    <3> QED
      BY <3>2, <3>3, <3>4, <3>5, <3>6, <3>7 DEF IInv
  <2> QED
    BY <2>6, <2>7
<1> QED
  BY <1>3, <1>4, <1>5 DEF DemandStep

\* The read hands its frame to the mapping, or frees it.
LEMMA ReadDoneStep == ASSUME IInv, NEW m \in Space, ReadDone(m) PROVE IInv'
<1> DEFINE f == io[m].frame
           j == [NoJob EXCEPT !.to = m, !.page = io[m].page, !.why = io[m].why]
<1>1. /\ cur = m /\ job.op = "none" /\ io[m].op = "read"
      /\ io' = [io EXCEPT ![m] = NoIo] /\ UNCHANGED <<root, tables, pte, areas, status, cur, tlb, lost>>
  BY DEF ReadDone, spaceVars
<1>2. \/ /\ data' = [data EXCEPT ![f] = FileVal] /\ UNCHANGED page_refs
         /\ job' = [j EXCEPT !.op = "map", !.frame = f, !.rw = io[m].rw]
      \/ page_refs' = Dropped(f) /\ Leftover /\ job' = [j EXCEPT !.op = "fail"]
  BY DEF ReadDone
<1>3. /\ Types /\ Counts /\ Soles /\ Spaces /\ Waits
      /\ io[m] \in IoSet /\ NoIo \in IoSet /\ NoIo.op = "none" /\ NoIo.frame = NoFrame
  BY DEF IInv, Types, NoIo, IoSet
<1>4. /\ io[m].page \in Page /\ f \in Frame /\ io[m].why \in {"user", "kernel"}
      /\ pte[m][io[m].page] = NoPte /\ page_refs[f] = 1 /\ io[m].rw \in BOOLEAN
  BY <1>1, <1>3 DEF Waits, Soles, Sole, IoSet
<1>5. Waiting(m, NoIo) /\ io' \in [Space -> IoSet] /\ io'[m] = NoIo
      /\ \A n \in Space : n # m => io'[n] = io[n]
  BY <1>1, <1>3 DEF Waiting, Types
<1>6. status[m] = "live"
  BY <1>1, <1>3 DEF Waits
<1>7. Spaces' /\ Waits' /\ TlbCoherent'
  <2>1. Spaces'
    BY <1>1, <1>3, <1>5, <1>6 DEF Spaces, Blank
  <2>2. Waits'
    BY <1>1, <1>3, <1>5 DEF Waits
  <2>3. TlbCoherent'
    BY <1>1 DEF IInv, TlbCoherent
  <2> QED
    BY <2>1, <2>2, <2>3
<1>8. \A n \in Space : io'[n].op = "exec" => io'[n].next # m
  BY <1>1, <1>3, <1>5, <1>6 DEF Waits
<1>9. ASSUME NEW g \in Frame
      PROVE  /\ page_refs[g] = Mapped(g)' + Tabled(g)' + Rooted(g)' + Reading(g)
                               + 0 + lost'[g]
             /\ Reading(g)' + (IF f = g THEN 1 ELSE 0) = Reading(g)
             /\ Mapped(g)' \in Nat /\ Tabled(g)' \in Nat /\ Rooted(g)' \in Nat
             /\ Reading(g) \in Nat /\ Reading(g)' \in Nat /\ lost'[g] \in Nat
  <2>1. Mapped(g)' = Mapped(g) /\ Tabled(g)' = Tabled(g) /\ Rooted(g)' = Rooted(g) /\ Mapping(g) = 0
    BY <1>1 DEF Mapped, Tabled, Rooted, Mapping
  <2>2. /\ Reading(g) \in Nat /\ Reading(g)' \in Nat
        /\ Reading(g)' + (IF io[m].frame = g THEN 1 ELSE 0)
               = Reading(g) + (IF NoIo.frame = g THEN 1 ELSE 0)
    BY <1>3, <1>5, ReadingChange
  <2>3. NoIo.frame # g
    BY <1>3, EntryFrames
  <2>4. page_refs[g] = Mapped(g) + Tabled(g) + Rooted(g) + Reading(g) + Mapping(g) + lost[g]
    BY <1>3 DEF Counts, Holders
  <2>5. Mapped(g) \in Nat /\ Tabled(g) \in Nat /\ Rooted(g) \in Nat /\ lost[g] \in Nat
    BY <1>3, CountTypes DEF Types
  <2> QED
    BY <1>1, <2>1, <2>2, <2>3, <2>4, <2>5
<1>10. CASE /\ data' = [data EXCEPT ![f] = FileVal] /\ UNCHANGED page_refs
            /\ job' = [j EXCEPT !.op = "map", !.frame = f, !.rw = io[m].rw]
  <2>1. /\ job'.op = "map" /\ job'.to = m /\ job'.page = io[m].page /\ job'.frame = f
        /\ job'.why = io[m].why /\ job' \in JobSet
    BY <1>4, <1>10 DEF NoJob, JobSet
  <2>2. Types'
    <3>1. data' \in [Frame -> Val]
      BY <1>3, <1>4, <1>10, VmmAssumption DEF Types
    <3> QED
      BY <1>1, <1>3, <1>5, <1>10, <2>1, <3>1 DEF Types
  <2>3. Counts'
    <3> SUFFICES ASSUME NEW g \in Frame PROVE page_refs'[g] = Holders(g)' + lost'[g]
      BY DEF Counts
    <3>1. Mapping(g)' = IF f = g THEN 1 ELSE 0
      BY <2>1 DEF Mapping
    <3>2. page_refs[g] = Mapped(g)' + Tabled(g)' + Rooted(g)' + Reading(g)' + Mapping(g)' + lost'[g]
      BY <1>9, <3>1
    <3> QED
      BY <1>10, <3>2 DEF Holders
  <2>4. Soles'
    BY <1>1, <1>3, <1>4, <1>5, <1>10, <2>1, SolesKept
  <2>5. Handling'
    BY <1>1, <1>3, <1>4, <1>5, <1>8, <2>1 DEF Handling
  <2> QED
    BY <1>7, <2>1, <2>2, <2>3, <2>4, <2>5 DEF IInv
<1>11. CASE page_refs' = Dropped(f) /\ Leftover /\ job' = [j EXCEPT !.op = "fail"]
  <2>1. /\ job'.op = "fail" /\ job'.to = m /\ job'.why = io[m].why /\ job' \in JobSet
    BY <1>4, <1>11 DEF NoJob, JobSet
  <2>2. /\ page_refs' \in [Frame -> Int] /\ data' \in [Frame -> Val]
        /\ \A g \in Frame : page_refs'[g] + (IF f = g THEN 1 ELSE 0) = page_refs[g]
    BY <1>3, <1>4, <1>11, Returned
  <2>3. Types'
    BY <1>1, <1>3, <1>5, <2>1, <2>2 DEF Types
  <2>4. Counts'
    <3> SUFFICES ASSUME NEW g \in Frame PROVE page_refs'[g] = Holders(g)' + lost'[g]
      BY DEF Counts
    <3>1. Mapping(g)' = 0
      BY <2>1 DEF Mapping
    <3>2. page_refs'[g] = Mapped(g)' + Tabled(g)' + Rooted(g)' + Reading(g)' + Mapping(g)' + lost'[g]
      <4>1. page_refs'[g] \in Int /\ page_refs'[g] + (IF f = g THEN 1 ELSE 0) = page_refs[g]
        BY <2>2
      <4> QED
        BY <1>9, <3>1, <4>1
    <3> QED
      BY <3>2 DEF Holders
  <2>5. Soles'
    <3>1. \A g \in Frame : g # f => Stays(g)
      <4> SUFFICES ASSUME NEW g \in Frame, g # f PROVE Stays(g)
        OBVIOUS
      <4>1. page_refs'[g] \in Int /\ page_refs'[g] + 0 = page_refs[g]
        BY <2>2
      <4> QED
        BY <4>1 DEF Stays
    <3>2. /\ \A n \in Space, w \in Page : pte[n][w].frame # f
          /\ \A n \in Space, t \in Table : tables[n][t] # f
          /\ \A n \in Space : root[n] # f /\ (io[n].frame = f => n = m)
      BY <1>3, <1>4, SoleHolder DEF Sole
    <3>3. ASSUME NEW n \in Space, NEW w \in Page, pte'[n][w].rw
          PROVE  pte'[n][w] = pte[n][w] /\ Stays(pte[n][w].frame)
      BY <1>1, <1>3, <3>1, <3>2, <3>3, EntryFrames
    <3>4. ASSUME NEW n \in Space, NEW t \in Table, tables'[n][t] # NoFrame
          PROVE  tables'[n][t] = tables[n][t] /\ Stays(tables[n][t])
      BY <1>1, <1>3, <3>1, <3>2, <3>4, TableFrame
    <3>5. ASSUME NEW n \in Space, root'[n] # NoFrame PROVE root'[n] = root[n] /\ Stays(root[n])
      BY <1>1, <1>3, <3>1, <3>2, <3>5, TableFrame
    <3>6. ASSUME NEW n \in Space, io'[n].op = "read" PROVE io'[n] = io[n] /\ Stays(io[n].frame)
      <4>1. n # m /\ io'[n] = io[n]
        BY <1>3, <1>5, <3>6
      <4> QED
        BY <1>3, <3>1, <3>2, <3>6, <4>1 DEF Waits
    <3> QED
      BY <1>3, <2>1, <3>3, <3>4, <3>5, <3>6, SolesReleased
  <2>6. Handling'
    BY <1>1, <1>3, <1>4, <1>5, <1>8, <2>1 DEF Handling
  <2> QED
    BY <1>7, <2>1, <2>3, <2>4, <2>5, <2>6 DEF IInv
<1> QED
  BY <1>2, <1>10, <1>11

\* The blocks of a space consist of pages.
LEMMA PagesOfType ==
    ASSUME Types, NEW m \in Space, NEW i
    PROVE  PagesOf(m, i) \subseteq Page
<1>1. CASE i \in DOMAIN areas[m]
  <2>1. areas[m][i] \in Block
    BY <1>1 DEF Types
  <2> QED
    BY <1>1, <2>1 DEF PagesOf, Block
<1>2. CASE i \notin DOMAIN areas[m]
  BY <1>2 DEF PagesOf
<1> QED
  BY <1>1, <1>2

\* One table of one space changes.
LEMMA TableSet ==
    ASSUME Types, NEW m \in Space, NEW t \in Table, NEW e \in Frame, Linked(m, t, e)
    PROVE  /\ tables' \in [Space -> [Table -> Frame \cup {NoFrame}]] /\ tables'[m][t] = e
           /\ \A n \in Space, u \in Table : ~(n = m /\ u = t) => tables'[n][u] = tables[n][u]
           /\ \A n \in Space : n # m => tables'[n] = tables[n]
<1>1. tables \in [Space -> [Table -> Frame \cup {NoFrame}]]
  BY DEF Types
<1>2. tables' = [n \in Space |-> IF n = m THEN [u \in Table |-> IF u = t THEN e ELSE tables[n][u]]
                                 ELSE tables[n]]
  BY <1>1 DEF Linked
<1>3. ASSUME NEW n \in Space PROVE tables'[n] \in [Table -> Frame \cup {NoFrame}]
  BY <1>1, <1>2
<1> QED
  BY <1>1, <1>2, <1>3

\* What the handler that maps a page goes by.
LEMMA MapHandling ==
    ASSUME IInv, job.op = "map"
    PROVE  /\ job.to \in Space /\ job.page \in Page /\ job.frame \in Frame
           /\ job \in JobSet /\ pte[job.to][job.page] = NoPte
           /\ io[job.to].op = "none" /\ status[job.to] # "free"
           /\ \A n \in Space : io[n].op = "exec" => io[n].next # job.to
           /\ \/ job.why \in {"user", "kernel"} /\ cur = job.to
              \/ job.why = "exec" /\ cur = None /\ status[job.to] = "loading"
              \/ job.why = "fork" /\ Forking
<1>1. /\ job.to \in Space /\ io[job.to].op = "none" /\ job.page \in Page /\ job.frame \in Frame
      /\ pte[job.to][job.page] = NoPte
      /\ \A n \in Space : io[n].op = "exec" => io[n].next # job.to
      /\ \/ job.why \in {"user", "kernel"} /\ cur = job.to
         \/ job.why = "exec" /\ cur = None /\ status[job.to] = "loading"
         \/ job.why = "fork" /\ Forking
  BY DEF IInv, Handling, Busy
<1>2. status[job.to] # "free"
  BY <1>1, VmmAssumption DEF IInv, Spaces, Forking
<1> QED
  BY <1>1, <1>2 DEF IInv, Types

\* The next table on the way is a fresh frame.
LEMMA MapTable ==
    ASSUME IInv, job.op = "map", NEW t \in Table, NEW f \in Frame, tables[job.to][t] = NoFrame,
           FirstFree(f), page_refs' = [page_refs EXCEPT ![f] = 1], data' = [data EXCEPT ![f] = Zero],
           tables' = [tables EXCEPT ![job.to][t] = f],
           UNCHANGED <<root, pte, areas, status, cur, tlb, io, job, lost>>
    PROVE  IInv'
<1> DEFINE m == job.to
<1>1. m \in Space /\ status[m] # "free"
  BY MapHandling
<1>2. Types /\ Counts /\ Linked(m, t, f)
  BY DEF IInv, Linked
<1>3. /\ page_refs' \in [Frame -> Int] /\ data' \in [Frame -> Val] /\ page_refs'[f] = 1
      /\ \A g \in Frame : page_refs'[g] = page_refs[g] + (IF f = g THEN 1 ELSE 0)
      /\ \A g \in Frame : page_refs[g] = 1 => page_refs'[g] = 1
  BY <1>2, Taken
<1>4. /\ tables' \in [Space -> [Table -> Frame \cup {NoFrame}]] /\ tables'[m][t] = f
      /\ \A n \in Space, u \in Table : ~(n = m /\ u = t) => tables'[n][u] = tables[n][u]
      /\ \A n \in Space : n # m => tables'[n] = tables[n]
  BY <1>1, <1>2, TableSet
<1>5. Types'
  BY <1>2, <1>3, <1>4 DEF Types
<1>6. Counts'
  <2> SUFFICES ASSUME NEW g \in Frame PROVE page_refs'[g] = Holders(g)' + lost'[g]
    BY DEF Counts
  <2>1. /\ Tabled(g) \in Nat /\ Tabled(g)' \in Nat
        /\ Tabled(g)' + (IF tables[m][t] = g THEN 1 ELSE 0) = Tabled(g) + (IF f = g THEN 1 ELSE 0)
    BY <1>1, <1>2, TabledChange
  <2>2. tables[m][t] # g
    BY EntryFrames, <1>2
  <2>3. Mapped(g)' = Mapped(g) /\ Rooted(g)' = Rooted(g) /\ Reading(g)' = Reading(g)
        /\ Mapping(g)' = Mapping(g)
    BY DEF Mapped, Rooted, Reading, Mapping
  <2>4. page_refs[g] = Mapped(g) + Tabled(g) + Rooted(g) + Reading(g) + Mapping(g) + lost[g]
    BY <1>2 DEF Counts, Holders
  <2>5. Mapped(g) \in Nat /\ Rooted(g) \in Nat /\ Reading(g) \in Nat /\ Mapping(g) \in Nat /\ lost[g] \in Nat
    BY <1>2, CountTypes DEF Types
  <2>6. page_refs'[g] = page_refs[g] + (IF f = g THEN 1 ELSE 0)
    BY <1>3
  <2>7. page_refs'[g] = Mapped(g) + Tabled(g)' + Rooted(g) + Reading(g) + Mapping(g) + lost[g]
    BY <2>1, <2>2, <2>4, <2>5, <2>6
  <2> QED
    BY <2>3, <2>7 DEF Holders
<1>7. Soles'
  <2>1. job.rw => page_refs'[job.frame] = 1
    BY <1>3, MapHandling DEF IInv, Soles, Sole
  <2> QED
    BY <1>3, <1>4, <2>1, SolesKept
<1>8. Spaces' /\ Waits' /\ TlbCoherent'
  BY <1>1, <1>4 DEF IInv, Spaces, Blank, Waits, TlbCoherent
<1>9. Handling'
  BY DEF IInv, Handling, Forking, Left, PagesOf
<1> QED
  BY <1>5, <1>6, <1>7, <1>8, <1>9 DEF IInv

\* What a fork goes by.
LEMMA ForkHandling ==
    ASSUME IInv, job.op \in {"map", "share"}, job.why = "fork"
    PROVE  /\ job.to \in Space /\ io[job.to].op = "none" /\ Forking /\ status[job.to] = "loading"
           /\ cur \in Space /\ cur # job.to /\ io[cur].op = "none" /\ status[cur] = "live"
           /\ \A n \in Space : io[n].op = "exec" => io[n].next # job.to
<1>1. /\ job.to \in Space /\ io[job.to].op = "none" /\ Forking
      /\ \A n \in Space : io[n].op = "exec" => io[n].next # job.to
  BY DEF IInv, Handling, Busy
<1> QED
  BY <1>1 DEF Forking, IInv, Types, Spaces

\* vmm_share_block is over, and llist_copy appends what it returns.
LEMMA BlockDone ==
    ASSUME IInv, job.op \in {"map", "share"}, job.why = "fork", NEW b \in Block,
           \/ b = Null
           \/ /\ Len(areas[job.to]) + 1 \in DOMAIN Blocks
              /\ b = Blocks[Len(areas[job.to]) + 1],
           areas' = [areas EXCEPT ![job.to] = Append(@, b)],
           job'.op = "share", job'.to = job.to, job'.why = "fork",
           job'.todo = PagesOf(cur, Len(areas[job.to]) + 2),
           UNCHANGED <<root, tables, pte, status, cur, io>>
    PROVE  areas' \in [Space -> Seq(Block)] /\ Spaces' /\ Waits' /\ Handling'
<1> DEFINE m == job.to
           k == Len(areas[m]) + 1
<1>1. /\ m \in Space /\ io[m].op = "none" /\ Forking /\ status[m] = "loading"
      /\ cur \in Space /\ cur # m /\ \A n \in Space : io[n].op = "exec" => io[n].next # m
  BY ForkHandling
<1>2. Types /\ Spaces /\ Waits
  BY DEF IInv
<1>3. /\ areas[m] \in Seq(Block) /\ Len(areas[m]) \in Nat
      /\ areas' \in [Space -> Seq(Block)]
      /\ Len(areas'[m]) = k /\ DOMAIN areas'[m] = 1 .. k /\ areas'[m][k] = b
      /\ DOMAIN areas[m] = 1 .. k - 1
      /\ \A i \in 1 .. k - 1 : areas'[m][i] = areas[m][i]
      /\ \A n \in Space : n # m => areas'[n] = areas[n]
  <2>1. areas \in [Space -> Seq(Block)]
    BY <1>2 DEF Types
  <2>2. areas' = [areas EXCEPT ![m] = Append(areas[m], b)]
    OBVIOUS
  <2>3. areas'[m] = Append(areas[m], b) /\ areas[m] \in Seq(Block)
    BY <1>1, <2>1, <2>2
  <2>4. areas' \in [Space -> Seq(Block)]
    BY <1>1, <2>1, <2>2, <2>3
  <2> QED
    BY <2>1, <2>2, <2>3, <2>4
<1>4. job'.todo = PagesOf(cur, k + 1)
  <2>1. Len(areas[m]) + 2 = k + 1
    BY <1>3
  <2> QED
    BY <2>1
<1>5. Spaces'
  <2>1. ASSUME NEW n \in Space, status'[n] = "free" PROVE Blank(n)'
    BY <1>1, <1>2, <1>3, <2>1 DEF Spaces, Blank
  <2>2. ASSUME NEW n \in Space, NEW i \in DOMAIN areas'[n]
        PROVE  areas'[n][i] = Null \/ (i \in DOMAIN Blocks /\ areas'[n][i] = Blocks[i])
    <3>1. CASE n # m
      BY <1>2, <1>3, <2>2, <3>1 DEF Spaces
    <3>2. CASE n = m
      <4>1. i = k \/ i \in 1 .. k - 1
        BY <1>3, <2>2, <3>2
      <4> QED
        BY <1>1, <1>2, <1>3, <3>2, <4>1 DEF Spaces
    <3> QED
      BY <3>1, <3>2
  <2> QED
    BY <1>2, <2>1, <2>2 DEF Spaces
<1>6. Waits'
  BY <1>1, <1>2, <1>3 DEF Waits
<1>7. Handling'
  <2>1. ASSUME NEW w \in Page, Left(w)' PROVE Left(w)
    <3>1. \/ w \in PagesOf(cur, k + 1)
          \/ \E i \in DOMAIN areas[cur] : i > k + 1 /\ w \in areas[cur][i].pages
      BY <1>1, <1>3, <1>4, <2>1 DEF Left
    <3>2. \E i \in DOMAIN areas[cur] : i > k /\ w \in areas[cur][i].pages
      <4>1. k + 1 > k /\ \A i \in DOMAIN areas[cur] : i > k + 1 => i > k
        BY <1>1, <1>2, <1>3 DEF Types
      <4> QED
        BY <3>1, <4>1 DEF PagesOf
    <3> QED
      BY <3>2 DEF Left
  <2>2. Forking'
    <3>1. Len(areas'[m]) + 1 = k + 1
      BY <1>3
    <3>2. job'.todo \subseteq PagesOf(cur, Len(areas[job.to]) + 1)'
      BY <1>1, <1>3, <1>4, <3>1 DEF PagesOf
    <3> QED
      BY <1>1, <2>1, <3>2 DEF Forking
  <2> QED
    BY <1>1, <2>2 DEF Handling
<1> QED
  BY <1>3, <1>5, <1>6, <1>7

\* vmm_share_block returns NULL: the reference that was retained has no owner.
LEMMA MapLost ==
    ASSUME IInv, job.op = "map", job.why = "fork",
           lost' = [lost EXCEPT ![job.frame] = @ + 1],
           areas' = [areas EXCEPT ![job.to] = Append(@, Null)],
           job' = [job EXCEPT !.op = "share", !.frame = NoFrame, !.cow = FALSE,
                              !.todo = PagesOf(cur, Len(areas[job.to]) + 2)],
           UNCHANGED <<page_refs, data, root, tables, pte, status, cur, tlb, io>>
    PROVE  IInv'
<1> DEFINE m == job.to
<1>1. m \in Space /\ job.frame \in Frame /\ job \in JobSet /\ cur \in Space
  BY MapHandling, ForkHandling
<1>2. Types /\ Counts /\ Null \in Block
  BY ImageBlocks DEF IInv
<1>3. /\ job'.op = "share" /\ job'.to = m /\ job'.why = "fork"
      /\ job'.todo = PagesOf(cur, Len(areas[m]) + 2) /\ job' \in JobSet
  <2>1. PagesOf(cur, Len(areas[m]) + 2) \subseteq Page
    BY <1>1, <1>2, PagesOfType
  <2> QED
    BY <1>1, <2>1 DEF JobSet
<1>4. areas' \in [Space -> Seq(Block)] /\ Spaces' /\ Waits' /\ Handling'
  BY <1>2, <1>3, BlockDone
<1>5. lost' \in [Frame -> Nat] /\ \A g \in Frame : lost'[g] = lost[g] + (IF job.frame = g THEN 1 ELSE 0)
  BY <1>1, <1>2 DEF Types
<1>6. Types'
  BY <1>2, <1>3, <1>4, <1>5 DEF Types
<1>7. Counts'
  <2> SUFFICES ASSUME NEW g \in Frame PROVE page_refs'[g] = Holders(g)' + lost'[g]
    BY DEF Counts
  <2>1. Mapped(g)' = Mapped(g) /\ Tabled(g)' = Tabled(g) /\ Rooted(g)' = Rooted(g)
        /\ Reading(g)' = Reading(g)
    BY DEF Mapped, Tabled, Rooted, Reading
  <2>2. Mapping(g)' = 0 /\ Mapping(g) = IF job.frame = g THEN 1 ELSE 0
    BY <1>3 DEF Mapping
  <2>3. page_refs[g] = Mapped(g) + Tabled(g) + Rooted(g) + Reading(g) + Mapping(g) + lost[g]
    BY <1>2 DEF Counts, Holders
  <2>4. Mapped(g) \in Nat /\ Tabled(g) \in Nat /\ Rooted(g) \in Nat /\ Reading(g) \in Nat /\ lost[g] \in Nat
    BY <1>2, CountTypes DEF Types
  <2>5. page_refs[g] = Mapped(g) + Tabled(g) + Rooted(g) + Reading(g) + 0 + lost'[g]
    BY <1>5, <2>2, <2>3, <2>4
  <2> QED
    BY <2>1, <2>2, <2>5 DEF Holders
<1>8. Soles'
  BY <1>3 DEF IInv, Soles, Sole
<1>9. TlbCoherent'
  BY DEF IInv, TlbCoherent
<1> QED
  BY <1>3, <1>4, <1>6, <1>7, <1>8, <1>9 DEF IInv

\* The mapping came to nothing, and the handler's reference is given back.
LEMMA MapFails ==
    ASSUME IInv, job.op = "map", job.why # "fork", page_refs' = Dropped(job.frame), Leftover, Fail,
           UNCHANGED <<root, tables, pte, areas, status, cur, tlb, io, lost>>
    PROVE  IInv'
<1> DEFINE f == job.frame
<1>1. /\ job.to \in Space /\ f \in Frame /\ job \in JobSet /\ io[job.to].op = "none"
      /\ \A n \in Space : io[n].op = "exec" => io[n].next # job.to
      /\ \/ job.why \in {"user", "kernel"} /\ cur = job.to
         \/ job.why = "exec" /\ cur = None /\ status[job.to] = "loading"
  BY MapHandling
<1>2. Types /\ Counts /\ Soles /\ Spaces /\ Waits
  BY DEF IInv
<1>3. /\ page_refs' \in [Frame -> Int] /\ data' \in [Frame -> Val]
      /\ \A g \in Frame : page_refs'[g] + (IF f = g THEN 1 ELSE 0) = page_refs[g]
  BY <1>1, <1>2, Returned
<1>4. job'.op = "fail" /\ job'.to = job.to /\ job'.why = job.why /\ job' \in JobSet
  BY <1>1 DEF JobSet, Fail
<1>5. Types' /\ Spaces' /\ Waits' /\ TlbCoherent'
  BY <1>2, <1>3, <1>4 DEF IInv, Types, Spaces, Blank, Waits, TlbCoherent
<1>6. Counts'
  <2> SUFFICES ASSUME NEW g \in Frame PROVE page_refs'[g] = Holders(g)' + lost'[g]
    BY DEF Counts
  <2>1. Mapped(g)' = Mapped(g) /\ Tabled(g)' = Tabled(g) /\ Rooted(g)' = Rooted(g)
        /\ Reading(g)' = Reading(g)
    BY DEF Mapped, Tabled, Rooted, Reading
  <2>2. Mapping(g)' = 0 /\ Mapping(g) = IF f = g THEN 1 ELSE 0
    BY <1>4 DEF Mapping
  <2>3. page_refs[g] = Mapped(g) + Tabled(g) + Rooted(g) + Reading(g) + Mapping(g) + lost[g]
    BY <1>2 DEF Counts, Holders
  <2>4. Mapped(g) \in Nat /\ Tabled(g) \in Nat /\ Rooted(g) \in Nat /\ Reading(g) \in Nat /\ lost[g] \in Nat
    BY <1>2, CountTypes DEF Types
  <2>5. page_refs'[g] \in Int /\ page_refs'[g] + (IF f = g THEN 1 ELSE 0) = page_refs[g]
    BY <1>3
  <2>6. page_refs'[g] = Mapped(g) + Tabled(g) + Rooted(g) + Reading(g) + 0 + lost[g]
    BY <2>2, <2>3, <2>4, <2>5
  <2> QED
    BY <2>1, <2>2, <2>6 DEF Holders
<1>7. Soles'
  <2>1. \A g \in Frame : g # f => Stays(g)
    <3> SUFFICES ASSUME NEW g \in Frame, g # f PROVE Stays(g)
      OBVIOUS
    <3>1. page_refs'[g] \in Int /\ page_refs'[g] + 0 = page_refs[g]
      BY <1>3
    <3> QED
      BY <3>1 DEF Stays
  <2>2. page_refs[f] # 1 => Stays(f)
    BY DEF Stays
  <2>3. page_refs[f] = 1 => /\ \A n \in Space, w \in Page : pte[n][w].frame # f
                            /\ \A n \in Space, t \in Table : tables[n][t] # f
                            /\ \A n \in Space : root[n] # f /\ io[n].frame # f
    BY <1>1, <1>2, SoleHolder DEF Sole
  <2>4. ASSUME NEW n \in Space, NEW w \in Page, pte'[n][w].rw
        PROVE  pte'[n][w] = pte[n][w] /\ Stays(pte[n][w].frame)
    BY <1>2, <2>1, <2>2, <2>3, <2>4, EntryFrames
  <2>5. ASSUME NEW n \in Space, NEW t \in Table, tables'[n][t] # NoFrame
        PROVE  tables'[n][t] = tables[n][t] /\ Stays(tables[n][t])
    BY <1>2, <2>1, <2>2, <2>3, <2>5, TableFrame
  <2>6. ASSUME NEW n \in Space, root'[n] # NoFrame PROVE root'[n] = root[n] /\ Stays(root[n])
    BY <1>2, <2>1, <2>2, <2>3, <2>6, TableFrame
  <2>7. ASSUME NEW n \in Space, io'[n].op = "read" PROVE io'[n] = io[n] /\ Stays(io[n].frame)
    BY <1>2, <2>1, <2>2, <2>3, <2>7 DEF Waits
  <2> QED
    BY <1>2, <1>4, <2>4, <2>5, <2>6, <2>7, SolesReleased
<1>8. Handling'
  BY <1>1, <1>4 DEF Handling
<1> QED
  BY <1>4, <1>5, <1>6, <1>7, <1>8 DEF IInv

\* The reference of the handler becomes that of the entry.
LEMMA MapEntry ==
    ASSUME IInv, job.op = "map",
           pte' = [pte EXCEPT ![job.to][job.page] =
                       [frame |-> job.frame, rw |-> job.rw, cow |-> job.cow]],
           \/ /\ job.why = "fork" /\ UNCHANGED <<status, cur, tlb>>
              /\ job' = [job EXCEPT !.op = "share", !.frame = NoFrame, !.cow = FALSE]
           \/ /\ job.why = "exec" /\ status' = [status EXCEPT ![job.to] = "live"]
              /\ cur' = job.to /\ tlb' = Flushed /\ job' = NoJob
           \/ /\ job.why \notin {"fork", "exec"} /\ UNCHANGED <<status, cur>>
              /\ tlb' = Invlpg(job.page) /\ job' = NoJob,
           UNCHANGED <<page_refs, data, root, tables, areas, io, lost>>
    PROVE  IInv'
<1> DEFINE m == job.to
           v == job.page
           f == job.frame
           e == [frame |-> f, rw |-> job.rw, cow |-> job.cow]
<1>1. /\ m \in Space /\ v \in Page /\ f \in Frame /\ job \in JobSet
      /\ pte[m][v] = NoPte /\ io[m].op = "none" /\ status[m] # "free"
      /\ \A n \in Space : io[n].op = "exec" => io[n].next # m
      /\ \/ job.why \in {"user", "kernel"} /\ cur = m
         \/ job.why = "exec" /\ cur = None /\ status[m] = "loading"
         \/ job.why = "fork" /\ Forking
  BY MapHandling
<1>2. Types /\ Counts /\ Soles /\ Spaces /\ Waits /\ TlbCoherent
  BY DEF IInv
<1>3. e \in Entry /\ e.frame = f /\ e.rw = job.rw /\ Entered(m, v, e)
  BY <1>1 DEF Entry, Pte, JobSet, Entered
<1> HIDE DEF e
<1>4. /\ pte' \in [Space -> [Page -> Entry]] /\ pte'[m][v] = e
      /\ \A n \in Space, w \in Page : ~(n = m /\ w = v) => pte'[n][w] = pte[n][w]
      /\ \A n \in Space : n # m => pte'[n] = pte[n]
  BY <1>1, <1>2, <1>3, EntrySet
<1>5. \/ /\ job.why = "fork" /\ UNCHANGED <<status, cur, tlb>> /\ job'.op = "share"
         /\ job'.to = m /\ job'.why = "fork" /\ job'.todo = job.todo
         /\ job' \in JobSet
      \/ /\ job.why = "exec" /\ status' = [status EXCEPT ![m] = "live"]
         /\ cur' = m /\ tlb' = Flushed /\ job' = NoJob
      \/ /\ job.why \in {"user", "kernel"} /\ UNCHANGED <<status, cur>>
         /\ tlb' = Invlpg(v) /\ job' = NoJob
  <2>1. CASE /\ job.why = "fork" /\ UNCHANGED <<status, cur, tlb>>
             /\ job' = [job EXCEPT !.op = "share", !.frame = NoFrame, !.cow = FALSE]
    <3>1. /\ job'.op = "share" /\ job'.to = m /\ job'.why = "fork" /\ job'.todo = job.todo
          /\ job' \in JobSet
      BY <1>1, <2>1 DEF JobSet
    <3> QED
      BY <2>1, <3>1
  <2> QED
    BY <1>1, <2>1
<1>6. NoJob \in JobSet /\ NoJob.op = "none"
  BY DEF NoJob, JobSet, NoFrame
<1>7. job'.op # "map" /\ job' \in JobSet /\ job'.op # "panic_free"
  BY <1>5, <1>6
<1>8. tlb' \in [Page -> Entry] /\ status' \in [Space -> {"free", "loading", "live"}]
      /\ cur' \in Space \cup {None}
  BY <1>1, <1>2, <1>5 DEF Types, Flushed, Entry, Invlpg
<1>9. Types'
  BY <1>2, <1>4, <1>7, <1>8 DEF Types
<1>10. Counts'
  <2> SUFFICES ASSUME NEW g \in Frame PROVE page_refs'[g] = Holders(g)' + lost'[g]
    BY DEF Counts
  <2>1. /\ Mapped(g) \in Nat /\ Mapped(g)' \in Nat
        /\ Mapped(g)' + (IF pte[m][v].frame = g THEN 1 ELSE 0)
           = Mapped(g) + (IF e.frame = g THEN 1 ELSE 0)
    BY <1>1, <1>2, <1>3, MappedChange
  <2>2. pte[m][v].frame # g
    BY <1>1, <1>2, EntryFrames
  <2>3. Tabled(g)' = Tabled(g) /\ Rooted(g)' = Rooted(g) /\ Reading(g)' = Reading(g)
    BY DEF Tabled, Rooted, Reading
  <2>4. Mapping(g)' = 0 /\ Mapping(g) = IF f = g THEN 1 ELSE 0
    BY <1>7 DEF Mapping
  <2>5. page_refs[g] = Mapped(g) + Tabled(g) + Rooted(g) + Reading(g) + Mapping(g) + lost[g]
    BY <1>2 DEF Counts, Holders
  <2>6. Tabled(g) \in Nat /\ Rooted(g) \in Nat /\ Reading(g) \in Nat /\ lost[g] \in Nat
    BY <1>2, CountTypes DEF Types
  <2>7. page_refs[g] = Mapped(g)' + Tabled(g) + Rooted(g) + Reading(g) + 0 + lost[g]
    BY <1>3, <2>1, <2>2, <2>4, <2>5, <2>6
  <2> QED
    BY <2>3, <2>4, <2>7 DEF Holders
<1>11. Soles'
  <2>1. job.rw => page_refs[f] = 1
    BY <1>2 DEF Soles, Sole
  <2>2. \A n \in Space, w \in Page :
            pte'[n][w] = pte[n][w] \/ (pte'[n][w].rw => page_refs'[pte'[n][w].frame] = 1)
    BY <1>3, <1>4, <2>1
  <2> QED
    BY <1>7, <2>2, SolesKept
<1>12. Spaces'
  <2>1. \A n \in Space : status'[n] = "free" => status[n] = "free" /\ n # m
    BY <1>1, <1>2, <1>5 DEF Types
  <2>2. cur' # None => status'[cur'] = "live"
    BY <1>1, <1>2, <1>5 DEF Types, Spaces
  <2> QED
    BY <1>2, <1>4, <2>1, <2>2 DEF Spaces, Blank
<1>13. Waits'
  <2>1. UNCHANGED status \/ status' = [status EXCEPT ![m] = "live"]
    BY <1>5
  <2>2. /\ \A n \in Space : n # m => status'[n] = status[n]
        /\ status'[m] = status[m] \/ status'[m] = "live"
    BY <1>1, <1>2, <2>1 DEF Types
  <2>3. \A n \in Space : io[n].op # "none" => status'[n] = "live"
    BY <1>1, <1>2, <2>2 DEF Waits
  <2> QED
    BY <1>1, <1>2, <1>4, <2>2, <2>3 DEF Waits
<1>14. TlbCoherent'
  <2>1. CASE job.why = "fork" /\ UNCHANGED <<status, cur, tlb>>
    <3>1. cur # m /\ cur \in Space
      BY <1>1, <1>2, <2>1 DEF Forking, Types
    <3> QED
      BY <1>2, <1>4, <2>1, <3>1 DEF TlbCoherent
  <2>2. CASE tlb' = Flushed
    BY <2>2 DEF TlbCoherent, Flushed
  <2>3. CASE job.why \in {"user", "kernel"} /\ UNCHANGED <<status, cur>> /\ tlb' = Invlpg(v)
    <3>1. cur = m /\ cur' = m
      BY <1>1, <2>3
    <3>2. ASSUME NEW w \in Page, tlb'[w] # NoPte PROVE tlb'[w] = pte'[m][w]
      <4>1. w # v /\ tlb'[w] = tlb[w]
        BY <1>1, <1>2, <2>3, <3>2 DEF Invlpg, Types
      <4>2. pte'[m][w] = pte[m][w]
        BY <1>1, <1>4, <4>1
      <4> QED
        BY <1>1, <1>2, <3>1, <3>2, <4>1, <4>2, VmmAssumption DEF TlbCoherent
    <3> QED
      BY <3>1, <3>2 DEF TlbCoherent
  <2> QED
    BY <1>5, <2>1, <2>2, <2>3
<1>15. Handling'
  <2>1. CASE job' = NoJob
    BY <1>6, <2>1 DEF Handling, Busy
  <2>2. CASE /\ job.why = "fork" /\ UNCHANGED <<status, cur, tlb>> /\ job'.op = "share"
             /\ job'.to = m /\ job'.why = "fork" /\ job'.todo = job.todo
    <3>1. Forking
      BY <1>1, <2>2
    <3>2. \A w \in Page : Left(w)' = Left(w)
      BY <2>2 DEF Left
    <3>3. \A w \in Page : Left(w) => pte'[m][w] = NoPte
      <4>1. \A w \in Page : Left(w) => w # v /\ pte[m][w] = NoPte
        BY <3>1 DEF Forking
      <4> QED
        BY <1>1, <1>4, <4>1
    <3>4. Forking'
      BY <1>1, <2>2, <3>1, <3>2, <3>3 DEF Forking, PagesOf
    <3> QED
      BY <1>1, <2>2, <3>4 DEF Handling
  <2> QED
    BY <1>5, <2>1, <2>2
<1> QED
  BY <1>7, <1>9, <1>10, <1>11, <1>12, <1>13, <1>14, <1>15 DEF IInv

LEMMA MapStepIInv == ASSUME IInv, MapStep PROVE IInv'
<1> DEFINE m == job.to
           v == job.page
<1>1. job.op = "map" /\ UNCHANGED <<root, io>>
  BY DEF MapStep
<1>2. ASSUME NEW i \in Missing(m, v), NEW f \in Frame, FirstFree(f),
             page_refs' = [page_refs EXCEPT ![f] = 1], data' = [data EXCEPT ![f] = Zero],
             tables' = [tables EXCEPT ![m][Path[v][i]] = f],
             UNCHANGED <<pte, areas, status, cur, tlb, job, lost>>
      PROVE  IInv'
  <2>1. Path[v] \in Seq(Table) /\ i \in DOMAIN Path[v] /\ tables[m][Path[v][i]] = NoFrame
    BY <1>1, MapHandling, VmmAssumption DEF Missing
  <2>2. Path[v][i] \in Table
    BY <2>1
  <2> QED
    BY <1>1, <1>2, <2>1, <2>2, MapTable
<1>3. CASE /\ IF job.why = "fork"
              THEN /\ lost' = [lost EXCEPT ![job.frame] = @ + 1]
                   /\ areas' = [areas EXCEPT ![m] = Append(@, Null)]
                   /\ job' = [job EXCEPT !.op = "share", !.frame = NoFrame, !.cow = FALSE,
                                         !.todo = PagesOf(cur, Len(areas[m]) + 2)]
                   /\ UNCHANGED <<page_refs, data>>
              ELSE page_refs' = Dropped(job.frame) /\ Leftover /\ Fail /\ UNCHANGED <<areas, lost>>
           /\ UNCHANGED <<tables, pte, status, cur, tlb>>
  BY <1>1, <1>3, MapLost, MapFails
<1>4. CASE /\ pte' = [pte EXCEPT ![m][v] = [frame |-> job.frame, rw |-> job.rw, cow |-> job.cow]]
           /\ CASE job.why = "fork" ->
                     /\ job' = [job EXCEPT !.op = "share", !.frame = NoFrame, !.cow = FALSE]
                     /\ UNCHANGED <<status, cur, tlb>>
                [] job.why = "exec" ->
                     /\ status' = [status EXCEPT ![m] = "live"]
                     /\ cur' = m /\ tlb' = Flushed /\ job' = NoJob
                [] OTHER -> tlb' = Invlpg(v) /\ job' = NoJob /\ UNCHANGED <<status, cur>>
           /\ UNCHANGED <<page_refs, data, tables, areas, lost>>
  <2>1. \/ /\ job.why = "fork" /\ UNCHANGED <<status, cur, tlb>>
           /\ job' = [job EXCEPT !.op = "share", !.frame = NoFrame, !.cow = FALSE]
        \/ /\ job.why = "exec" /\ status' = [status EXCEPT ![m] = "live"]
           /\ cur' = m /\ tlb' = Flushed /\ job' = NoJob
        \/ /\ job.why \notin {"fork", "exec"} /\ UNCHANGED <<status, cur>>
           /\ tlb' = Invlpg(v) /\ job' = NoJob
    <3>1. CASE job.why = "fork"
      BY <1>4, <3>1
    <3>2. CASE job.why = "exec"
      BY <1>4, <3>2
    <3>3. CASE job.why \notin {"fork", "exec"}
      BY <1>4, <3>3
    <3> QED
      BY <3>1, <3>2, <3>3
  <2> QED
    BY <1>1, <1>4, <2>1, MapEntry
<1> QED
  BY <1>2, <1>3, <1>4 DEF MapStep

-----------------------------------------------------------------------------
(* Freeing a space                                                         *)

\* The pairs of a row, and the others.
LEMMA CountRow ==
    ASSUME NEW S, NEW T, IsFiniteSet(S), IsFiniteSet(T), NEW m \in S, NEW A \in SUBSET (S \X T),
           NEW B \in SUBSET (S \X T), NEW R \in SUBSET T,
           \A n \in S, t \in T : <<n, t>> \in B <=> <<n, t>> \in A /\ n # m,
           \A t \in T : t \in R <=> <<m, t>> \in A
    PROVE  /\ Cardinality(A) \in Nat /\ Cardinality(B) \in Nat /\ Cardinality(R) \in Nat
           /\ Cardinality(A) = Cardinality(B) + Cardinality(R)
<1> DEFINE C == {x \in A : x[1] = m}
           h == [t \in R |-> <<m, t>>]
<1>1. IsFiniteSet(A) /\ IsFiniteSet(B) /\ IsFiniteSet(R)
  <2>1. IsFiniteSet(S \X T)
    BY FS_Product
  <2> QED
    BY <2>1, FS_Subset
<1>2. Cardinality(A) \in Nat /\ Cardinality(B) \in Nat /\ Cardinality(R) \in Nat
  BY <1>1, FS_CardinalityType
<1>3. B = A \ C /\ A \cap C = C
  <2>1. ASSUME NEW x \in S \X T PROVE x \in B <=> x \in A /\ x[1] # m
    <3>1. PICK n \in S, t \in T : x = <<n, t>>
      OBVIOUS
    <3> QED
      BY <3>1
  <2> QED
    BY <2>1
<1>4. Cardinality(B) = Cardinality(A) - Cardinality(C)
  BY <1>1, <1>3, FS_Difference
<1>5. Cardinality(C) = Cardinality(R)
  <2>1. h \in [R -> C]
    OBVIOUS
  <2>2. \A a, b \in R : h[a] = h[b] => a = b
    OBVIOUS
  <2>3. ASSUME NEW x \in C PROVE \E t \in R : h[t] = x
    <3>1. PICK n \in S, t \in T : x = <<n, t>>
      OBVIOUS
    <3>2. n = m /\ t \in R
      BY <3>1
    <3> QED
      BY <3>1, <3>2
  <2>4. h \in Bijection(R, C)
    BY <2>1, <2>2, <2>3 DEF Bijection, Injection, Surjection, IsInjective
  <2> HIDE DEF h, C
  <2>5. ExistsBijection(R, C)
    BY <2>4 DEF ExistsBijection
  <2> QED
    BY <1>1, <2>5, FS_Bijection
<1> QED
  BY <1>2, <1>4, <1>5

\* What the space m maps on f, and what the others do.
MappedBy(m, f) == Cardinality({v \in Page : pte[m][v].frame = f})
TabledBy(m, f) == Cardinality({t \in Table : tables[m][t] = f})
RootedBy(m, f) == IF root[m] = f THEN 1 ELSE 0
MappedElse(m, f) == Cardinality({x \in Space \X Page : pte[x[1]][x[2]].frame = f /\ x[1] # m})
TabledElse(m, f) == Cardinality({x \in Space \X Table : tables[x[1]][x[2]] = f /\ x[1] # m})

LEMMA MappedSplit ==
    ASSUME NEW m \in Space, NEW f
    PROVE  /\ MappedBy(m, f) \in Nat /\ MappedElse(m, f) \in Nat
           /\ Mapped(f) = MappedElse(m, f) + MappedBy(m, f)
<1> DEFINE A == {x \in Space \X Page : pte[x[1]][x[2]].frame = f}
           B == {x \in Space \X Page : pte[x[1]][x[2]].frame = f /\ x[1] # m}
           R == {v \in Page : pte[m][v].frame = f}
<1>1. /\ A \in SUBSET (Space \X Page) /\ B \in SUBSET (Space \X Page) /\ R \in SUBSET Page
      /\ \A n \in Space, v \in Page : <<n, v>> \in B <=> <<n, v>> \in A /\ n # m
      /\ \A v \in Page : v \in R <=> <<m, v>> \in A
  OBVIOUS
<1>2. Mapped(f) = Cardinality(A) /\ MappedElse(m, f) = Cardinality(B) /\ MappedBy(m, f) = Cardinality(R)
  BY DEF Mapped, MappedElse, MappedBy
<1> HIDE DEF A, B, R
<1>3. IsFiniteSet(Space) /\ IsFiniteSet(Page)
  BY VmmAssumption
<1> QED
  BY <1>1, <1>2, <1>3, CountRow

LEMMA TabledSplit ==
    ASSUME NEW m \in Space, NEW f
    PROVE  /\ TabledBy(m, f) \in Nat /\ TabledElse(m, f) \in Nat
           /\ Tabled(f) = TabledElse(m, f) + TabledBy(m, f)
<1> DEFINE A == {x \in Space \X Table : tables[x[1]][x[2]] = f}
           B == {x \in Space \X Table : tables[x[1]][x[2]] = f /\ x[1] # m}
           R == {t \in Table : tables[m][t] = f}
<1>1. /\ A \in SUBSET (Space \X Table) /\ B \in SUBSET (Space \X Table) /\ R \in SUBSET Table
      /\ \A n \in Space, t \in Table : <<n, t>> \in B <=> <<n, t>> \in A /\ n # m
      /\ \A t \in Table : t \in R <=> <<m, t>> \in A
  OBVIOUS
<1>2. Tabled(f) = Cardinality(A) /\ TabledElse(m, f) = Cardinality(B) /\ TabledBy(m, f) = Cardinality(R)
  BY DEF Tabled, TabledElse, TabledBy
<1> HIDE DEF A, B, R
<1>3. IsFiniteSet(Space) /\ IsFiniteSet(Table)
  BY VmmAssumption
<1> QED
  BY <1>1, <1>2, <1>3, CountRow

LEMMA HeldIs == ASSUME NEW m, NEW f
                PROVE  Held(m, f) = MappedBy(m, f) + TabledBy(m, f) + RootedBy(m, f)
BY DEF Held, MappedBy, TabledBy, RootedBy

\* Nothing is freed that is not held.
LEMMA FreeAllowed ==
    ASSUME Types, Counts, NEW m \in Space
    PROVE  FreeOk(m)
<1> SUFFICES ASSUME NEW f \in Frame PROVE page_refs[f] >= Held(m, f)
  BY DEF FreeOk
<1>1. page_refs[f] = Mapped(f) + Tabled(f) + Rooted(f) + Reading(f) + Mapping(f) + lost[f]
  BY DEF Counts, Holders
<1>2. Rooted(f) \in Nat /\ Reading(f) \in Nat /\ Mapping(f) \in Nat /\ lost[f] \in Nat
  BY CountTypes DEF Types
<1>3. /\ MappedBy(m, f) \in Nat /\ MappedElse(m, f) \in Nat
      /\ Mapped(f) = MappedElse(m, f) + MappedBy(m, f)
      /\ TabledBy(m, f) \in Nat /\ TabledElse(m, f) \in Nat
      /\ Tabled(f) = TabledElse(m, f) + TabledBy(m, f)
  BY MappedSplit, TabledSplit
<1>4. RootedBy(m, f) \in Nat /\ Rooted(f) >= RootedBy(m, f)
  BY <1>2, CountHolders DEF RootedBy
<1>5. Held(m, f) = MappedBy(m, f) + TabledBy(m, f) + RootedBy(m, f)
  BY HeldIs
<1> QED
  BY <1>1, <1>2, <1>3, <1>4, <1>5

\* vmm_free: the space is empty, and the other holders are still counted.
LEMMA Freed ==
    ASSUME Types, Counts, NEW m \in Space, VmmFree(m), job.op # "map"
    PROVE  /\ page_refs' \in [Frame -> Int] /\ data' \in [Frame -> Val]
           /\ root' \in [Space -> Frame \cup {NoFrame}]
           /\ tables' \in [Space -> [Table -> Frame \cup {NoFrame}]]
           /\ pte' \in [Space -> [Page -> Entry]]
           /\ root'[m] = NoFrame /\ tables'[m] = [t \in Table |-> NoFrame] /\ pte'[m] = Flushed
           /\ \A n \in Space : n # m => /\ root'[n] = root[n] /\ tables'[n] = tables[n]
                                        /\ pte'[n] = pte[n]
           /\ \A g \in Frame : page_refs'[g] = Mapped(g)' + Tabled(g)' + Rooted(g)'
                                               + Reading(g) + 0 + lost[g]
<1>1. /\ page_refs' = [f \in Frame |-> page_refs[f] - Held(m, f)]
      /\ root' = [root EXCEPT ![m] = NoFrame]
      /\ tables' = [tables EXCEPT ![m] = [t \in Table |-> NoFrame]]
      /\ pte' = [pte EXCEPT ![m] = Flushed]
      /\ Leftover
  BY DEF VmmFree
<1>2. Flushed \in [Page -> Entry] /\ [t \in Table |-> NoFrame] \in [Table -> Frame \cup {NoFrame}]
  BY DEF Flushed, Entry
<1>3. /\ root' \in [Space -> Frame \cup {NoFrame}]
      /\ tables' \in [Space -> [Table -> Frame \cup {NoFrame}]]
      /\ pte' \in [Space -> [Page -> Entry]]
      /\ root'[m] = NoFrame /\ tables'[m] = [t \in Table |-> NoFrame] /\ pte'[m] = Flushed
      /\ \A n \in Space : n # m => /\ root'[n] = root[n] /\ tables'[n] = tables[n]
                                   /\ pte'[n] = pte[n]
  BY <1>1, <1>2 DEF Types
<1>4. data' \in [Frame -> Val]
  BY <1>1, VmmAssumption DEF Leftover, Types
<1>5. ASSUME NEW g \in Frame
      PROVE  /\ page_refs[g] \in Int /\ Held(m, g) \in Int
             /\ page_refs[g] - Held(m, g) = Mapped(g)' + Tabled(g)' + Rooted(g)' + Reading(g) + 0 + lost[g]
  <2>1. page_refs[g] = Mapped(g) + Tabled(g) + Rooted(g) + Reading(g) + Mapping(g) + lost[g]
    BY DEF Counts, Holders
  <2>2. Rooted(g) \in Nat /\ Reading(g) \in Nat /\ Mapping(g) = 0 /\ lost[g] \in Nat
    BY CountTypes DEF Types, Mapping
  <2>3. /\ MappedBy(m, g) \in Nat /\ MappedElse(m, g) \in Nat
        /\ Mapped(g) = MappedElse(m, g) + MappedBy(m, g)
        /\ TabledBy(m, g) \in Nat /\ TabledElse(m, g) \in Nat
        /\ Tabled(g) = TabledElse(m, g) + TabledBy(m, g)
    BY MappedSplit, TabledSplit
  <2>4. NoFrame # g /\ NoPte.frame # g
    BY EntryFrames
  <2>5. Mapped(g)' = MappedElse(m, g)
    <3>1. ASSUME NEW x \in Space \X Page
          PROVE  pte'[x[1]][x[2]].frame = g <=> pte[x[1]][x[2]].frame = g /\ x[1] # m
      <4>1. CASE x[1] = m
        <5>1. pte'[x[1]][x[2]] = NoPte
          BY <1>3, <4>1 DEF Flushed
        <5> QED
          BY <2>4, <4>1, <5>1
      <4>2. CASE x[1] # m
        BY <1>3, <4>2
      <4> QED
        BY <4>1, <4>2
    <3>2. {x \in Space \X Page : pte'[x[1]][x[2]].frame = g}
          = {x \in Space \X Page : pte[x[1]][x[2]].frame = g /\ x[1] # m}
      BY <3>1
    <3> QED
      BY <3>2 DEF Mapped, MappedElse
  <2>6. Tabled(g)' = TabledElse(m, g)
    <3>1. ASSUME NEW x \in Space \X Table
          PROVE  tables'[x[1]][x[2]] = g <=> tables[x[1]][x[2]] = g /\ x[1] # m
      <4>1. CASE x[1] = m
        <5>1. tables'[x[1]][x[2]] = NoFrame
          BY <1>3, <4>1
        <5> QED
          BY <2>4, <4>1, <5>1
      <4>2. CASE x[1] # m
        BY <1>3, <4>2
      <4> QED
        BY <4>1, <4>2
    <3>2. {x \in Space \X Table : tables'[x[1]][x[2]] = g}
          = {x \in Space \X Table : tables[x[1]][x[2]] = g /\ x[1] # m}
      BY <3>1
    <3> QED
      BY <3>2 DEF Tabled, TabledElse
  <2>7. Rooted(g)' \in Nat /\ Rooted(g)' + RootedBy(m, g) = Rooted(g)
    <3>1. Planted(m, NoFrame)
      BY <1>1 DEF Planted
    <3>2. /\ Rooted(g)' \in Nat
          /\ Rooted(g)' + (IF root[m] = g THEN 1 ELSE 0) = Rooted(g) + (IF NoFrame = g THEN 1 ELSE 0)
      BY <3>1, RootedChange
    <3> QED
      BY <2>2, <2>4, <3>2 DEF RootedBy
  <2>8. RootedBy(m, g) \in Nat
    BY DEF RootedBy
  <2>9. Held(m, g) = MappedBy(m, g) + TabledBy(m, g) + RootedBy(m, g)
    BY HeldIs
  <2> QED
    BY <2>1, <2>2, <2>3, <2>5, <2>6, <2>7, <2>8, <2>9
<1>6. page_refs' \in [Frame -> Int]
  BY <1>1, <1>5
<1>7. ASSUME NEW g \in Frame
      PROVE  page_refs'[g] = Mapped(g)' + Tabled(g)' + Rooted(g)' + Reading(g) + 0 + lost[g]
  BY <1>1, <1>5
<1> QED
  BY <1>3, <1>4, <1>6, <1>7

\* A frame of its own is not among those that another space gives back.
LEMMA FreedSoles ==
    ASSUME IInv, NEW m \in Space, VmmFree(m), job.op # "map", job'.op # "map",
           \A n \in Space : io'[n] = io[n] \/ io'[n].op # "read"
    PROVE  Soles'
<1>1. Types /\ Counts /\ Soles /\ Waits
  BY DEF IInv
<1>2. /\ root'[m] = NoFrame /\ tables'[m] = [t \in Table |-> NoFrame] /\ pte'[m] = Flushed
      /\ \A n \in Space : n # m => /\ root'[n] = root[n] /\ tables'[n] = tables[n]
                                   /\ pte'[n] = pte[n]
  BY <1>1, Freed
<1>3. ASSUME NEW g \in Frame, \A v \in Page : pte[m][v].frame # g,
             \A t \in Table : tables[m][t] # g, root[m] # g
      PROVE  Stays(g)
  <2>1. {v \in Page : pte[m][v].frame = g} = {} /\ {t \in Table : tables[m][t] = g} = {}
    BY <1>3
  <2>2. MappedBy(m, g) = 0 /\ TabledBy(m, g) = 0 /\ RootedBy(m, g) = 0
    BY <1>3, <2>1, FS_EmptySet DEF MappedBy, TabledBy, RootedBy
  <2>3. Held(m, g) = 0
    BY <2>2, HeldIs
  <2>4. page_refs'[g] = page_refs[g] - Held(m, g) /\ page_refs[g] \in Int
    BY <1>1 DEF VmmFree, Types
  <2> QED
    BY <2>3, <2>4 DEF Stays
<1>4. ASSUME NEW g \in Frame, page_refs[g] # 1 PROVE Stays(g)
  BY <1>4 DEF Stays
<1>5. ASSUME NEW n \in Space, NEW w \in Page, pte'[n][w].rw
      PROVE  pte'[n][w] = pte[n][w] /\ Stays(pte[n][w].frame)
  <2>1. n # m
    BY <1>2, <1>5, EntryFrames, <1>1 DEF Flushed
  <2>2. pte'[n][w] = pte[n][w] /\ pte[n][w].frame \in Frame
    BY <1>1, <1>2, <1>5, <2>1, EntryFrames
  <2>3. CASE page_refs[pte[n][w].frame] = 1
    BY <1>1, <1>3, <2>1, <2>2, <2>3, SoleHolder DEF Sole
  <2> QED
    BY <1>4, <2>2, <2>3
<1>6. ASSUME NEW n \in Space, NEW t \in Table, tables'[n][t] # NoFrame
      PROVE  tables'[n][t] = tables[n][t] /\ Stays(tables[n][t])
  <2>1. n # m
    BY <1>2, <1>6
  <2>2. tables'[n][t] = tables[n][t] /\ tables[n][t] \in Frame
    BY <1>1, <1>2, <1>6, <2>1, TableFrame
  <2>3. CASE page_refs[tables[n][t]] = 1
    BY <1>1, <1>3, <2>1, <2>2, <2>3, SoleHolder DEF Sole
  <2> QED
    BY <1>4, <2>2, <2>3
<1>7. ASSUME NEW n \in Space, root'[n] # NoFrame PROVE root'[n] = root[n] /\ Stays(root[n])
  <2>1. n # m
    BY <1>2, <1>7
  <2>2. root'[n] = root[n] /\ root[n] \in Frame
    BY <1>1, <1>2, <1>7, <2>1, TableFrame
  <2>3. CASE page_refs[root[n]] = 1
    BY <1>1, <1>3, <2>1, <2>2, <2>3, SoleHolder DEF Sole
  <2> QED
    BY <1>4, <2>2, <2>3
<1>8. ASSUME NEW n \in Space, io'[n].op = "read" PROVE io'[n] = io[n] /\ Stays(io[n].frame)
  <2>1. io'[n] = io[n] /\ io[n].frame \in Frame
    BY <1>1, <1>8 DEF Waits
  <2>2. CASE page_refs[io[n].frame] = 1
    BY <1>1, <1>3, <2>1, <2>2, SoleHolder DEF Sole
  <2> QED
    BY <1>4, <2>1, <2>2
<1> QED
  BY <1>1, <1>5, <1>6, <1>7, <1>8, SolesReleased

\* The counts after a free are those of the remaining holders.
LEMMA FreedCounts ==
    ASSUME IInv, NEW m \in Space, VmmFree(m), job.op # "map", job'.op # "map", UNCHANGED lost,
           \A n \in Space : io'[n].frame = io[n].frame
    PROVE  Counts'
<1> SUFFICES ASSUME NEW g \in Frame PROVE page_refs'[g] = Holders(g)' + lost'[g]
  BY DEF Counts
<1>1. page_refs'[g] = Mapped(g)' + Tabled(g)' + Rooted(g)' + Reading(g) + 0 + lost[g]
  BY Freed DEF IInv
<1>2. Reading(g)' = Reading(g)
  <2>1. {n \in Space : io'[n].frame = g} = {n \in Space : io[n].frame = g}
    OBVIOUS
  <2> QED
    BY <2>1 DEF Reading
<1>3. Mapping(g)' = 0
  BY DEF Mapping
<1> QED
  BY <1>1, <1>2, <1>3 DEF Holders

LEMMA NoJobType == NoJob \in JobSet /\ NoJob.op = "none" /\ NoIo \in IoSet /\ NoIo.op = "none"
                   /\ NoIo.frame = NoFrame
BY DEF NoJob, JobSet, NoFrame, NoIo, IoSet

\* exit and kill: the space of the process on the CPU goes.
LEMMA EndStep ==
    ASSUME IInv, NEW m \in Space, cur = m, io[m].op = "none", job.op # "map", End(m)
    PROVE  IInv'
<1>1. Types /\ Counts /\ Spaces /\ Waits
  BY DEF IInv
<1>2. /\ VmmFree(m) /\ areas' = [areas EXCEPT ![m] = <<>>] /\ status' = [status EXCEPT ![m] = "free"]
      /\ cur' = None /\ job' = NoJob /\ UNCHANGED <<tlb, io, lost>>
  BY <1>1, FreeAllowed DEF End
<1>3. job'.op = "none" /\ job' \in JobSet
  BY <1>2, NoJobType
<1>4. /\ page_refs' \in [Frame -> Int] /\ data' \in [Frame -> Val]
      /\ root' \in [Space -> Frame \cup {NoFrame}]
      /\ tables' \in [Space -> [Table -> Frame \cup {NoFrame}]]
      /\ pte' \in [Space -> [Page -> Entry]]
      /\ root'[m] = NoFrame /\ tables'[m] = [t \in Table |-> NoFrame] /\ pte'[m] = Flushed
      /\ \A n \in Space : n # m => /\ root'[n] = root[n] /\ tables'[n] = tables[n]
                                   /\ pte'[n] = pte[n]
  BY <1>1, <1>2, Freed
<1>5. /\ areas' \in [Space -> Seq(Block)] /\ areas'[m] = <<>>
      /\ status' \in [Space -> {"free", "loading", "live"}] /\ status'[m] = "free"
      /\ \A n \in Space : n # m => areas'[n] = areas[n] /\ status'[n] = status[n]
  BY <1>1, <1>2 DEF Types
<1>6. Types'
  BY <1>1, <1>2, <1>3, <1>4, <1>5 DEF Types
<1>7. Counts' /\ Soles'
  BY <1>2, <1>3, FreedCounts, FreedSoles
<1>8. status[m] = "live"
  BY <1>1, VmmAssumption DEF Spaces
<1>9. Spaces'
  <2>1. ASSUME NEW n \in Space, status'[n] = "free" PROVE Blank(n)'
    <3>1. CASE n = m
      BY <1>1, <1>2, <1>4, <1>5, <3>1 DEF Blank, Waits
    <3>2. CASE n # m
      <4>1. Blank(n)
        BY <1>1, <1>5, <2>1, <3>2 DEF Spaces
      <4>2. root'[n] = root[n] /\ tables'[n] = tables[n] /\ pte'[n] = pte[n]
            /\ areas'[n] = areas[n] /\ io'[n] = io[n]
        BY <1>2, <1>4, <1>5, <3>2
      <4> QED
        BY <4>1, <4>2 DEF Blank
    <3> QED
      BY <3>1, <3>2
  <2>2. ASSUME NEW n \in Space, NEW i \in DOMAIN areas'[n]
        PROVE  areas'[n][i] = Null \/ (i \in DOMAIN Blocks /\ areas'[n][i] = Blocks[i])
    BY <1>1, <1>5, <2>2 DEF Spaces
  <2> QED
    BY <1>2, <2>1, <2>2 DEF Spaces
<1>10. Waits'
  <2>1. \A n \in Space : io[n].op # "none" => n # m
    OBVIOUS
  <2>2. \A n \in Space : io[n].op = "exec" => io[n].next # m
    BY <1>1, <1>8 DEF Waits
  <2>3. \A n \in Space : n # m => /\ pte'[n] = pte[n] /\ areas'[n] = areas[n]
                                  /\ status'[n] = status[n]
    BY <1>4, <1>5
  <2> QED
    BY <1>1, <1>2, <2>1, <2>2, <2>3 DEF Waits
<1>11. Handling' /\ TlbCoherent'
  BY <1>2, <1>3 DEF Handling, Busy, TlbCoherent
<1> QED
  BY <1>3, <1>6, <1>7, <1>9, <1>10, <1>11 DEF IInv

LEMMA ExitStep == ASSUME IInv, NEW m \in Space, Exit(m) PROVE IInv'
BY EndStep, NoJobType DEF Exit, InUser

LEMMA FailStepIInv == ASSUME IInv, FailStep PROVE IInv'
<1>1. /\ job.op = "fail" /\ job.to \in Space /\ io[job.to].op = "none"
      /\ job.why = "user" => cur = job.to
  BY DEF FailStep, IInv, Handling, Busy
<1>2. CASE job.why = "user" /\ End(job.to)
  BY <1>1, <1>2, EndStep
<1>3. CASE /\ job' = [job EXCEPT !.op = IF job.why = "exec" THEN "panic_oom" ELSE "panic_fault"]
           /\ UNCHANGED <<page_refs, data, spaceVars, cur, tlb, io, lost>>
  <2>1. UNCHANGED <<root, tables, pte, areas, status>>
    BY <1>3 DEF spaceVars
  <2>2. \E x \in Halts \ {"panic_free"} : job' = [job EXCEPT !.op = x]
    <3>1. CASE job.why = "exec"
      BY <1>3, <3>1 DEF Halts
    <3>2. CASE job.why # "exec"
      BY <1>3, <3>2 DEF Halts
    <3> QED
      BY <3>1, <3>2
  <2> QED
    BY <1>1, <1>3, <2>1, <2>2, HaltStep
<1> QED
  BY <1>2, <1>3 DEF FailStep

\* The new space of an exec() that failed goes.
LEMMA ExecFailsStep == ASSUME IInv, NEW m \in Space, ExecFails(m) PROVE IInv'
<1> DEFINE n == io[m].next
<1>1. Types /\ Counts /\ Spaces /\ Waits
  BY DEF IInv
<1>2. /\ cur = m /\ job.op = "none" /\ io[m].op = "exec"
      /\ n \in Space /\ status[n] = "loading" /\ areas[n] = <<>> /\ status[m] = "live" /\ n # m
  BY <1>1 DEF ExecFails, Waits
<1>3. /\ VmmFree(n) /\ status' = [status EXCEPT ![n] = "free"] /\ io' = [io EXCEPT ![m] = NoIo]
      /\ UNCHANGED <<areas, cur, tlb, job, lost>>
  BY <1>1, <1>2, FreeAllowed DEF ExecFails
<1>4. /\ page_refs' \in [Frame -> Int] /\ data' \in [Frame -> Val]
      /\ root' \in [Space -> Frame \cup {NoFrame}]
      /\ tables' \in [Space -> [Table -> Frame \cup {NoFrame}]]
      /\ pte' \in [Space -> [Page -> Entry]]
      /\ root'[n] = NoFrame /\ tables'[n] = [t \in Table |-> NoFrame] /\ pte'[n] = Flushed
      /\ \A k \in Space : k # n => /\ root'[k] = root[k] /\ tables'[k] = tables[k]
                                   /\ pte'[k] = pte[k]
  BY <1>1, <1>2, <1>3, Freed
<1>5. /\ status' \in [Space -> {"free", "loading", "live"}] /\ status'[n] = "free"
      /\ io' \in [Space -> IoSet] /\ io'[m] = NoIo
      /\ \A k \in Space : k # n => status'[k] = status[k]
      /\ \A k \in Space : k # m => io'[k] = io[k]
  BY <1>1, <1>2, <1>3, NoJobType DEF Types
<1>6. Types'
  BY <1>1, <1>3, <1>4, <1>5 DEF Types
<1>7. io[n] = NoIo
  BY <1>1, <1>2 DEF Waits, Types, IoSet
<1>8. Counts'
  <2>1. \A k \in Space : io'[k].frame = io[k].frame
    BY <1>1, <1>2, <1>5, NoJobType DEF Waits
  <2> QED
    BY <1>2, <1>3, <2>1, FreedCounts
<1>9. Soles'
  <2>1. \A k \in Space : io'[k] = io[k] \/ io'[k].op # "read"
    BY <1>5, NoJobType
  <2> QED
    BY <1>2, <1>3, <2>1, FreedSoles
<1>10. Spaces'
  <2>1. ASSUME NEW k \in Space, status'[k] = "free" PROVE Blank(k)'
    <3>1. CASE k = n
      BY <1>2, <1>3, <1>4, <1>5, <1>7, <3>1 DEF Blank
    <3>2. CASE k # n
      <4>1. Blank(k) /\ k # m
        BY <1>1, <1>2, <1>5, <2>1, <3>2 DEF Spaces
      <4>2. root'[k] = root[k] /\ tables'[k] = tables[k] /\ pte'[k] = pte[k]
            /\ areas'[k] = areas[k] /\ io'[k] = io[k]
        BY <1>3, <1>4, <1>5, <3>2, <4>1
      <4> QED
        BY <4>1, <4>2 DEF Blank
    <3> QED
      BY <3>1, <3>2
  <2> QED
    BY <1>1, <1>2, <1>3, <1>5, <2>1 DEF Spaces
<1>11. Waits'
  <2>1. \A k \in Space : io'[k].op # "none" => k # m /\ k # n /\ io'[k] = io[k]
    BY <1>5, <1>7, NoJobType
  <2>2. \A k \in Space : io'[k].op # "exec"
    BY <1>1, <1>2, <2>1 DEF Waits
  <2>3. \A k \in Space : k # n => pte'[k] = pte[k] /\ status'[k] = status[k]
    BY <1>4, <1>5
  <2>4. \A k \in Space : io'[k].op # "read" => io'[k].frame = NoFrame
    BY <1>1, <1>5, NoJobType DEF Waits
  <2>5. \A k \in Space : io'[k].op = "none" => io'[k] = NoIo
    BY <1>1, <1>5 DEF Waits
  <2> QED
    BY <1>1, <2>1, <2>2, <2>3, <2>4, <2>5 DEF Waits
<1>12. Handling'
  BY <1>2, <1>3 DEF Handling, Busy
<1>13. TlbCoherent'
  BY <1>2, <1>3, <1>4 DEF IInv, TlbCoherent
<1> QED
  BY <1>2, <1>3, <1>6, <1>8, <1>9, <1>10, <1>11, <1>12, <1>13 DEF IInv

\* The old space of an exec() goes, and the new one gets its blocks.
LEMMA ExecCommitsStep == ASSUME IInv, NEW m \in Space, ExecCommits(m) PROVE IInv'
<1> DEFINE n == io[m].next
           j == [NoJob EXCEPT !.op = "demand", !.to = n, !.rw = TRUE, !.page = StackTop, !.why = "exec"]
<1>1. Types /\ Counts /\ Spaces /\ Waits
  BY DEF IInv
<1>2. /\ cur = m /\ job.op = "none" /\ io[m].op = "exec"
      /\ n \in Space /\ status[n] = "loading" /\ areas[n] = <<>> /\ status[m] = "live" /\ n # m
  BY <1>1 DEF ExecCommits, Waits
<1>3. /\ VmmFree(m) /\ areas' = [areas EXCEPT ![m] = <<>>, ![n] = Image]
      /\ status' = [status EXCEPT ![m] = "free"]
      /\ io' = [io EXCEPT ![m] = NoIo] /\ cur' = None /\ job' = j /\ UNCHANGED <<tlb, lost>>
  BY <1>1, FreeAllowed DEF ExecCommits
<1>4. /\ page_refs' \in [Frame -> Int] /\ data' \in [Frame -> Val]
      /\ root' \in [Space -> Frame \cup {NoFrame}]
      /\ tables' \in [Space -> [Table -> Frame \cup {NoFrame}]]
      /\ pte' \in [Space -> [Page -> Entry]]
      /\ root'[m] = NoFrame /\ tables'[m] = [t \in Table |-> NoFrame] /\ pte'[m] = Flushed
      /\ \A k \in Space : k # m => /\ root'[k] = root[k] /\ tables'[k] = tables[k]
                                   /\ pte'[k] = pte[k]
  BY <1>1, <1>2, <1>3, Freed
<1>5. /\ status' \in [Space -> {"free", "loading", "live"}] /\ status'[m] = "free"
      /\ io' \in [Space -> IoSet] /\ io'[m] = NoIo
      /\ areas' \in [Space -> Seq(Block)] /\ areas'[m] = <<>> /\ areas'[n] = Image
      /\ \A k \in Space : k # m => status'[k] = status[k] /\ io'[k] = io[k]
      /\ \A k \in Space : k # m /\ k # n => areas'[k] = areas[k]
  BY <1>1, <1>2, <1>3, NoJobType, ImageBlocks DEF Types
<1>6. /\ job'.op = "demand" /\ job'.to = n /\ job'.page = StackTop /\ job'.why = "exec"
      /\ job' \in JobSet
  BY <1>2, <1>3, ImageBlocks DEF NoJob, JobSet, NoFrame
<1>7. Types'
  BY <1>1, <1>3, <1>4, <1>5, <1>6 DEF Types
<1>8. io[n] = NoIo
  BY <1>1, <1>2 DEF Waits, Types, IoSet
<1>9. Counts'
  <2>1. io'[m] = NoIo /\ \A k \in Space : k # m => io'[k] = io[k]
    BY <1>5
  <2>2. io[m].frame = NoFrame
    BY <1>1, <1>2 DEF Waits
  <2>3. \A k \in Space : io'[k].frame = io[k].frame
    BY <2>1, <2>2, NoJobType
  <2> QED
    BY <1>2, <1>3, <1>6, <2>3, FreedCounts
<1>10. Soles'
  <2>1. \A k \in Space : io'[k] = io[k] \/ io'[k].op # "read"
    BY <1>5, NoJobType
  <2> QED
    BY <1>2, <1>3, <1>6, <2>1, FreedSoles
<1>11. Spaces'
  <2>1. ASSUME NEW k \in Space, status'[k] = "free" PROVE Blank(k)'
    <3>1. CASE k = m
      BY <1>4, <1>5, <3>1 DEF Blank
    <3>2. CASE k # m
      <4>1. Blank(k) /\ k # n
        BY <1>1, <1>2, <1>5, <2>1, <3>2 DEF Spaces
      <4>2. root'[k] = root[k] /\ tables'[k] = tables[k] /\ pte'[k] = pte[k]
            /\ areas'[k] = areas[k] /\ io'[k] = io[k]
        BY <1>4, <1>5, <3>2, <4>1
      <4> QED
        BY <4>1, <4>2 DEF Blank
    <3> QED
      BY <3>1, <3>2
  <2>2. ASSUME NEW k \in Space, NEW i \in DOMAIN areas'[k]
        PROVE  areas'[k][i] = Null \/ (i \in DOMAIN Blocks /\ areas'[k][i] = Blocks[i])
    <3>1. CASE k = m
      BY <1>5, <2>2, <3>1
    <3>2. CASE k = n
      BY <1>5, <2>2, <3>2, ImageBlocks
    <3>3. CASE k # m /\ k # n
      BY <1>1, <1>5, <2>2, <3>3 DEF Spaces
    <3> QED
      BY <3>1, <3>2, <3>3
  <2> QED
    BY <1>3, <2>1, <2>2 DEF Spaces
<1>12. Waits'
  <2>1. \A k \in Space : io'[k].op # "none" => k # m /\ k # n /\ io'[k] = io[k]
    BY <1>5, <1>8, NoJobType
  <2>2. \A k \in Space : io'[k].op # "exec"
    BY <1>1, <1>2, <2>1 DEF Waits
  <2>3. \A k \in Space : k # m => pte'[k] = pte[k] /\ status'[k] = status[k]
    BY <1>4, <1>5
  <2>4. io'[m] = NoIo /\ \A k \in Space : k # m => io'[k] = io[k]
    BY <1>5
  <2>5. \A k \in Space : io'[k].op # "read" => io'[k].frame = NoFrame
    BY <1>1, <2>4, NoJobType DEF Waits
  <2>6. \A k \in Space : io'[k].op = "none" => io'[k] = NoIo
    BY <1>1, <2>4 DEF Waits
  <2> QED
    BY <1>1, <2>1, <2>2, <2>3, <2>5, <2>6 DEF Waits
<1>13. Handling'
  <2>1. \A k \in Space : io'[k].op # "exec"
    BY <1>1, <1>2, <1>5, NoJobType DEF Waits
  <2>2. io'[n].op = "none" /\ status'[n] = "loading" /\ areas'[n] = Image
    BY <1>2, <1>5, <1>8, NoJobType
  <2> QED
    BY <1>2, <1>3, <1>6, <2>1, <2>2, ImageBlocks DEF Handling
<1>14. TlbCoherent'
  BY <1>3 DEF TlbCoherent
<1> QED
  BY <1>6, <1>7, <1>9, <1>10, <1>11, <1>12, <1>13, <1>14 DEF IInv

-----------------------------------------------------------------------------
(* New spaces                                                              *)

\* vmm_map_new for fork and exec, whatever they do next.
LEMMA NewSpaceKept ==
    ASSUME IInv, NEW n \in Space, NEW f \in Frame, status[n] = "free", NewSpace(n, f),
           job.op = "none", job'.op # "map", job' \in JobSet, io' \in [Space -> IoSet],
           \A k \in Space : io'[k].frame = io[k].frame,
           \A k \in Space : io'[k] = io[k] \/ (io'[k].op = "exec" /\ status[k] # "free"),
           UNCHANGED <<cur, tlb, lost>>
    PROVE  /\ Types' /\ Counts' /\ Soles' /\ Spaces' /\ TlbCoherent'
           /\ areas[n] = <<>> /\ pte[n] = Flushed /\ io[n] = NoIo
           /\ status'[n] = "loading" /\ \A k \in Space : k # n => status'[k] = status[k]
<1>1. Types /\ Counts /\ Spaces /\ TlbCoherent
  BY DEF IInv
<1>2. Blank(n)
  BY <1>1 DEF Spaces
<1>3. /\ FirstFree(f) /\ page_refs' = [page_refs EXCEPT ![f] = 1]
      /\ data' = [data EXCEPT ![f] = Zero] /\ root' = [root EXCEPT ![n] = f]
      /\ status' = [status EXCEPT ![n] = "loading"] /\ UNCHANGED <<tables, pte, areas>>
  BY DEF NewSpace
<1>4. /\ page_refs' \in [Frame -> Int] /\ data' \in [Frame -> Val] /\ page_refs'[f] = 1
      /\ \A g \in Frame : page_refs'[g] = page_refs[g] + (IF f = g THEN 1 ELSE 0)
      /\ \A g \in Frame : page_refs[g] = 1 => page_refs'[g] = 1
  BY <1>1, <1>3, Taken
<1>5. /\ root' \in [Space -> Frame \cup {NoFrame}] /\ root'[n] = f
      /\ status' \in [Space -> {"free", "loading", "live"}] /\ status'[n] = "loading"
      /\ \A k \in Space : k # n => root'[k] = root[k] /\ status'[k] = status[k]
  BY <1>1, <1>3 DEF Types
<1>6. Types'
  BY <1>1, <1>3, <1>4, <1>5 DEF Types
<1>7. Counts'
  <2> SUFFICES ASSUME NEW g \in Frame PROVE page_refs'[g] = Holders(g)' + lost'[g]
    BY DEF Counts
  <2>1. Mapped(g)' = Mapped(g) /\ Tabled(g)' = Tabled(g)
    BY <1>3 DEF Mapped, Tabled
  <2>2. Reading(g)' = Reading(g)
    <3>1. {k \in Space : io'[k].frame = g} = {k \in Space : io[k].frame = g}
      OBVIOUS
    <3> QED
      BY <3>1 DEF Reading
  <2>3. Mapping(g) = 0 /\ Mapping(g)' = 0
    BY DEF Mapping
  <2>4. Rooted(g) \in Nat /\ Rooted(g)' \in Nat
        /\ Rooted(g)' + (IF root[n] = g THEN 1 ELSE 0) = Rooted(g) + (IF f = g THEN 1 ELSE 0)
    <3>1. Planted(n, f)
      BY <1>3 DEF Planted
    <3> QED
      BY <1>1, <3>1, RootedChange
  <2>5. root[n] # g
    BY <1>1, <1>2, EntryFrames DEF Blank
  <2>6. page_refs[g] = Mapped(g) + Tabled(g) + Rooted(g) + Reading(g) + Mapping(g) + lost[g]
    BY <1>1 DEF Counts, Holders
  <2>7. Mapped(g) \in Nat /\ Tabled(g) \in Nat /\ Reading(g) \in Nat /\ lost[g] \in Nat
    BY <1>1, CountTypes DEF Types
  <2>8. page_refs'[g] = page_refs[g] + (IF f = g THEN 1 ELSE 0)
    BY <1>4
  <2>9. page_refs'[g] = Mapped(g) + Tabled(g) + Rooted(g)' + Reading(g) + 0 + lost[g]
    BY <2>3, <2>4, <2>5, <2>6, <2>7, <2>8
  <2> QED
    BY <2>1, <2>2, <2>3, <2>9 DEF Holders
<1>8. Soles'
  <2>1. \A k \in Space : io'[k] = io[k] \/ io'[k].op # "read"
    OBVIOUS
  <2>2. \A k \in Space : root'[k] \in {root[k], NoFrame} \/ page_refs'[root'[k]] = 1
    BY <1>4, <1>5
  <2> QED
    BY <1>3, <1>4, <2>1, <2>2, SolesKept
<1>9. Spaces'
  <2>1. ASSUME NEW k \in Space, status'[k] = "free" PROVE Blank(k)'
    <3>1. k # n /\ status[k] = "free" /\ Blank(k)
      BY <1>1, <1>5, <2>1 DEF Spaces
    <3>2. root'[k] = root[k] /\ tables'[k] = tables[k] /\ pte'[k] = pte[k]
          /\ areas'[k] = areas[k] /\ io'[k] = io[k]
      BY <1>3, <1>5, <3>1
    <3> QED
      BY <3>1, <3>2 DEF Blank
  <2>2. cur # None => cur \in Space /\ status[cur] = "live" /\ cur # n
    BY <1>1 DEF Spaces, Types
  <2> QED
    BY <1>1, <1>3, <1>5, <2>1, <2>2 DEF Spaces
<1>10. TlbCoherent'
  BY <1>1, <1>3 DEF TlbCoherent
<1> QED
  BY <1>2, <1>5, <1>6, <1>7, <1>8, <1>9, <1>10 DEF Blank

LEMMA NoSpaceStep ==
    ASSUME IInv, job.op = "none", NoSpace, UNCHANGED <<cur, tlb, lost>> PROVE IInv'
BY HaltStep DEF NoSpace, spaceVars, Halts

LEMMA ForkStep == ASSUME IInv, NEW m \in Space, NEW n \in Space, Fork(m, n) PROVE IInv'
<1>1. /\ cur = m /\ job.op = "none" /\ io[m] = NoIo /\ status[n] = "free"
      /\ UNCHANGED <<cur, tlb, lost>>
  BY DEF Fork, InUser
<1>2. CASE NoSpace
  BY <1>1, <1>2, NoSpaceStep
<1>3. ASSUME NEW f \in Frame, NewSpace(n, f), UNCHANGED io,
             job' = [NoJob EXCEPT !.op = "share", !.to = n, !.why = "fork", !.todo = PagesOf(m, 1)]
      PROVE  IInv'
  <2>1. Types /\ Spaces /\ Waits
    BY DEF IInv
  <2>2. /\ job'.op = "share" /\ job'.to = n /\ job'.why = "fork" /\ job'.todo = PagesOf(m, 1)
        /\ job' \in JobSet
    <3>1. PagesOf(m, 1) \subseteq Page
      BY <2>1, PagesOfType
    <3> QED
      BY <1>3, <3>1 DEF NoJob, JobSet, NoFrame
  <2>3. /\ Types' /\ Counts' /\ Soles' /\ Spaces' /\ TlbCoherent'
        /\ areas[n] = <<>> /\ pte[n] = Flushed /\ io[n] = NoIo
        /\ status'[n] = "loading" /\ \A k \in Space : k # n => status'[k] = status[k]
    <3>1. io \in [Space -> IoSet]
      BY <2>1 DEF Types
    <3> QED
      BY <1>1, <1>3, <2>2, <3>1, NewSpaceKept
  <2>4. UNCHANGED <<pte, areas, io>>
    BY <1>3 DEF NewSpace
  <2>5. status[m] = "live" /\ m # n /\ m # None
    BY <1>1, <2>1, VmmAssumption DEF Spaces
  <2>6. \A k \in Space : io[k].op = "exec" => io[k].next # n
    BY <1>1, <2>1 DEF Waits
  <2>7. Waits'
    <3>1. \A k \in Space : io[k].op # "none" => status'[k] = "live"
      BY <2>1, <2>3, NoJobType DEF Waits
    <3>2. \A k \in Space : io[k].op = "exec" => status'[io[k].next] = "loading"
      BY <2>1, <2>3, <2>6 DEF Waits
    <3> QED
      BY <2>1, <2>4, <3>1, <3>2 DEF Waits
  <2>8. Handling'
    <3>1. Len(areas'[n]) + 1 = 1
      BY <2>3, <2>4
    <3>2. PagesOf(cur, Len(areas[job.to]) + 1)' = PagesOf(m, 1)
      BY <1>1, <2>2, <2>4, <3>1 DEF PagesOf
    <3>3. \A w \in Page : pte'[n][w] = NoPte
      BY <2>3, <2>4 DEF Flushed
    <3>4. Forking'
      BY <1>1, <2>2, <2>3, <2>4, <2>5, <3>2, <3>3, NoJobType DEF Forking
    <3> QED
      BY <2>2, <2>3, <2>4, <2>6, <3>4, NoJobType DEF Handling
  <2> QED
    BY <2>2, <2>3, <2>7, <2>8 DEF IInv
<1> QED
  BY <1>2, <1>3 DEF Fork

LEMMA ExecStep == ASSUME IInv, NEW m \in Space, NEW n \in Space, Exec(m, n) PROVE IInv'
<1>1. /\ cur = m /\ job.op = "none" /\ io[m] = NoIo /\ status[n] = "free"
      /\ \A k \in Space : io[k].op # "exec"
      /\ UNCHANGED <<cur, tlb, lost>>
  BY DEF Exec, InUser
<1>2. CASE NoSpace
  BY <1>1, <1>2, NoSpaceStep
<1>3. ASSUME NEW f \in Frame, NewSpace(n, f), UNCHANGED job,
             io' = [io EXCEPT ![m] = [NoIo EXCEPT !.op = "exec", !.next = n]]
      PROVE  IInv'
  <2> DEFINE e == [NoIo EXCEPT !.op = "exec", !.next = n]
  <2>1. Types /\ Spaces /\ Waits
    BY DEF IInv
  <2>2. e.op = "exec" /\ e.next = n /\ e.frame = NoFrame /\ e \in IoSet
    BY DEF NoIo, IoSet
  <2> HIDE DEF e
  <2>3. /\ io' \in [Space -> IoSet] /\ io'[m] = e
        /\ \A k \in Space : k # m => io'[k] = io[k]
    <3>1. io' = [io EXCEPT ![m] = e]
      BY <1>3 DEF e
    <3> QED
      BY <2>1, <2>2, <3>1 DEF Types
  <2>4. status[m] = "live" /\ m # n /\ m # None
    BY <1>1, <2>1, VmmAssumption DEF Spaces
  <2>5. /\ Types' /\ Counts' /\ Soles' /\ Spaces' /\ TlbCoherent'
        /\ areas[n] = <<>> /\ pte[n] = Flushed /\ io[n] = NoIo
        /\ status'[n] = "loading" /\ \A k \in Space : k # n => status'[k] = status[k]
    <3>1. \A k \in Space : io'[k].frame = io[k].frame
      BY <1>1, <2>2, <2>3, NoJobType
    <3>2. \A k \in Space : io'[k] = io[k] \/ (io'[k].op = "exec" /\ status[k] # "free")
      BY <2>2, <2>3, <2>4
    <3>3. job' \in JobSet
      BY <1>3, <2>1 DEF Types
    <3> QED
      BY <1>1, <1>3, <2>3, <3>1, <3>2, <3>3, NewSpaceKept
  <2>6. UNCHANGED <<pte, areas>>
    BY <1>3 DEF NewSpace
  <2>7. Waits'
    <3>1. \A k \in Space : io'[k].op # "none" => status'[k] = "live"
      BY <2>1, <2>3, <2>4, <2>5, NoJobType DEF Waits
    <3>2. \A k \in Space : io'[k].op # "read" => io'[k].frame = NoFrame
      BY <2>1, <2>2, <2>3 DEF Waits
    <3>3. \A k \in Space : io'[k].op = "none" => io'[k] = NoIo
      BY <2>1, <2>2, <2>3 DEF Waits
    <3>4. \A k \in Space : io'[k].op = "read" => k # m /\ io'[k] = io[k]
      BY <2>2, <2>3
    <3>5. \A k \in Space : io'[k].op = "exec" => k = m
      BY <1>1, <2>3
    <3> QED
      BY <2>1, <2>2, <2>3, <2>5, <2>6, <3>1, <3>2, <3>3, <3>4, <3>5 DEF Waits
  <2>8. Handling'
    BY <1>1, <1>3 DEF Handling, Busy
  <2> QED
    BY <1>1, <1>3, <2>5, <2>7, <2>8 DEF IInv
<1> QED
  BY <1>2, <1>3 DEF Exec

-----------------------------------------------------------------------------
(* fork: sharing the pages                                                 *)

\* The page is removed from what is left of the block.
LEMMA LeftLess ==
    ASSUME IInv, job.op = "share", NEW v \in Page, NextPage(v),
           job'.todo = job.todo \ {v}, job'.to = job.to, UNCHANGED <<areas, cur>>
    PROVE  /\ job'.todo \subseteq PagesOf(cur, Len(areas[job.to]) + 1) /\ job'.todo \subseteq Page
           /\ v \in PagesOf(cur, Len(areas[job.to]) + 1)
           /\ pte[job.to][v] = NoPte /\ ~Left(v)'
           /\ \A w \in Page : Left(w)' => pte[job.to][w] = NoPte
<1> DEFINE k == Len(areas[job.to]) + 1
<1>1. job.why = "fork"
  BY DEF IInv, Handling, Busy
<1>2. /\ Forking /\ job.to \in Space /\ cur \in Space /\ v \in job.todo
  BY <1>1, ForkHandling DEF NextPage
<1>3. v \in PagesOf(cur, k) /\ job.todo \subseteq Page
  BY <1>2 DEF Forking, IInv, Types, JobSet
<1>4. ASSUME NEW w \in Page, Left(w)' PROVE Left(w)
  BY <1>4 DEF Left
<1>5. ASSUME NEW i \in DOMAIN areas[cur], i > k, v \in areas[cur][i].pages PROVE FALSE
  <2>1. k \in DOMAIN areas[cur] /\ v \in areas[cur][k].pages
    BY <1>3 DEF PagesOf
  <2>2. i = k
    BY <1>2, <1>5, <2>1, BlocksApart DEF IInv
  <2>3. k \in Int
    BY <1>2 DEF IInv, Types
  <2> QED
    BY <1>5, <2>2, <2>3
<1>6. ~Left(v)'
  BY <1>5 DEF Left
<1>7. Left(v)
  BY <1>2 DEF Left
<1>8. \A w \in Page : Left(w) => pte[job.to][w] = NoPte
  BY <1>2 DEF Forking
<1> QED
  BY <1>2, <1>3, <1>4, <1>6, <1>7, <1>8 DEF Forking

\* Sharing takes the right to write away and leaves the frame.
LEMMA DowngradedEntry ==
    ASSUME NEW e \in Pte
    PROVE  /\ Downgraded(e) \in Entry /\ Downgraded(e).frame = e.frame /\ ~Downgraded(e).rw
           /\ ~e.rw => Downgraded(e) = e
<1> DEFINE c == e.rw \/ e.cow
<1>1. Downgraded(e) = [e EXCEPT !.rw = FALSE, !.cow = c]
  BY DEF Downgraded
<1>2. c \in BOOLEAN
  OBVIOUS
<1>3. e.frame \in Frame /\ e.rw \in BOOLEAN /\ e.cow \in BOOLEAN
  BY DEF Pte
<1>4. ~e.rw => c = e.cow
  BY <1>3, Zenon
<1> HIDE DEF c
<1>5. Downgraded(e) \in Pte /\ Downgraded(e).frame = e.frame /\ ~Downgraded(e).rw
  BY <1>1, <1>2 DEF Pte
<1>6. ASSUME ~e.rw PROVE Downgraded(e) = e
  BY <1>1, <1>3, <1>4, <1>6 DEF Pte
<1> QED
  BY <1>5, <1>6 DEF Entry

\* The reference that is retained is that of the handler until it has mapped the page.
LEMMA SharePageStep == ASSUME IInv, SharePage PROVE IInv'
<1> DEFINE n == job.to
<1>1. job.op = "share" /\ UNCHANGED <<data, root, tables, areas, status, cur, io, lost>>
  BY DEF SharePage
<1>2. /\ job.why = "fork" /\ job \in JobSet
      /\ Types /\ Counts /\ Soles /\ Spaces /\ Waits /\ TlbCoherent
  BY <1>1 DEF IInv, Handling, Busy, Types
<1>3. /\ n \in Space /\ io[n].op = "none" /\ Forking /\ status[n] = "loading"
      /\ cur \in Space /\ cur # n /\ io[cur].op = "none" /\ status[cur] = "live"
      /\ \A k \in Space : io[k].op = "exec" => io[k].next # n
  BY <1>1, <1>2, ForkHandling
<1>4. PICK v \in Page :
          /\ NextPage(v)
          /\ \/ /\ pte[cur][v] = NoPte /\ job' = [job EXCEPT !.todo = @ \ {v}]
                /\ UNCHANGED <<page_refs, pte, tlb>>
             \/ /\ pte[cur][v] # NoPte /\ page_refs' = Retained(pte[cur][v].frame)
                /\ pte' = [pte EXCEPT ![cur][v] = Downgraded(pte[cur][v])]
                /\ tlb' = IF pte[cur][v].rw THEN Invlpg(v) ELSE tlb
                /\ job' = [job EXCEPT !.op = "map", !.page = v, !.rw = FALSE,
                              !.frame = pte[cur][v].frame,
                              !.cow = pte[cur][v].rw \/ pte[cur][v].cow, !.todo = @ \ {v}]
             \/ /\ job' = [job EXCEPT !.op = "panic_retain"]
                /\ UNCHANGED <<page_refs, pte, tlb>>
  BY DEF SharePage
<1> DEFINE e == pte[cur][v]
           d == Downgraded(e)
<1>5. CASE /\ e = NoPte /\ job' = [job EXCEPT !.todo = @ \ {v}]
           /\ UNCHANGED <<page_refs, pte, tlb>>
  <2>1. /\ job'.op = "share" /\ job'.to = n /\ job'.why = "fork" /\ job'.todo = job.todo \ {v}
    BY <1>1, <1>2, <1>5 DEF JobSet
  <2>2. /\ job'.todo \subseteq PagesOf(cur, Len(areas[n]) + 1) /\ job'.todo \subseteq Page
        /\ \A w \in Page : Left(w)' => pte[n][w] = NoPte
    BY <1>1, <1>4, <2>1, LeftLess
  <2>3. job' \in JobSet
    BY <1>2, <1>5, <2>1, <2>2 DEF JobSet
  <2>4. Forking'
    BY <1>1, <1>3, <1>5, <2>1, <2>2 DEF Forking, PagesOf
  <2>5. Handling'
    BY <1>1, <1>3, <2>1, <2>4 DEF Handling
  <2> QED
    BY <1>1, <1>5, <2>1, <2>3, <2>5, OnlyJob
<1>6. CASE /\ e # NoPte /\ page_refs' = Retained(e.frame)
           /\ pte' = [pte EXCEPT ![cur][v] = d] /\ tlb' = IF e.rw THEN Invlpg(v) ELSE tlb
           /\ job' = [job EXCEPT !.op = "map", !.page = v, !.rw = FALSE, !.frame = e.frame,
                                 !.cow = e.rw \/ e.cow, !.todo = @ \ {v}]
  <2>1. e \in Pte /\ e.frame \in Frame /\ e.rw \in BOOLEAN /\ e.cow \in BOOLEAN
    <3>1. e \in Entry
      BY <1>2, <1>3, EntryFrames
    <3>2. e \in Pte
      BY <1>6, <3>1 DEF Entry
    <3> QED
      BY <3>2 DEF Pte
  <2>2. d \in Entry /\ d.frame = e.frame /\ ~d.rw /\ (~e.rw => d = e)
    BY <2>1, DowngradedEntry
  <2>3. Entered(cur, v, d)
    BY <1>6 DEF Entered
  <2> HIDE DEF d
  <2>4. /\ pte' \in [Space -> [Page -> Entry]] /\ pte'[cur][v] = d
        /\ \A k \in Space, w \in Page : ~(k = cur /\ w = v) => pte'[k][w] = pte[k][w]
        /\ \A k \in Space : k # cur => pte'[k] = pte[k]
    BY <1>2, <1>3, <2>2, <2>3, EntrySet
  <2>5. /\ job'.op = "map" /\ job'.to = n /\ job'.why = "fork" /\ job'.todo = job.todo \ {v}
        /\ job'.page = v /\ job'.frame = e.frame /\ job'.rw = FALSE
    BY <1>2, <1>6 DEF JobSet
  <2>6. /\ job'.todo \subseteq PagesOf(cur, Len(areas[n]) + 1) /\ job'.todo \subseteq Page
        /\ v \in PagesOf(cur, Len(areas[n]) + 1) /\ pte[n][v] = NoPte /\ ~Left(v)'
        /\ \A w \in Page : Left(w)' => pte[n][w] = NoPte
    BY <1>1, <1>4, <2>5, LeftLess
  <2>7. job' \in JobSet
    <3>1. (e.rw \/ e.cow) \in BOOLEAN /\ (job.todo \ {v}) \subseteq Page
      BY <2>5, <2>6
    <3> QED
      BY <1>2, <1>6, <2>1, <3>1 DEF JobSet
  <2>8. /\ page_refs' \in [Frame -> Int]
        /\ \A g \in Frame : page_refs'[g] = page_refs[g] + (IF e.frame = g THEN 1 ELSE 0)
    BY <1>2, <1>6, <2>1 DEF Retained, Types
  <2>9. tlb' \in [Page -> Entry]
    BY <1>2, <1>6 DEF Types, Invlpg, Entry
  <2>10. Types'
    BY <1>1, <1>2, <2>4, <2>7, <2>8, <2>9 DEF Types
  <2>11. Counts'
    <3> SUFFICES ASSUME NEW g \in Frame PROVE page_refs'[g] = Holders(g)' + lost'[g]
      BY DEF Counts
    <3>1. /\ Mapped(g) \in Nat /\ Mapped(g)' \in Nat
          /\ Mapped(g)' + (IF e.frame = g THEN 1 ELSE 0) = Mapped(g) + (IF d.frame = g THEN 1 ELSE 0)
      BY <1>2, <1>3, <2>3, MappedChange
    <3>2. Tabled(g)' = Tabled(g) /\ Rooted(g)' = Rooted(g) /\ Reading(g)' = Reading(g)
      BY <1>1 DEF Tabled, Rooted, Reading
    <3>3. Mapping(g) = 0 /\ Mapping(g)' = IF e.frame = g THEN 1 ELSE 0
      BY <1>1, <2>5 DEF Mapping
    <3>4. page_refs[g] = Mapped(g) + Tabled(g) + Rooted(g) + Reading(g) + Mapping(g) + lost[g]
      BY <1>2 DEF Counts, Holders
    <3>5. Tabled(g) \in Nat /\ Rooted(g) \in Nat /\ Reading(g) \in Nat /\ lost[g] \in Nat
      BY <1>2, CountTypes DEF Types
    <3>6. Mapped(g)' = Mapped(g)
      BY <2>2, <3>1
    <3>7. page_refs'[g] = page_refs[g] + (IF e.frame = g THEN 1 ELSE 0)
      BY <2>8
    <3>8. page_refs'[g] = Mapped(g) + Tabled(g) + Rooted(g) + Reading(g) + Mapping(g)' + lost[g]
      BY <3>1, <3>3, <3>4, <3>5, <3>7
    <3> QED
      BY <1>1, <3>2, <3>6, <3>8 DEF Holders
  <2>12. Soles'
    <3>1. \A g \in Frame : g # e.frame => Stays(g)
      <4> SUFFICES ASSUME NEW g \in Frame, g # e.frame PROVE Stays(g)
        OBVIOUS
      <4>1. page_refs[g] \in Int /\ page_refs'[g] = page_refs[g] + 0
        BY <1>2, <2>8 DEF Types
      <4> QED
        BY <4>1 DEF Stays
    <3>2. page_refs[e.frame] # 1 => Stays(e.frame)
      BY DEF Stays
    <3>3. page_refs[e.frame] = 1 =>
              /\ \A k \in Space, w \in Page : pte[k][w].frame = e.frame => k = cur /\ w = v
              /\ \A k \in Space, t \in Table : tables[k][t] # e.frame
              /\ \A k \in Space : root[k] # e.frame /\ io[k].frame # e.frame
      BY <1>2, <1>3, <2>1, SoleHolder DEF Sole
    <3>4. ASSUME NEW k \in Space, NEW w \in Page, pte'[k][w].rw
          PROVE  pte'[k][w] = pte[k][w] /\ Stays(pte[k][w].frame)
      <4>1. ~(k = cur /\ w = v)
        BY <2>2, <2>4, <3>4
      <4>2. pte'[k][w] = pte[k][w] /\ pte[k][w].frame \in Frame
        BY <1>2, <2>4, <3>4, <4>1, EntryFrames
      <4> QED
        BY <3>1, <3>2, <3>3, <4>1, <4>2
    <3>5. ASSUME NEW k \in Space, NEW t \in Table, tables'[k][t] # NoFrame
          PROVE  tables'[k][t] = tables[k][t] /\ Stays(tables[k][t])
      BY <1>1, <1>2, <3>1, <3>2, <3>3, <3>5, TableFrame
    <3>6. ASSUME NEW k \in Space, root'[k] # NoFrame PROVE root'[k] = root[k] /\ Stays(root[k])
      BY <1>1, <1>2, <3>1, <3>2, <3>3, <3>6, TableFrame
    <3>7. ASSUME NEW k \in Space, io'[k].op = "read" PROVE io'[k] = io[k] /\ Stays(io[k].frame)
      BY <1>1, <1>2, <3>1, <3>2, <3>3, <3>7 DEF Waits
    <3> QED
      BY <1>2, <2>5, <3>4, <3>5, <3>6, <3>7, SolesReleased
  <2>13. Spaces'
    BY <1>1, <1>2, <1>3, <2>4 DEF Spaces, Blank
  <2>14. Waits'
    BY <1>1, <1>2, <1>3, <2>4 DEF Waits
  <2>15. TlbCoherent'
    <3>1. ASSUME NEW w \in Page, tlb'[w] # NoPte PROVE tlb'[w] = pte'[cur][w]
      <4>1. CASE w # v
        <5>1. tlb'[w] = tlb[w] /\ pte'[cur][w] = pte[cur][w]
          BY <1>2, <1>3, <1>6, <2>4, <4>1 DEF Invlpg, Types
        <5> QED
          BY <1>2, <1>3, <3>1, <5>1, VmmAssumption DEF TlbCoherent
      <4>2. CASE w = v
        <5>1. ~e.rw /\ tlb'[w] = tlb[w]
          BY <1>2, <1>6, <3>1, <4>2 DEF Invlpg, Types
        <5>2. pte'[cur][w] = pte[cur][w]
          BY <2>2, <2>4, <4>2, <5>1
        <5> QED
          BY <1>2, <1>3, <3>1, <5>1, <5>2, VmmAssumption DEF TlbCoherent
      <4> QED
        BY <4>1, <4>2
    <3> QED
      BY <1>1, <3>1 DEF TlbCoherent
  <2>16. Handling'
    <3>1. \A w \in Page : pte'[n][w] = pte[n][w]
      BY <1>3, <2>4
    <3>2. job'.todo \subseteq PagesOf(cur, Len(areas[job.to]) + 1)'
          /\ job'.page \in PagesOf(cur, Len(areas[job.to]) + 1)'
      BY <1>1, <2>5, <2>6 DEF PagesOf
    <3>3. Forking'
      BY <1>1, <1>3, <2>5, <2>6, <3>1, <3>2 DEF Forking
    <3> QED
      BY <1>1, <1>3, <2>1, <2>5, <2>6, <3>1, <3>3 DEF Handling
  <2> QED
    BY <2>5, <2>10, <2>11, <2>12, <2>13, <2>14, <2>15, <2>16 DEF IInv
<1>7. CASE job' = [job EXCEPT !.op = "panic_retain"] /\ UNCHANGED <<page_refs, pte, tlb>>
  BY <1>1, <1>7, HaltStep DEF Halts
<1> QED
  BY <1>4, <1>5, <1>6, <1>7

LEMMA ShareBlockStep == ASSUME IInv, ShareBlock PROVE IInv'
<1> DEFINE n == job.to
           i == Len(areas[n]) + 1
<1>1. /\ job.op = "share" /\ job.todo = {}
      /\ UNCHANGED <<page_refs, data, root, tables, pte, cur, tlb, io, lost>>
  BY DEF ShareBlock
<1>2. /\ job.why = "fork" /\ job \in JobSet
      /\ Types /\ Counts /\ Soles /\ Spaces /\ Waits /\ TlbCoherent
  BY <1>1 DEF IInv, Handling, Busy, Types
<1>3. /\ n \in Space /\ cur \in Space /\ cur # n /\ status[n] = "loading"
      /\ \A k \in Space : io[k].op = "exec" => io[k].next # n
  BY <1>1, <1>2, ForkHandling
<1>4. CASE /\ i \in DOMAIN areas[cur] /\ areas[cur][i] # Null
           /\ areas' = [areas EXCEPT ![n] = Append(@, areas[cur][i])]
           /\ job' = [job EXCEPT !.todo = PagesOf(cur, i + 1)] /\ UNCHANGED status
  <2>1. Len(areas[n]) \in Nat /\ i + 1 = Len(areas[n]) + 2
    BY <1>2, <1>3 DEF Types
  <2>2. /\ job'.op = "share" /\ job'.to = n /\ job'.why = "fork"
        /\ job'.todo = PagesOf(cur, Len(areas[n]) + 2) /\ job' \in JobSet
    <3>1. PagesOf(cur, i + 1) \subseteq Page
      BY <1>2, <1>3, PagesOfType
    <3> QED
      BY <1>1, <1>2, <1>4, <2>1, <3>1 DEF JobSet
  <2>3. areas[cur][i] \in Block /\ i \in DOMAIN Blocks /\ areas[cur][i] = Blocks[i]
    BY <1>2, <1>3, <1>4 DEF Types, Spaces
  <2>4. areas' \in [Space -> Seq(Block)] /\ Spaces' /\ Waits' /\ Handling'
    BY <1>1, <1>2, <1>4, <2>2, <2>3, BlockDone
  <2>5. Types' /\ TlbCoherent'
    BY <1>1, <1>2, <1>4, <2>2, <2>4 DEF Types, TlbCoherent
  <2>6. Counts' /\ Soles'
    BY <1>1, <1>2, <2>2, LightKept
  <2> QED
    BY <2>2, <2>4, <2>5, <2>6 DEF IInv
<1>5. CASE job' = [job EXCEPT !.op = "wild"] /\ UNCHANGED <<areas, status>>
  BY <1>1, <1>5, HaltStep DEF Halts
<1>6. CASE status' = [status EXCEPT ![n] = "live"] /\ job' = NoJob /\ UNCHANGED areas
  <2>1. /\ status' \in [Space -> {"free", "loading", "live"}] /\ status'[n] = "live"
        /\ \A k \in Space : k # n => status'[k] = status[k]
    BY <1>2, <1>3, <1>6 DEF Types
  <2>2. Types'
    BY <1>1, <1>2, <1>6, <2>1, NoJobType DEF Types
  <2>3. Spaces'
    BY <1>1, <1>2, <1>3, <1>6, <2>1 DEF Spaces, Blank
  <2>4. Waits'
    BY <1>1, <1>2, <1>3, <1>6, <2>1 DEF Waits
  <2>5. Handling' /\ TlbCoherent'
    BY <1>1, <1>2, <1>6, NoJobType DEF Handling, Busy, TlbCoherent
  <2>6. Counts' /\ Soles'
    BY <1>1, <1>2, <1>6, NoJobType, LightKept
  <2> QED
    BY <1>6, <2>2, <2>3, <2>4, <2>5, <2>6, NoJobType DEF IInv
<1> QED
  BY <1>4, <1>5, <1>6 DEF ShareBlock

-----------------------------------------------------------------------------
(* The theorems                                                            *)

LEMMA UnchangedIInv == IInv /\ UNCHANGED vars => IInv'
<1> SUFFICES ASSUME IInv, UNCHANGED vars PROVE IInv'
  OBVIOUS
<1>1. UNCHANGED <<page_refs, data, root, tables, pte, areas, status, cur, tlb, io, job, lost>>
  BY DEF vars, spaceVars
<1>2. Types' /\ Spaces' /\ Waits' /\ Handling' /\ TlbCoherent' /\ Soles'
  BY <1>1 DEF IInv, Types, Spaces, Blank, Waits, Handling, Busy, Forking, Left, PagesOf,
              TlbCoherent, Soles, Sole
<1>3. Counts'
  BY <1>1 DEF IInv, Counts, Holders, Mapped, Tabled, Rooted, Reading, Mapping
<1> QED
  BY <1>1, <1>2, <1>3 DEF IInv

LEMMA NextIInv == IInv /\ [Next]_vars => IInv'
<1> SUFFICES ASSUME IInv, [Next]_vars PROVE IInv'
  OBVIOUS
<1>1. ASSUME NEW m \in Space,
             \/ Access(m) \/ Fault(m) \/ Sbrk(m) \/ Switch(m)
             \/ ReadDone(m) \/ Exit(m) \/ ExecFails(m) \/ ExecCommits(m)
      PROVE  IInv'
  BY <1>1, AccessStep, FaultStep, SbrkStep, SwitchStep, ReadDoneStep, ExitStep, ExecFailsStep,
     ExecCommitsStep
<1>2. ASSUME NEW m \in Space, NEW n \in Space, Fork(m, n) \/ Exec(m, n) PROVE IInv'
  BY <1>2, ForkStep, ExecStep
<1>3. CASE CowStep \/ DemandStep \/ MapStep \/ FailStep \/ SharePage \/ ShareBlock
  BY <1>3, CowStepIInv, DemandStepIInv, MapStepIInv, FailStepIInv, SharePageStep, ShareBlockStep
<1>4. CASE Halted \/ UNCHANGED vars
  BY <1>4, UnchangedIInv DEF Halted
<1> QED
  BY <1>1, <1>2, <1>3, <1>4 DEF Next

\* The inductive invariant: types, exact counts, frames of their own where they must be,
\* and what the handler at work and the waiting spaces go by (pmem.c, paging.c, vmm.c).
THEOREM Invariant == Spec => []IInv
BY InitIInv, NextIInv, PTL DEF Spec

\* Every count is the number of holders, whatever was shared, freed and
\* allocated before, and no free meets a frame that nobody holds (pmem.c,
\* vmm_share_block, vmm_free, the failing paths of paging_map_range).
THEOREM CountsExact == Spec => []RefsExact
<1>1. IInv => RefsExact
  BY DEF IInv, Counts, RefsExact
<1> QED
  BY <1>1, Invariant, PTL

\* No process sees what another one writes: a page that can be written has one
\* holder (paging_resolve_cow_fault, vmm_share_block).
THEOREM WritersAlone == Spec => []WritableExclusive
<1>1. IInv => WritableExclusive
  BY DEF IInv, Soles, Sole, WritableExclusive
<1> QED
  BY <1>1, Invariant, PTL

\* No frame is a page table and anything else at once (paging_free_pml4,
\* paging_map_range, pmem_alloc_zero_page).
THEOREM TablesApart == Spec => []TablesPrivate
<1>1. IInv => TablesPrivate
  <2> SUFFICES ASSUME IInv PROVE TablesPrivate
    OBVIOUS
  <2>1. Types /\ Counts /\ Soles
    BY DEF IInv
  <2>2. ASSUME NEW m \in Space, NEW f \in TableFrames(m)
        PROVE  /\ f \in Frame /\ Sole(f)
               /\ root[m] = f \/ \E t \in Table : tables[m][t] = f
    BY <2>1, <2>2, TableFrame DEF Soles, TableFrames
  <2>3. ASSUME NEW m \in Space, NEW n \in Space, m # n, NEW f \in TableFrames(m), f \in TableFrames(n)
        PROVE  FALSE
    BY <2>1, <2>2, <2>3, SoleHolder
  <2>4. ASSUME NEW m \in Space, NEW n \in Space, NEW v \in Page, pte[n][v].frame \in TableFrames(m)
        PROVE  FALSE
    BY <2>1, <2>2, <2>4, SoleHolder
  <2> QED
    BY <2>3, <2>4 DEF TablesPrivate
<1> QED
  BY <1>1, Invariant, PTL

\* The TLB never says anything else than the page tables of the process on the
\* CPU (invlpg in paging.c, user_switch_paging).
THEOREM TlbAgrees == Spec => []TlbCoherent
<1>1. IInv => TlbCoherent
  BY DEF IInv
<1> QED
  BY <1>1, Invariant, PTL

\* Every variable has its type; in particular no count is negative.
THEOREM StaysTyped == Spec => []TypeOK
<1>1. IInv => TypeOK
  <2> SUFFICES ASSUME IInv PROVE TypeOK
    OBVIOUS
  <2>1. Types /\ Counts
    BY DEF IInv
  <2>2. page_refs \in [Frame -> Nat]
    <3>1. \A f \in Frame : page_refs[f] \in Nat
      BY <2>1, HeldCounted
    <3> QED
      BY <2>1, <3>1 DEF Types
  <2> QED
    BY <2>1, <2>2 DEF Types, TypeOK, IoSet, JobSet, Entry
<1> QED
  BY <1>1, Invariant, PTL


-----------------------------------------------------------------------------
(* What the contents of memory rest on, beyond IInv                        *)

InAreas(m, v) == \E i \in DOMAIN areas[m] : v \in areas[m][i].pages
Copying == job.op \in {"share", "map"} /\ job.why = "fork"

\* A page that is present is one of the program's so far.
Present ==
    \A m \in Space, v \in Page :
        pte[m][v] # NoPte =>
            \/ Copying /\ job.to = m
            \/ \E i \in DOMAIN areas[m] : i \in DOMAIN Blocks /\ v \in Blocks[i].pages

\* What is read from disk is a page of the executable.
Reads ==
    \A m \in Space : io[m].op = "read" =>
        \E i \in DOMAIN areas[m] : areas[m][i].file /\ io[m].page \in areas[m][i].pages

\* A frame on its way to a page has the contents of a fresh page.
Arriving ==
    job.op = "map" /\ job.why # "fork" =>
        InAreas(job.to, job.page) /\ data[job.frame] = Fresh(job.page)

\* A program starts with its image and no page.
Starting ==
    job.op \in {"demand", "map"} /\ job.why = "exec" =>
        areas[job.to] = Image /\ pte[job.to] = Flushed

\* The child of a fork shares the pages of the blocks it has, and those of the
\* next block that are done.
Copied ==
    Copying =>
        LET n == job.to
            k == Len(areas[n]) + 1
        IN /\ Len(areas[n]) <= Len(areas[cur])
           /\ \A i \in DOMAIN areas[n] : areas[n][i] = Null \/ areas[n][i] = areas[cur][i]
           /\ \A v \in Page :
                 /\ pte[n][v] # NoPte => /\ pte[cur][v] # NoPte
                                         /\ pte[n][v].frame = pte[cur][v].frame
                 /\ pte[cur][v] # NoPte /\ InAreas(n, v) => pte[n][v] # NoPte
                 /\ pte[cur][v] # NoPte /\ v \in PagesOf(cur, k) =>
                        \/ pte[n][v] # NoPte \/ v \in job.todo
                        \/ job.op = "map" /\ job.page = v
           /\ job.op = "map" => /\ pte[cur][job.page] # NoPte
                                /\ job.frame = pte[cur][job.page].frame

\* A kernel that has stopped is not looked at.
RInv == job.op \notin Halts => Present /\ Reads /\ Arriving /\ Starting /\ Copied

\* A page of a block is a page of that block of the program.
LEMMA AreaBlock ==
    ASSUME Spaces, NEW m \in Space, NEW i \in DOMAIN areas[m], NEW v, v \in areas[m][i].pages
    PROVE  /\ i \in DOMAIN Blocks /\ areas[m][i] = Blocks[i] /\ areas[m][i] # Null
           /\ Fresh(v) = IF areas[m][i].file THEN FileVal ELSE Zero
<1>1. i \in DOMAIN Blocks /\ areas[m][i] = Blocks[i] /\ areas[m][i] # Null
  BY BlocksApart
<1>2. \A j \in DOMAIN Blocks : v \in Blocks[j].pages => j = i
  BY <1>1, VmmAssumption
<1>3. (\E j \in DOMAIN Blocks : v \in Blocks[j].pages /\ Blocks[j].file) <=> areas[m][i].file
  BY <1>1, <1>2
<1> QED
  BY <1>1, <1>3 DEF Fresh

LEMMA InitRInv == Init => RInv
<1> SUFFICES ASSUME Init PROVE RInv
  OBVIOUS
<1>1. \A m \in Space : pte[m] = Flushed /\ io[m] = NoIo
  BY DEF Init
<1>2. /\ job.op = "demand" /\ job.why = "exec" /\ job.to = First /\ areas[First] = Image
      /\ First \in Space
  BY VmmAssumption DEF Init, NoJob
<1>3. \A m \in Space, v \in Page : pte[m][v] = NoPte
  BY <1>1 DEF Flushed
<1>4. Present /\ Reads /\ Arriving /\ Starting /\ Copied
  BY <1>1, <1>2, <1>3 DEF Present, Reads, Arriving, Starting, Copied, Copying, NoIo
<1> QED
  BY <1>4 DEF RInv

\* No handler maps a page before or after the step, and no fork goes on.
LEMMA QuietRInv ==
    ASSUME RInv, job.op \notin Halts, ~Copying, ~Copying',
           job'.op # "map", ~(job'.op = "demand" /\ job'.why = "exec"),
           \A m \in Space :
               \/ /\ DOMAIN areas[m] \subseteq DOMAIN areas'[m]
                  /\ \A i \in DOMAIN areas[m] : areas'[m][i] = areas[m][i]
               \/ pte'[m] = Flushed /\ io'[m].op # "read",
           \A m \in Space, v \in Page : pte'[m][v] # NoPte => pte[m][v] # NoPte,
           \A m \in Space : io'[m].op = "read" => io'[m] = io[m]
    PROVE  RInv'
<1>1. Present /\ Reads
  BY DEF RInv
<1>2. Present'
  <2> SUFFICES ASSUME NEW m \in Space, NEW v \in Page, pte'[m][v] # NoPte
               PROVE  \E i \in DOMAIN areas'[m] : i \in DOMAIN Blocks /\ v \in Blocks[i].pages
    BY DEF Present
  <2>1. pte'[m] # Flushed
    BY DEF Flushed
  <2>2. PICK i \in DOMAIN areas[m] : i \in DOMAIN Blocks /\ v \in Blocks[i].pages
    BY <1>1 DEF Present
  <2> QED
    BY <2>1, <2>2
<1>3. Reads'
  <2> SUFFICES ASSUME NEW m \in Space, io'[m].op = "read"
               PROVE  \E i \in DOMAIN areas'[m] :
                          areas'[m][i].file /\ io'[m].page \in areas'[m][i].pages
    BY DEF Reads
  <2>1. PICK i \in DOMAIN areas[m] : areas[m][i].file /\ io[m].page \in areas[m][i].pages
    BY <1>1 DEF Reads
  <2> QED
    BY <2>1
<1>4. Arriving' /\ Starting' /\ Copied'
  BY DEF Arriving, Starting, Copied, Copying
<1> QED
  BY <1>2, <1>3, <1>4 DEF RInv

\* Memory is used, mapped to another process, asked for, or shrunk to nothing.
LEMMA UserRInv ==
    ASSUME IInv, RInv, NEW m \in Space, Access(m) \/ Fault(m) \/ Switch(m)
    PROVE  RInv'
<1>1. /\ job.op = "none" /\ UNCHANGED <<areas, pte, io>>
      /\ job'.op \in {"none", "cow", "demand"}
      /\ job'.op = "demand" => job'.why \in {"user", "kernel"}
  <2>1. CASE Access(m)
    BY <2>1 DEF Access, InUser, spaceVars
  <2>2. CASE Fault(m)
    BY <2>2 DEF Fault, InUser, spaceVars, NoJob
  <2>3. CASE Switch(m)
    BY <2>3 DEF Switch, spaceVars
  <2> QED
    BY <2>1, <2>2, <2>3
<1> QED
  BY <1>1, QuietRInv DEF Halts, Copying

LEMMA SbrkRInv == ASSUME IInv, RInv, NEW m \in Space, Sbrk(m) PROVE RInv'
<1>1. /\ job.op = "none" /\ UNCHANGED <<pte, io, job>> /\ Len(areas[m]) < Len(Blocks)
      /\ areas' = [areas EXCEPT ![m] = Append(areas[m], Blocks[Len(areas[m]) + 1])]
  BY DEF Sbrk, InUser
<1>2. areas \in [Space -> Seq(Block)]
  BY DEF IInv, Types
<1>3. ASSUME NEW n \in Space
      PROVE  /\ DOMAIN areas[n] \subseteq DOMAIN areas'[n]
             /\ \A i \in DOMAIN areas[n] : areas'[n][i] = areas[n][i]
  <2>1. CASE n = m
    <3>1. areas'[n] = Append(areas[m], Blocks[Len(areas[m]) + 1]) /\ areas[m] \in Seq(Block)
      BY <1>1, <1>2, <2>1
    <3> QED
      BY <2>1, <3>1
  <2>2. CASE n # m
    BY <1>1, <1>2, <2>2
  <2> QED
    BY <2>1, <2>2
<1> QED
  BY <1>1, <1>3, QuietRInv DEF Halts, Copying

\* A page of the executable has arrived.
LEMMA ReadDoneRInv == ASSUME IInv, RInv, NEW m \in Space, ReadDone(m) PROVE RInv'
<1> DEFINE f == io[m].frame
           j == [NoJob EXCEPT !.to = m, !.page = io[m].page, !.why = io[m].why]
<1>1. /\ job.op = "none" /\ io[m].op = "read" /\ io' = [io EXCEPT ![m] = NoIo]
      /\ UNCHANGED <<pte, areas>>
  BY DEF ReadDone, spaceVars
<1>2. /\ \A n \in Space : io'[n].op = "read" => io'[n] = io[n]
      /\ io[m].why \in {"user", "kernel"} /\ f \in Frame
  BY <1>1, NoJobType DEF IInv, Types, Waits
<1>3. CASE job' = [j EXCEPT !.op = "fail"]
  <2>1. job'.op = "fail"
    BY <1>3 DEF NoJob
  <2> QED
    BY <1>1, <1>2, <2>1, QuietRInv DEF Halts, Copying
<1>4. CASE /\ data' = [data EXCEPT ![f] = FileVal]
           /\ job' = [j EXCEPT !.op = "map", !.frame = f, !.rw = io[m].rw]
  <2>1. /\ job'.op = "map" /\ job'.to = m /\ job'.page = io[m].page /\ job'.why = io[m].why
        /\ job'.frame = f
    BY <1>4 DEF NoJob
  <2>2. Present /\ Reads /\ Spaces
    BY <1>1 DEF RInv, Halts, IInv
  <2>3. PICK i \in DOMAIN areas[m] : areas[m][i].file /\ io[m].page \in areas[m][i].pages
    BY <1>1, <2>2 DEF Reads
  <2>4. Fresh(io[m].page) = FileVal
    BY <2>2, <2>3, AreaBlock
  <2>5. data'[f] = FileVal
    BY <1>2, <1>4 DEF IInv, Types
  <2>6. Arriving'
    <3>1. \E k \in DOMAIN areas'[m] : io[m].page \in areas'[m][k].pages
      BY <1>1, <2>3
    <3> QED
      BY <2>1, <2>4, <2>5, <3>1 DEF Arriving, Fresh, InAreas
  <2>7. Present' /\ Reads'
    BY <1>1, <1>2, <2>2 DEF Present, Reads, Copying
  <2>8. Starting' /\ Copied'
    BY <1>2, <2>1 DEF Starting, Copied, Copying
  <2> QED
    BY <2>6, <2>7, <2>8 DEF RInv
<1> QED
  BY <1>3, <1>4 DEF ReadDone

\* The space of the process on the CPU goes.
LEMMA EndRInv ==
    ASSUME IInv, RInv, NEW m \in Space, cur = m, io[m].op = "none", job.op \in {"none", "fail"}, End(m)
    PROVE  RInv'
<1>1. Types /\ Counts
  BY DEF IInv
<1>2. /\ VmmFree(m) /\ areas' = [areas EXCEPT ![m] = <<>>] /\ job' = NoJob /\ UNCHANGED io
  BY <1>1, FreeAllowed DEF End
<1>3. pte'[m] = Flushed /\ \A n \in Space : n # m => pte'[n] = pte[n] /\ areas'[n] = areas[n]
  BY <1>1, <1>2, Freed DEF Types
<1>4. \A n \in Space, v \in Page : pte'[n][v] # NoPte => pte[n][v] # NoPte
  BY <1>3 DEF Flushed
<1>5. job'.op = "none"
  BY <1>2, NoJobType
<1> QED
  BY <1>2, <1>3, <1>4, <1>5, QuietRInv DEF Halts, Copying

LEMMA FailRInv == ASSUME IInv, RInv, FailStep PROVE RInv'
<1>1. /\ job.op = "fail" /\ job.to \in Space /\ io[job.to].op = "none"
      /\ job.why = "user" => cur = job.to
  BY DEF FailStep, IInv, Handling, Busy
<1>2. CASE job.why = "user" /\ End(job.to)
  BY <1>1, <1>2, EndRInv
<1>3. CASE job' = [job EXCEPT !.op = IF job.why = "exec" THEN "panic_oom" ELSE "panic_fault"]
  <2>1. job'.op \in {"panic_oom", "panic_fault"}
    BY <1>3 DEF IInv, Types, JobSet
  <2> QED
    BY <2>1 DEF RInv, Halts
<1> QED
  BY <1>2, <1>3 DEF FailStep

LEMMA ExecFailsRInv == ASSUME IInv, RInv, NEW m \in Space, ExecFails(m) PROVE RInv'
<1> DEFINE n == io[m].next
<1>1. Types /\ Counts /\ Spaces /\ Waits
  BY DEF IInv
<1>2. /\ cur = m /\ job.op = "none" /\ io[m].op = "exec"
      /\ n \in Space /\ status[n] = "loading" /\ io[n].op = "none"
  BY <1>1 DEF ExecFails, Waits, Types, IoSet
<1>3. VmmFree(n) /\ io' = [io EXCEPT ![m] = NoIo] /\ UNCHANGED <<areas, job>>
  BY <1>1, <1>2, FreeAllowed DEF ExecFails
<1>4. pte'[n] = Flushed /\ \A k \in Space : k # n => pte'[k] = pte[k]
  BY <1>1, <1>2, <1>3, Freed
<1>5. \A k \in Space, v \in Page : pte'[k][v] # NoPte => pte[k][v] # NoPte
  BY <1>4 DEF Flushed
<1>6. \A k \in Space : io'[k].op = "read" => io'[k] = io[k]
  BY <1>1, <1>3, NoJobType DEF Types
<1> QED
  BY <1>2, <1>3, <1>4, <1>5, <1>6, QuietRInv DEF Halts, Copying

\* The new program has its image and no page yet.
LEMMA ExecCommitsRInv == ASSUME IInv, RInv, NEW m \in Space, ExecCommits(m) PROVE RInv'
<1> DEFINE n == io[m].next
<1>1. Types /\ Counts /\ Spaces /\ Waits
  BY DEF IInv
<1>2. /\ cur = m /\ job.op = "none" /\ io[m].op = "exec"
      /\ n \in Space /\ status[n] = "loading" /\ areas[n] = <<>> /\ status[m] = "live" /\ n # m
  BY <1>1 DEF ExecCommits, Waits
<1>3. /\ VmmFree(m) /\ areas' = [areas EXCEPT ![m] = <<>>, ![n] = Image]
      /\ io' = [io EXCEPT ![m] = NoIo]
      /\ job' = [NoJob EXCEPT !.op = "demand", !.to = n, !.rw = TRUE,
                              !.page = StackTop, !.why = "exec"]
  BY <1>1, <1>2, FreeAllowed DEF ExecCommits
<1>4. pte'[m] = Flushed /\ \A k \in Space : k # m => pte'[k] = pte[k]
  BY <1>1, <1>2, <1>3, Freed
<1>5. areas'[n] = Image /\ \A k \in Space : k # m /\ k # n => areas'[k] = areas[k]
  BY <1>1, <1>2, <1>3 DEF Types
<1>6. job'.op = "demand" /\ job'.to = n /\ job'.why = "exec"
  BY <1>3 DEF NoJob
<1>7. Present /\ Reads
  BY <1>2 DEF RInv, Halts
<1>8. pte[n] = Flushed
  <2>1. \A v \in Page : pte[n][v] = NoPte
    BY <1>2, <1>7 DEF Present, Copying
  <2>2. pte[n] \in [Page -> Entry]
    BY <1>1, <1>2 DEF Types
  <2> QED
    BY <2>1, <2>2 DEF Flushed
<1>9. Present'
  <2> SUFFICES ASSUME NEW k \in Space, NEW v \in Page, pte'[k][v] # NoPte
               PROVE  \E i \in DOMAIN areas'[k] : i \in DOMAIN Blocks /\ v \in Blocks[i].pages
    BY DEF Present
  <2>1. k # m /\ k # n
    BY <1>2, <1>4, <1>8 DEF Flushed
  <2> QED
    BY <1>2, <1>4, <1>5, <1>7, <2>1 DEF Present, Copying
<1>10. Reads'
  <2>1. \A k \in Space : io'[k].op = "read" => io'[k] = io[k] /\ k # m /\ k # n
    BY <1>1, <1>2, <1>3, NoJobType DEF Types, Waits
  <2> QED
    BY <1>5, <1>7, <2>1 DEF Reads
<1>11. Arriving' /\ Starting' /\ Copied'
  BY <1>2, <1>4, <1>5, <1>6, <1>8 DEF Arriving, Starting, Copied, Copying
<1> QED
  BY <1>9, <1>10, <1>11 DEF RInv

\* fork starts with an empty child, exec with an empty space.
LEMMA ForkRInv == ASSUME IInv, RInv, NEW m \in Space, NEW n \in Space, Fork(m, n) PROVE RInv'
<1>1. /\ cur = m /\ job.op = "none" /\ status[n] = "free" /\ UNCHANGED cur
  BY DEF Fork, InUser
<1>2. CASE NoSpace
  BY <1>2 DEF NoSpace, NoJob, RInv, Halts
<1>3. ASSUME NEW f \in Frame, NewSpace(n, f), UNCHANGED io,
             job' = [NoJob EXCEPT !.op = "share", !.to = n, !.why = "fork", !.todo = PagesOf(m, 1)]
      PROVE  RInv'
  <2>1. job'.op = "share" /\ job'.to = n /\ job'.why = "fork" /\ job'.todo = PagesOf(m, 1)
    BY <1>3 DEF NoJob
  <2>2. UNCHANGED <<pte, areas>>
    BY <1>3 DEF NewSpace
  <2>3. Types /\ Spaces /\ Present /\ Reads
    BY <1>1 DEF IInv, RInv, Halts
  <2>4. areas[n] = <<>> /\ pte[n] = Flushed /\ areas[m] \in Seq(Block)
    BY <1>1, <2>3 DEF Spaces, Blank, Types
  <2>5. Present' /\ Reads'
    BY <1>1, <1>3, <2>2, <2>3 DEF Present, Reads, Copying
  <2>6. Copied'
    <3>1. Len(areas[n]) = 0 /\ Len(areas[m]) >= 0 /\ Len(areas[n]) + 1 = 1
      BY <2>4
    <3>2. \A v \in Page : pte[n][v] = NoPte
      BY <2>4 DEF Flushed
    <3>3. PagesOf(m, 1)' = PagesOf(m, 1)
      BY <2>2 DEF PagesOf
    <3>4. \A i \in DOMAIN areas[n] : FALSE
      BY <2>4
    <3> QED
      BY <1>1, <2>1, <2>2, <3>1, <3>2, <3>3, <3>4 DEF Copied, InAreas
  <2>7. Arriving' /\ Starting'
    BY <2>1 DEF Arriving, Starting
  <2> QED
    BY <2>5, <2>6, <2>7 DEF RInv
<1> QED
  BY <1>2, <1>3 DEF Fork

LEMMA ExecRInv == ASSUME IInv, RInv, NEW m \in Space, NEW n \in Space, Exec(m, n) PROVE RInv'
<1>1. job.op = "none"
  BY DEF Exec, InUser
<1>2. CASE NoSpace
  BY <1>2 DEF NoSpace, NoJob, RInv, Halts
<1>3. CASE /\ \E f \in Frame : NewSpace(n, f)
           /\ io' = [io EXCEPT ![m] = [NoIo EXCEPT !.op = "exec", !.next = n]]
           /\ UNCHANGED job
  <2>1. UNCHANGED <<pte, areas>>
    BY <1>3 DEF NewSpace
  <2>2. \A k \in Space : io'[k].op = "read" => io'[k] = io[k]
    BY <1>3 DEF IInv, Types, NoIo
  <2> QED
    BY <1>1, <1>3, <2>1, <2>2, QuietRInv DEF Halts, Copying
<1> QED
  BY <1>2, <1>3 DEF Exec

\* The entry that is copied stays an entry.
LEMMA CowRInv == ASSUME IInv, RInv, CowStep PROVE RInv'
<1>1. /\ job.op = "cow" /\ job.why \in {"user", "kernel"} /\ job.to \in Space /\ job.page \in Page
      /\ UNCHANGED <<areas, io>>
  BY DEF CowStep, IInv, Handling, Busy
<1>2. job'.op \in {"fail", "none"}
  BY NoJobType DEF CowStep, Fail, IInv, Types, JobSet
<1>3. \A n \in Space, w \in Page : pte'[n][w] # NoPte => pte[n][w] # NoPte
  <2>1. CASE UNCHANGED pte
    BY <2>1
  <2>2. ASSUME pte[job.to][job.page].cow,
               NEW e, pte' = [pte EXCEPT ![job.to][job.page] = e]
        PROVE  \A n \in Space, w \in Page : pte'[n][w] # NoPte => pte[n][w] # NoPte
    <3>1. pte[job.to][job.page] # NoPte
      BY <1>1, <2>2, EntryFrames DEF IInv
    <3> QED
      BY <2>2, <3>1 DEF IInv, Types
  <2> QED
    BY <2>1, <2>2 DEF CowStep
<1> QED
  BY <1>1, <1>2, <1>3, QuietRInv DEF Halts, Copying

\* A fresh page, or a wait for a page of the executable.
LEMMA DemandRInv == ASSUME IInv, RInv, DemandStep PROVE RInv'
<1> DEFINE m == job.to
           v == job.page
<1>1. /\ job.op = "demand" /\ m \in Space /\ v \in Page /\ job.why \in {"user", "kernel", "exec"}
      /\ UNCHANGED <<pte, areas>> /\ job \in JobSet
  BY DEF DemandStep, spaceVars, IInv, Handling, Busy, Forking, Types
<1>2. Types /\ Spaces /\ Present /\ Reads /\ Starting
  BY <1>1 DEF IInv, RInv, Halts
<1>3. CASE Fail /\ UNCHANGED io
  <2>1. job'.op = "fail"
    BY <1>1, <1>3 DEF Fail, JobSet
  <2> QED
    BY <1>1, <1>3, <2>1, QuietRInv DEF Halts, Copying
<1>4. CASE job' = [job EXCEPT !.op = "wild"]
  BY <1>1, <1>4 DEF RInv, Halts, JobSet
<1>5. ASSUME NEW i \in Hits(m, v), NEW f \in Frame, areas[m][i] # Null,
             data' = [data EXCEPT ![f] = Zero],
             \/ /\ areas[m][i].file
                /\ io' = [io EXCEPT ![m] = [NoIo EXCEPT !.op = "read",
                                   !.page = v, !.frame = f,
                                   !.rw = areas[m][i].write, !.why = job.why]]
                /\ job' = NoJob
             \/ /\ ~areas[m][i].file
                /\ job' = [job EXCEPT !.op = "map", !.frame = f, !.rw = areas[m][i].write]
                /\ UNCHANGED io
      PROVE  RInv'
  <2>1. i \in DOMAIN areas[m] /\ v \in areas[m][i].pages
    BY <1>5 DEF Hits
  <2>2. CASE areas[m][i].file
    <3>1. job'.op = "none"
      BY <1>5, <2>2, NoJobType
    <3> DEFINE e == [NoIo EXCEPT !.op = "read", !.page = v, !.frame = f,
                                 !.rw = areas[m][i].write, !.why = job.why]
    <3>2. /\ \A n \in Space : n # m => io'[n] = io[n]
          /\ io'[m].page = v
      <4>1. io' = [io EXCEPT ![m] = e]
        BY <1>5, <2>2
      <4>2. e.page = v
        BY DEF NoIo
      <4> HIDE DEF e
      <4> QED
        BY <1>1, <1>2, <4>1, <4>2 DEF Types
    <3>3. Reads'
      BY <1>1, <1>2, <2>1, <2>2, <3>2 DEF Reads
    <3>4. Present' /\ Arriving' /\ Starting' /\ Copied'
      BY <1>1, <1>2, <3>1 DEF Present, Arriving, Starting, Copied, Copying
    <3> QED
      BY <3>3, <3>4 DEF RInv
  <2>3. CASE ~areas[m][i].file
    <3>1. /\ job'.op = "map" /\ job'.to = m /\ job'.page = v /\ job'.frame = f /\ job'.why = job.why
          /\ UNCHANGED io
      BY <1>1, <1>5, <2>3 DEF JobSet
    <3>2. Fresh(v) = Zero
      BY <1>1, <1>2, <2>1, <2>3, AreaBlock
    <3>3. data'[f] = Zero
      BY <1>2, <1>5 DEF Types
    <3>4. Arriving'
      BY <1>1, <2>1, <3>1, <3>2, <3>3 DEF Arriving, InAreas, Fresh
    <3>5. Present' /\ Reads' /\ Starting' /\ Copied'
      BY <1>1, <1>2, <3>1 DEF Present, Reads, Starting, Copied, Copying
    <3> QED
      BY <3>4, <3>5 DEF RInv
  <2> QED
    BY <2>2, <2>3
<1> QED
  BY <1>3, <1>4, <1>5 DEF DemandStep

-----------------------------------------------------------------------------
(* A fork under way                                                        *)

\* What Copied says, with the names of its parts.
LEMMA CopiedFacts ==
    ASSUME IInv, RInv, Copying, NEW n, n = job.to, NEW k, k = Len(areas[n]) + 1
    PROVE  /\ n \in Space /\ cur \in Space /\ cur # n /\ k \in Nat
           /\ areas[n] \in Seq(Block) /\ areas[cur] \in Seq(Block)
           /\ DOMAIN areas[n] = 1 .. k - 1 /\ Len(areas[n]) <= Len(areas[cur])
           /\ \A i \in DOMAIN areas[n] : areas[n][i] = Null \/ areas[n][i] = areas[cur][i]
           /\ \A v \in Page :
                 /\ pte[n][v] # NoPte => /\ pte[cur][v] # NoPte
                                         /\ pte[n][v].frame = pte[cur][v].frame
                 /\ pte[cur][v] # NoPte /\ InAreas(n, v) => pte[n][v] # NoPte
                 /\ pte[cur][v] # NoPte /\ v \in PagesOf(cur, k) =>
                        \/ pte[n][v] # NoPte \/ v \in job.todo
                        \/ job.op = "map" /\ job.page = v
           /\ job.op = "map" => /\ job.page \in Page /\ pte[cur][job.page] # NoPte
                                /\ job.frame = pte[cur][job.page].frame
                                /\ job.page \in PagesOf(cur, k)
           /\ Present /\ Reads /\ Types /\ Spaces
<1>1. job.op \notin Halts /\ job.op \in {"share", "map"} /\ job.why = "fork"
  BY DEF Copying, Halts
<1>2. n \in Space /\ cur \in Space /\ cur # n /\ Forking
  BY <1>1, ForkHandling
<1>3. areas[n] \in Seq(Block) /\ areas[cur] \in Seq(Block)
  BY <1>2 DEF IInv, Types
<1>4. k \in Nat /\ DOMAIN areas[n] = 1 .. k - 1
  BY <1>3
<1>5. job.op = "map" => job.page \in Page /\ job.page \in PagesOf(cur, k)
  BY <1>2, MapHandling DEF Forking
<1> QED
  BY <1>1, <1>2, <1>3, <1>4, <1>5 DEF RInv, Copied, IInv

\* The step is one of a fork that goes on, with the same spaces.
LEMMA GoesOn ==
    ASSUME IInv, RInv, Copying, job'.to = job.to, job'.why = "fork", job'.op \in {"share", "map"},
           \A m \in Space : m # job.to => areas'[m] = areas[m],
           \A m \in Space, v \in Page :
               m # job.to => (pte'[m][v] = NoPte <=> pte[m][v] = NoPte),
           UNCHANGED io, Copied'
    PROVE  RInv'
<1>1. Present /\ Reads /\ Waits
  BY DEF RInv, IInv, Halts, Copying
<1>2. Copying' /\ job.to \in Space /\ io[job.to].op = "none"
  BY ForkHandling DEF Copying
<1>3. Present'
  BY <1>1, <1>2 DEF Present
<1>4. Reads'
  BY <1>1, <1>2 DEF Reads
<1>5. Arriving' /\ Starting'
  BY DEF Arriving, Starting
<1> QED
  BY <1>3, <1>4, <1>5 DEF RInv

\* llist_copy appends a block, or NULL, and goes on to the next one.
LEMMA BlockCopied ==
    ASSUME IInv, RInv, Copying, NEW b \in Block, NEW k, k = Len(areas[job.to]) + 1,
           k \in DOMAIN areas[cur],
           \/ b = Null
           \/ b = areas[cur][k] /\ job.op = "share" /\ job.todo = {},
           areas' = [areas EXCEPT ![job.to] = Append(@, b)],
           job'.op = "share", job'.why = "fork", job'.to = job.to,
           job'.todo = PagesOf(cur, k + 1), UNCHANGED <<pte, cur, io>>
    PROVE  RInv'
<1> DEFINE n == job.to
<1>1. /\ n \in Space /\ cur \in Space /\ cur # n /\ k \in Nat
      /\ areas[n] \in Seq(Block) /\ areas[cur] \in Seq(Block)
      /\ DOMAIN areas[n] = 1 .. k - 1
      /\ \A i \in DOMAIN areas[n] : areas[n][i] = Null \/ areas[n][i] = areas[cur][i]
      /\ \A v \in Page :
            /\ pte[n][v] # NoPte => pte[cur][v] # NoPte /\ pte[n][v].frame = pte[cur][v].frame
            /\ pte[cur][v] # NoPte /\ InAreas(n, v) => pte[n][v] # NoPte
            /\ pte[cur][v] # NoPte /\ v \in PagesOf(cur, k) =>
                   \/ pte[n][v] # NoPte \/ v \in job.todo
                   \/ job.op = "map" /\ job.page = v
      /\ Types
  BY CopiedFacts
<1>2. /\ areas'[n] = Append(areas[n], b) /\ \A m \in Space : m # n => areas'[m] = areas[m]
  BY <1>1 DEF Types
<1>3. /\ Len(areas'[n]) = k /\ DOMAIN areas'[n] = 1 .. k /\ areas'[n][k] = b
      /\ \A i \in 1 .. k - 1 : areas'[n][i] = areas[n][i]
      /\ Len(areas'[cur]) = Len(areas[cur]) /\ k <= Len(areas[cur])
  BY <1>1, <1>2
<1>4. \A i \in DOMAIN areas'[n] : areas'[n][i] = Null \/ areas'[n][i] = areas[cur][i]
  <2> SUFFICES ASSUME NEW i \in 1 .. k PROVE areas'[n][i] = Null \/ areas'[n][i] = areas[cur][i]
    BY <1>3
  <2>1. i = k \/ i \in 1 .. k - 1
    BY <1>1
  <2> QED
    BY <1>1, <1>3, <2>1
<1>5. ASSUME NEW v \in Page, pte[cur][v] # NoPte, InAreas(n, v)' PROVE pte[n][v] # NoPte
  <2>1. PICK i \in DOMAIN areas'[n] : v \in areas'[n][i].pages
    BY <1>5 DEF InAreas
  <2>2. CASE i = k
    <3>1. v \in b.pages /\ b # Null
      BY <1>3, <2>1, <2>2, ImageBlocks
    <3>2. v \in PagesOf(cur, k) /\ job.op = "share" /\ job.todo = {}
      BY <3>1 DEF PagesOf
    <3> QED
      BY <1>1, <1>5, <3>2
  <2>3. CASE i # k
    <3>1. i \in 1 .. k - 1
      BY <1>1, <1>3, <2>1, <2>3
    <3>2. InAreas(n, v)
      BY <1>1, <1>3, <2>1, <3>1 DEF InAreas
    <3> QED
      BY <1>1, <1>5, <3>2
  <2> QED
    BY <2>2, <2>3
<1>6. PagesOf(cur, k + 1)' = PagesOf(cur, k + 1)
  BY <1>1, <1>2 DEF PagesOf
<1>7. Copied'
  BY <1>1, <1>2, <1>3, <1>4, <1>5, <1>6 DEF Copied, InAreas
<1> QED
  BY <1>2, <1>7, GoesOn

LEMMA ShareBlockRInv == ASSUME IInv, RInv, ShareBlock PROVE RInv'
<1> DEFINE n == job.to
           k == Len(areas[n]) + 1
<1>1. /\ job.op = "share" /\ job.why = "fork" /\ job.todo = {} /\ Copying /\ job \in JobSet
      /\ UNCHANGED <<pte, cur, io>>
  BY DEF ShareBlock, IInv, Handling, Busy, Copying, Types
<1>2. CASE /\ k \in DOMAIN areas[cur]
           /\ areas' = [areas EXCEPT ![n] = Append(@, areas[cur][k])]
           /\ job' = [job EXCEPT !.todo = PagesOf(cur, k + 1)]
  <2>1. /\ job'.op = "share" /\ job'.why = "fork" /\ job'.to = n
        /\ job'.todo = PagesOf(cur, k + 1)
    BY <1>1, <1>2 DEF JobSet
  <2>2. areas[cur][k] \in Block
    BY <1>1, <1>2, CopiedFacts
  <2> QED
    BY <1>1, <1>2, <2>1, <2>2, BlockCopied
<1>3. CASE job' = [job EXCEPT !.op = "wild"]
  BY <1>1, <1>3 DEF RInv, Halts, JobSet
<1>4. CASE k \notin DOMAIN areas[cur] /\ job' = NoJob /\ UNCHANGED areas
  <2>1. /\ n \in Space /\ cur \in Space /\ areas[n] \in Seq(Block) /\ areas[cur] \in Seq(Block)
        /\ Len(areas[n]) <= Len(areas[cur]) /\ Present /\ Reads
        /\ \A v \in Page : pte[n][v] # NoPte => pte[cur][v] # NoPte
        /\ cur # n
    BY <1>1, CopiedFacts
  <2>2. DOMAIN areas[n] = DOMAIN areas[cur]
    BY <1>4, <2>1
  <2>3. job'.op = "none"
    BY <1>4, NoJobType
  <2>4. Present'
    <3> SUFFICES ASSUME NEW m \in Space, NEW v \in Page, pte[m][v] # NoPte
                 PROVE  \E i \in DOMAIN areas[m] : i \in DOMAIN Blocks /\ v \in Blocks[i].pages
      BY <1>1, <1>4 DEF Present
    <3>1. CASE m = n
      BY <2>1, <2>2, <3>1 DEF Present
    <3>2. CASE m # n
      BY <2>1, <3>2 DEF Present
    <3> QED
      BY <3>1, <3>2
  <2>5. Reads' /\ Arriving' /\ Starting' /\ Copied'
    BY <1>1, <1>4, <2>1, <2>3 DEF Reads, Arriving, Starting, Copied, Copying
  <2> QED
    BY <2>4, <2>5 DEF RInv
<1> QED
  BY <1>2, <1>3, <1>4 DEF ShareBlock

\* A page of the parent is skipped, or on its way to the child.
LEMMA SharePageRInv == ASSUME IInv, RInv, SharePage PROVE RInv'
<1> DEFINE n == job.to
           k == Len(areas[n]) + 1
<1>1. /\ job.op = "share" /\ job.why = "fork" /\ Copying /\ job \in JobSet
      /\ UNCHANGED <<areas, cur, io>>
  BY DEF SharePage, IInv, Handling, Busy, Copying, Types
<1>2. /\ n \in Space /\ cur \in Space /\ cur # n /\ Types
      /\ Len(areas[n]) <= Len(areas[cur])
      /\ \A i \in DOMAIN areas[n] : areas[n][i] = Null \/ areas[n][i] = areas[cur][i]
      /\ \A w \in Page :
            /\ pte[n][w] # NoPte => pte[cur][w] # NoPte /\ pte[n][w].frame = pte[cur][w].frame
            /\ pte[cur][w] # NoPte /\ InAreas(n, w) => pte[n][w] # NoPte
            /\ pte[cur][w] # NoPte /\ w \in PagesOf(cur, k) => pte[n][w] # NoPte \/ w \in job.todo
  BY <1>1, CopiedFacts
<1>3. PICK v \in Page :
          /\ NextPage(v)
          /\ \/ /\ pte[cur][v] = NoPte
                /\ job' = [job EXCEPT !.todo = @ \ {v}]
                /\ UNCHANGED pte
             \/ /\ pte[cur][v] # NoPte
                /\ pte' = [pte EXCEPT ![cur][v] = Downgraded(pte[cur][v])]
                /\ job' = [job EXCEPT !.op = "map", !.page = v, !.rw = FALSE,
                              !.frame = pte[cur][v].frame, !.cow = pte[cur][v].rw \/ pte[cur][v].cow,
                              !.todo = @ \ {v}]
             \/ job' = [job EXCEPT !.op = "panic_retain"]
  BY DEF SharePage
<1>4. CASE pte[cur][v] = NoPte /\ job' = [job EXCEPT !.todo = @ \ {v}] /\ UNCHANGED pte
  <2>1. job'.op = "share" /\ job'.to = n /\ job'.why = "fork" /\ job'.todo = job.todo \ {v}
    BY <1>1, <1>4 DEF JobSet
  <2>2. Copied'
    BY <1>1, <1>2, <1>4, <2>1 DEF Copied, InAreas, PagesOf
  <2> QED
    BY <1>1, <1>4, <2>1, <2>2, GoesOn
<1>5. CASE /\ pte[cur][v] # NoPte
           /\ pte' = [pte EXCEPT ![cur][v] = Downgraded(pte[cur][v])]
           /\ job' = [job EXCEPT !.op = "map", !.page = v, !.rw = FALSE,
                         !.frame = pte[cur][v].frame, !.cow = pte[cur][v].rw \/ pte[cur][v].cow,
                         !.todo = @ \ {v}]
  <2>1. /\ job'.op = "map" /\ job'.to = n /\ job'.why = "fork" /\ job'.todo = job.todo \ {v}
        /\ job'.page = v /\ job'.frame = pte[cur][v].frame
    BY <1>1, <1>5 DEF JobSet
  <2>2. pte[cur][v] \in Pte
    BY <1>2, <1>5 DEF Types, Entry
  <2>3. /\ Downgraded(pte[cur][v]) \in Entry
        /\ Downgraded(pte[cur][v]).frame = pte[cur][v].frame
    BY <2>2, DowngradedEntry
  <2>4. Downgraded(pte[cur][v]) # NoPte
    BY <1>2, <1>5, <2>3, EntryFrames
  <2>5. Entered(cur, v, Downgraded(pte[cur][v]))
    BY <1>5 DEF Entered
  <2>6. /\ pte'[cur][v] = Downgraded(pte[cur][v]) /\ pte'[n] = pte[n]
        /\ \A m \in Space, w \in Page : ~(m = cur /\ w = v) => pte'[m][w] = pte[m][w]
    BY <1>2, <2>3, <2>5, EntrySet
  <2>7. \A m \in Space, w \in Page : /\ pte'[m][w] = NoPte <=> pte[m][w] = NoPte
                                     /\ pte'[m][w].frame = pte[m][w].frame
    BY <1>5, <2>3, <2>4, <2>6
  <2>8. Copied'
    BY <1>1, <1>2, <1>5, <2>1, <2>7 DEF Copied, InAreas, PagesOf
  <2> QED
    BY <1>1, <2>1, <2>7, <2>8, GoesOn
<1>6. CASE job' = [job EXCEPT !.op = "panic_retain"]
  BY <1>1, <1>6 DEF RInv, Halts, JobSet
<1> QED
  BY <1>3, <1>4, <1>5, <1>6

-----------------------------------------------------------------------------
(* Mapping a page                                                          *)

\* The entry of a child of fork.
LEMMA MapForkRInv ==
    ASSUME IInv, RInv, job.op = "map", job.why = "fork", NEW e \in Pte, e.frame = job.frame,
           pte' = [pte EXCEPT ![job.to][job.page] = e],
           job' = [job EXCEPT !.op = "share", !.frame = NoFrame, !.cow = FALSE],
           UNCHANGED <<areas, cur, io>>
    PROVE  RInv'
<1> DEFINE n == job.to
           k == Len(areas[n]) + 1
           v == job.page
<1>1. /\ n \in Space /\ cur \in Space /\ cur # n /\ Types /\ v \in Page
      /\ Len(areas[n]) <= Len(areas[cur]) /\ Copying
      /\ \A i \in DOMAIN areas[n] : areas[n][i] = Null \/ areas[n][i] = areas[cur][i]
      /\ \A w \in Page :
            /\ pte[n][w] # NoPte => pte[cur][w] # NoPte /\ pte[n][w].frame = pte[cur][w].frame
            /\ pte[cur][w] # NoPte /\ InAreas(n, w) => pte[n][w] # NoPte
            /\ pte[cur][w] # NoPte /\ w \in PagesOf(cur, k) =>
                   pte[n][w] # NoPte \/ w \in job.todo \/ w = v
      /\ pte[cur][v] # NoPte /\ job.frame = pte[cur][v].frame
  BY CopiedFacts DEF Copying
<1>2. /\ job'.op = "share" /\ job'.to = n /\ job'.why = "fork" /\ job'.todo = job.todo
  BY <1>1 DEF Types, JobSet
<1>3. e \in Entry /\ Entered(n, v, e) /\ e # NoPte
  BY <1>1, EntryFrames DEF Entry, Entered, Pte
<1>4. /\ pte'[n][v] = e /\ pte'[cur] = pte[cur]
      /\ \A m \in Space, w \in Page : ~(m = n /\ w = v) => pte'[m][w] = pte[m][w]
  BY <1>1, <1>3, EntrySet
<1>5. \A w \in Page : w # v => pte'[n][w] = pte[n][w]
  BY <1>1, <1>4
<1>6. Copied'
  BY <1>1, <1>2, <1>3, <1>4, <1>5 DEF Copied, InAreas, PagesOf
<1> QED
  BY <1>1, <1>2, <1>4, <1>6, GoesOn

LEMMA MapRInv == ASSUME IInv, RInv, MapStep PROVE RInv'
<1> DEFINE m == job.to
           v == job.page
           e == [frame |-> job.frame, rw |-> job.rw, cow |-> job.cow]
<1>1. /\ job.op = "map" /\ m \in Space /\ v \in Page /\ job.frame \in Frame /\ job \in JobSet
      /\ Types /\ Counts /\ Spaces /\ Present /\ Reads /\ Arriving /\ Starting /\ Copied
      /\ UNCHANGED io
  BY MapHandling DEF MapStep, IInv, RInv, Halts
<1>2. ASSUME NEW f \in Frame, FirstFree(f), data' = [data EXCEPT ![f] = Zero],
             UNCHANGED <<pte, areas, cur, job>>
      PROVE  RInv'
  <2>1. job.frame # f
    BY <1>1, <1>2, FreshFrame
  <2>2. data'[job.frame] = data[job.frame]
    BY <1>1, <1>2, <2>1 DEF Types
  <2>3. Arriving'
    BY <1>1, <1>2, <2>2 DEF Arriving, InAreas, Fresh
  <2>4. Present' /\ Reads' /\ Starting' /\ Copied'
    BY <1>1, <1>2 DEF Present, Reads, Starting, Copied, Copying, InAreas, PagesOf
  <2> QED
    BY <2>3, <2>4 DEF RInv
<1>3. ASSUME job.why = "fork", areas' = [areas EXCEPT ![m] = Append(@, Null)],
             job' = [job EXCEPT !.op = "share", !.frame = NoFrame, !.cow = FALSE,
                                !.todo = PagesOf(cur, Len(areas[m]) + 2)],
             UNCHANGED <<pte, cur>>
      PROVE  RInv'
  <2> DEFINE k == Len(areas[m]) + 1
  <2>1. Copying
    BY <1>1, <1>3 DEF Copying
  <2>2. k \in Nat /\ v \in PagesOf(cur, k)
    BY <1>1, <2>1, CopiedFacts
  <2>3. k \in DOMAIN areas[cur] /\ k + 1 = Len(areas[m]) + 2
    BY <1>1, <2>2 DEF PagesOf, Types
  <2>4. /\ job'.op = "share" /\ job'.to = m /\ job'.why = "fork" /\ job'.todo = PagesOf(cur, k + 1)
    BY <1>1, <1>3, <2>3 DEF JobSet
  <2> QED
    BY <1>1, <1>3, <2>1, <2>3, <2>4, ImageBlocks, BlockCopied
<1>4. ASSUME job.why # "fork", Fail, UNCHANGED <<pte, areas>> PROVE RInv'
  <2>1. job'.op = "fail"
    BY <1>1, <1>4 DEF Fail, JobSet
  <2> QED
    BY <1>1, <1>4, <2>1, QuietRInv DEF Halts, Copying
<1>5. ASSUME pte' = [pte EXCEPT ![m][v] = e], job.why = "fork",
             job' = [job EXCEPT !.op = "share", !.frame = NoFrame, !.cow = FALSE],
             UNCHANGED <<areas, cur>>
      PROVE  RInv'
  <2>1. e \in Pte /\ e.frame = job.frame
    BY <1>1 DEF Pte, JobSet
  <2> QED
    BY <1>1, <1>5, <2>1, MapForkRInv
<1>6. ASSUME pte' = [pte EXCEPT ![m][v] = e], job.why # "fork", job' = NoJob, UNCHANGED areas
      PROVE  RInv'
  <2>1. job'.op = "none"
    BY <1>6, NoJobType
  <2>2. e \in Entry /\ Entered(m, v, e)
    BY <1>1, <1>6 DEF Pte, JobSet, Entry, Entered
  <2>3. \A n \in Space, w \in Page : ~(n = m /\ w = v) => pte'[n][w] = pte[n][w]
    BY <1>1, <2>2, EntrySet
  <2>4. \E i \in DOMAIN areas[m] : i \in DOMAIN Blocks /\ v \in Blocks[i].pages
    <3>1. PICK i \in DOMAIN areas[m] : v \in areas[m][i].pages
      BY <1>1, <1>6 DEF Arriving, InAreas
    <3> QED
      BY <1>1, <3>1, AreaBlock
  <2>5. Present'
    BY <1>1, <1>6, <2>3, <2>4 DEF Present, Copying
  <2>6. Reads' /\ Arriving' /\ Starting' /\ Copied'
    BY <1>1, <1>6, <2>1 DEF Reads, Arriving, Starting, Copied, Copying
  <2> QED
    BY <2>5, <2>6 DEF RInv
<1>7. \/ \E f \in Frame : /\ FirstFree(f) /\ data' = [data EXCEPT ![f] = Zero]
                          /\ UNCHANGED <<pte, areas, cur, job>>
      \/ /\ job.why = "fork" /\ areas' = [areas EXCEPT ![m] = Append(@, Null)]
         /\ job' = [job EXCEPT !.op = "share", !.frame = NoFrame, !.cow = FALSE,
                               !.todo = PagesOf(cur, Len(areas[m]) + 2)]
         /\ UNCHANGED <<pte, cur>>
      \/ job.why # "fork" /\ Fail /\ UNCHANGED <<pte, areas>>
      \/ /\ pte' = [pte EXCEPT ![m][v] = e] /\ job.why = "fork"
         /\ job' = [job EXCEPT !.op = "share", !.frame = NoFrame, !.cow = FALSE]
         /\ UNCHANGED <<areas, cur>>
      \/ pte' = [pte EXCEPT ![m][v] = e] /\ job.why # "fork" /\ job' = NoJob /\ UNCHANGED areas
  BY DEF MapStep
<1> HIDE DEF e
<1> QED
  BY <1>2, <1>3, <1>4, <1>5, <1>6, <1>7

-----------------------------------------------------------------------------
(* The strengthened invariant                                              *)

LEMMA NextRInv == IInv /\ RInv /\ [Next]_vars => RInv'
<1> SUFFICES ASSUME IInv, RInv, [Next]_vars PROVE RInv'
  OBVIOUS
<1>1. ASSUME NEW m \in Space,
             \/ Access(m) \/ Fault(m) \/ Sbrk(m) \/ Switch(m)
             \/ ReadDone(m) \/ ExecFails(m) \/ ExecCommits(m)
      PROVE  RInv'
  BY <1>1, UserRInv, SbrkRInv, ReadDoneRInv, ExecFailsRInv, ExecCommitsRInv
<1>2. ASSUME NEW m \in Space, Exit(m) PROVE RInv'
  BY <1>2, EndRInv, NoJobType DEF Exit, InUser
<1>3. ASSUME NEW m \in Space, NEW n \in Space, Fork(m, n) \/ Exec(m, n) PROVE RInv'
  BY <1>3, ForkRInv, ExecRInv
<1>4. CASE CowStep \/ DemandStep \/ MapStep \/ FailStep \/ SharePage \/ ShareBlock
  BY <1>4, CowRInv, DemandRInv, MapRInv, FailRInv, SharePageRInv, ShareBlockRInv
<1>5. CASE Halted \/ UNCHANGED vars
  <2>1. UNCHANGED <<data, pte, areas, cur, io, job>>
    BY <1>5 DEF Halted, vars, spaceVars
  <2> QED
    BY <2>1 DEF RInv, Present, Reads, Arriving, Starting, Copied, Copying, InAreas, PagesOf, Fresh
<1> QED
  BY <1>1, <1>2, <1>3, <1>4, <1>5 DEF Next

\* Beyond IInv: which contents a frame on its way to a page has, and which
\* pages the child of a fork has got so far (vmm_share_block, vmm_handle_page_fault).
THEOREM ContentsInvariant == Spec => [](IInv /\ RInv)
<1>1. Init => IInv /\ RInv
  BY InitIInv, InitRInv
<1>2. IInv /\ RInv /\ [Next]_vars => (IInv /\ RInv)'
  BY NextIInv, NextRInv
<1> QED
  BY <1>1, <1>2, PTL DEF Spec

-----------------------------------------------------------------------------
(* Memory as the programs see it                                           *)

\* A running space has the blocks of its program, so what sbrk() adds is heap.
Grown == \A m \in Space : status[m] = "live" => Len(areas[m]) >= Len(Image)

Mem == [m \in Space |-> View(m)]
Nothing == [v \in Page |-> Gone]

LEMMA InitGrown == Init => Grown
BY DEF Init, Grown

\* A space starts to run with its image, or with as many blocks as its parent.
LEMMA NextGrown == IInv /\ RInv /\ Grown /\ [Next]_vars => Grown'
<1> SUFFICES ASSUME IInv, RInv, Grown, [Next]_vars PROVE Grown'
  OBVIOUS
<1>1. Types /\ Image \in Seq(Block) /\ Len(Image) \in Nat
  BY VmmAssumption DEF IInv
<1>2. ASSUME UNCHANGED <<areas, status>> PROVE Grown'
  BY <1>2 DEF Grown
<1>3. ASSUME NEW n \in Space, areas' = areas,
             status' = [status EXCEPT ![n] = "loading"] \/ status' = [status EXCEPT ![n] = "free"]
      PROVE  Grown'
  <2>1. \A m \in Space : status'[m] = "live" => status[m] = "live" /\ areas'[m] = areas[m]
    BY <1>1, <1>3 DEF Types
  <2> QED
    BY <2>1 DEF Grown
<1>4. ASSUME NEW n \in Space, NEW b \in Block, areas' = [areas EXCEPT ![n] = Append(@, b)],
             UNCHANGED status
      PROVE  Grown'
  <2>1. \A m \in Space : areas[m] \in Seq(Block)
    BY <1>1 DEF Types
  <2>2. areas'[n] = Append(areas[n], b) /\ \A m \in Space : m # n => areas'[m] = areas[m]
    BY <1>1, <1>4 DEF Types
  <2>3. Len(areas'[n]) = Len(areas[n]) + 1 /\ Len(areas[n]) \in Nat
    BY <2>1, <2>2
  <2>4. ASSUME NEW m \in Space, status[m] = "live" PROVE Len(areas'[m]) >= Len(Image)
    <3>1. Len(areas[m]) >= Len(Image)
      BY <2>4 DEF Grown
    <3> QED
      BY <1>1, <2>2, <2>3, <3>1
  <2> QED
    BY <1>4, <2>4 DEF Grown
<1>5. ASSUME NEW m \in Space, End(m) PROVE Grown'
  <2>1. CASE areas' = [areas EXCEPT ![m] = <<>>] /\ status' = [status EXCEPT ![m] = "free"]
    BY <1>1, <2>1 DEF Grown, Types
  <2> QED
    BY <1>2, <1>5, <2>1 DEF End, BadFree, spaceVars
<1>6. ASSUME NEW m \in Space, ExecCommits(m) PROVE Grown'
  <2> DEFINE n == io[m].next
  <2>1. n \in Space /\ status[n] = "loading" /\ status[m] = "live"
    BY <1>6 DEF ExecCommits, IInv, Waits
  <2>2. CASE areas' = [areas EXCEPT ![m] = <<>>, ![n] = Image] /\ status' = [status EXCEPT ![m] = "free"]
    <3>1. \A k \in Space : status'[k] = "live" => status[k] = "live" /\ areas'[k] = areas[k]
      BY <1>1, <2>1, <2>2 DEF Types
    <3> QED
      BY <3>1 DEF Grown
  <2> QED
    BY <1>2, <1>6, <2>2 DEF ExecCommits, BadFree, spaceVars
<1>7. CASE MapStep
  <2>1. CASE job.why = "exec" /\ status' = [status EXCEPT ![job.to] = "live"] /\ UNCHANGED areas
    <3>1. areas[job.to] = Image
      BY <1>7, <2>1 DEF MapStep, RInv, Halts, Starting
    <3> QED
      BY <1>1, <2>1, <3>1 DEF Grown, Types
  <2>2. \/ UNCHANGED <<areas, status>>
        \/ /\ areas' = [areas EXCEPT ![job.to] = Append(@, Null)]
           /\ UNCHANGED status
        \/ job.why = "exec" /\ status' = [status EXCEPT ![job.to] = "live"] /\ UNCHANGED areas
    BY <1>7 DEF MapStep
  <2> QED
    BY <1>2, <1>4, <1>7, <2>1, <2>2, MapHandling, ImageBlocks DEF MapStep
<1>8. CASE ShareBlock
  <2> DEFINE n == job.to
             i == Len(areas[n]) + 1
  <2>1. /\ job.op = "share" /\ job.why = "fork" /\ Copying
    BY <1>8 DEF ShareBlock, IInv, Handling, Busy, Copying
  <2>2. /\ n \in Space /\ cur \in Space /\ status[cur] = "live"
        /\ areas[n] \in Seq(Block) /\ areas[cur] \in Seq(Block) /\ Len(areas[n]) <= Len(areas[cur])
    BY <2>1, CopiedFacts, ForkHandling
  <2>3. CASE i \in DOMAIN areas[cur] /\ areas' = [areas EXCEPT ![n] = Append(@, areas[cur][i])]
             /\ UNCHANGED status
    <3>1. areas[cur][i] \in Block
      BY <2>2, <2>3
    <3> QED
      BY <1>4, <2>2, <2>3, <3>1
  <2>4. CASE i \notin DOMAIN areas[cur] /\ status' = [status EXCEPT ![n] = "live"] /\ UNCHANGED areas
    <3>1. Len(areas[n]) = Len(areas[cur])
      BY <2>2, <2>4
    <3>2. Len(areas[n]) >= Len(Image)
      BY <2>2, <3>1 DEF Grown
    <3> QED
      BY <1>1, <2>4, <3>2 DEF Grown, Types
  <2> QED
    BY <1>2, <1>8, <2>3, <2>4 DEF ShareBlock
<1>9. ASSUME NEW m \in Space, Access(m) \/ Fault(m) \/ Switch(m) \/ ReadDone(m) PROVE Grown'
  BY <1>2, <1>9 DEF Access, Fault, Switch, ReadDone, spaceVars
<1>10. ASSUME NEW m \in Space, Sbrk(m) PROVE Grown'
  <2>1. Blocks[Len(areas[m]) + 1] \in Block
    BY <1>1, <1>10, ImageBlocks DEF Sbrk, Types
  <2> QED
    BY <1>4, <1>10, <2>1 DEF Sbrk
<1>11. ASSUME NEW m \in Space, ExecFails(m) PROVE Grown'
  <2>1. io[m].next \in Space
    BY <1>11 DEF ExecFails, IInv, Waits
  <2> QED
    BY <1>2, <1>3, <1>11, <2>1 DEF ExecFails, BadFree, spaceVars
<1>12. ASSUME NEW m \in Space, NEW n \in Space, Fork(m, n) \/ Exec(m, n) PROVE Grown'
  BY <1>2, <1>3, <1>12 DEF Fork, Exec, NewSpace, NoSpace, spaceVars
<1>13. CASE CowStep \/ DemandStep \/ SharePage \/ Halted \/ UNCHANGED vars
  BY <1>2, <1>13 DEF CowStep, DemandStep, SharePage, Halted, vars, spaceVars
<1>14. CASE FailStep
  <2>1. job.to \in Space
    BY <1>14 DEF FailStep, IInv, Handling, Busy
  <2> QED
    BY <1>2, <1>5, <1>14, <2>1 DEF FailStep, spaceVars
<1> QED
  BY <1>5, <1>6, <1>7, <1>8, <1>9, <1>10, <1>11, <1>12, <1>13, <1>14 DEF Next, Exit

-----------------------------------------------------------------------------
(* Steps that no program sees                                              *)

\* A page has the same contents before and after.
LEMMA SameView ==
    ASSUME NEW m \in Space, status'[m] = "live" <=> status[m] = "live",
           status[m] = "live" => \A v \in Page :
               /\ InAreas(m, v)' <=> InAreas(m, v)
               /\ \/ pte[m][v] = NoPte /\ pte'[m][v] = NoPte
                  \/ /\ pte'[m][v] # NoPte
                     /\ \/ /\ pte[m][v] # NoPte
                           /\ data'[pte'[m][v].frame] = data[pte[m][v].frame]
                        \/ /\ pte[m][v] = NoPte /\ InAreas(m, v)
                           /\ data'[pte'[m][v].frame] = Fresh(v)
    PROVE  View(m)' = View(m)
<1>1. CASE status[m] # "live"
  BY <1>1 DEF View
<1>2. CASE status[m] = "live"
  <2>1. \A v \in Page : View(m)'[v] = View(m)[v]
    BY <1>2 DEF View, InAreas, Fresh
  <2> QED
    BY <2>1 DEF View
<1> QED
  BY <1>1, <1>2

\* The frame of a page has a holder.
Backed == \A m \in Space, v \in Page :
              pte[m][v] # NoPte => pte[m][v].frame \in Frame /\ page_refs[pte[m][v].frame] # 0

LEMMA PagesHeld == IInv => Backed
<1> SUFFICES ASSUME IInv, NEW m \in Space, NEW v \in Page, pte[m][v] # NoPte
             PROVE  pte[m][v].frame \in Frame /\ page_refs[pte[m][v].frame] # 0
  BY DEF Backed
<1>1. pte[m][v].frame \in Frame
  BY EntryFrames DEF IInv
<1> QED
  BY <1>1, HeldCounted DEF IInv

\* Frames that nobody holds are not looked at.
LEMMA LeftoverKept ==
    ASSUME IInv', Leftover, NEW m \in Space, NEW v \in Page, pte'[m][v] # NoPte
    PROVE  data'[pte'[m][v].frame] = data[pte'[m][v].frame]
<1>1. (IInv => Backed)'
  BY PagesHeld, PTL
<1>2. pte'[m][v].frame \in Frame /\ page_refs'[pte'[m][v].frame] # 0
  BY <1>1 DEF Backed
<1> QED
  BY <1>2 DEF Leftover

\* Entries stay as they are, and the frames behind them too.
LEMMA Unseen ==
    ASSUME UNCHANGED <<pte, areas>>,
           \A m \in Space : status'[m] = "live" <=> status[m] = "live",
           \A m \in Space, v \in Page :
               pte[m][v] # NoPte => data'[pte[m][v].frame] = data[pte[m][v].frame]
    PROVE  UNCHANGED Mem
<1>1. ASSUME NEW m \in Space PROVE View(m)' = View(m)
  <2>1. \A v \in Page : InAreas(m, v)' <=> InAreas(m, v)
    BY DEF InAreas
  <2>2. \A v \in Page :
            \/ pte[m][v] = NoPte /\ pte'[m][v] = NoPte
            \/ /\ pte'[m][v] # NoPte
               /\ pte[m][v] # NoPte
               /\ data'[pte'[m][v].frame] = data[pte[m][v].frame]
    OBVIOUS
  <2> QED
    BY <2>1, <2>2, SameView
<1> QED
  BY <1>1 DEF Mem

LEMMA LeftoverUnseen ==
    ASSUME IInv', Leftover, UNCHANGED <<pte, areas>>,
           \A m \in Space : status'[m] = "live" <=> status[m] = "live"
    PROVE  UNCHANGED Mem
BY LeftoverKept, Unseen

\* A frame that no page has may be filled.
LEMMA FilledUnseen ==
    ASSUME IInv, NEW f \in Frame, \A m \in Space, v \in Page : pte[m][v].frame # f,
           NEW x, data' = [data EXCEPT ![f] = x], UNCHANGED <<pte, areas>>,
           \A m \in Space : status'[m] = "live" <=> status[m] = "live"
    PROVE  UNCHANGED Mem
<1>1. \A g : g # f /\ g \in Frame => data'[g] = data[g]
  BY DEF IInv, Types
<1>2. \A m \in Space, v \in Page : pte[m][v] # NoPte => data'[pte[m][v].frame] = data[pte[m][v].frame]
  BY <1>1, PagesHeld DEF Backed
<1> QED
  BY <1>2, Unseen

\* fork and exec make a space, and that is not seen yet.
LEMMA NewSpaceUnseen ==
    ASSUME IInv, NEW n \in Space, NEW f \in Frame, NewSpace(n, f), status[n] = "free"
    PROVE  UNCHANGED Mem
<1>1. UNCHANGED <<pte, areas>> /\ data' = [data EXCEPT ![f] = Zero] /\ FirstFree(f)
  BY DEF NewSpace
<1>2. \A m \in Space : status'[m] = "live" <=> status[m] = "live"
  BY DEF NewSpace, IInv, Types
<1>3. \A m \in Space, v \in Page : pte[m][v].frame # f
  BY <1>1, FreshFrame DEF IInv
<1> QED
  BY <1>1, <1>2, <1>3, FilledUnseen

LEMMA BirthUnseen ==
    ASSUME IInv, NEW m \in Space, NEW n \in Space, Fork(m, n) \/ Exec(m, n)
    PROVE  UNCHANGED Mem
<1>1. CASE NoSpace
  BY <1>1, Unseen DEF NoSpace, spaceVars
<1> QED
  BY <1>1, NewSpaceUnseen DEF Fork, Exec

\* A page of the executable comes into a frame that only the reader holds.
LEMMA ReadUnseen ==
    ASSUME IInv, IInv', NEW m \in Space, ReadDone(m)
    PROVE  UNCHANGED Mem
<1> DEFINE f == io[m].frame
<1>1. io[m].op = "read" /\ UNCHANGED <<pte, areas, status>>
  BY DEF ReadDone, spaceVars
<1>2. f \in Frame /\ Sole(f)
  BY <1>1 DEF IInv, Waits, Soles
<1>3. \A n \in Space, v \in Page : pte[n][v].frame # f
  BY <1>2, SoleHolder DEF IInv
<1>4. CASE Leftover
  BY <1>1, <1>4, LeftoverUnseen
<1>5. CASE data' = [data EXCEPT ![f] = FileVal]
  BY <1>1, <1>2, <1>3, <1>5, FilledUnseen
<1> QED
  BY <1>4, <1>5 DEF ReadDone

\* A page that is missing is prepared.
LEMMA DemandUnseen ==
    ASSUME IInv, DemandStep
    PROVE  UNCHANGED Mem
<1>1. UNCHANGED <<pte, areas, status>>
  BY DEF DemandStep, spaceVars
<1>2. CASE UNCHANGED data
  BY <1>1, <1>2, Unseen
<1>3. ASSUME NEW f \in Frame, FirstFree(f), data' = [data EXCEPT ![f] = Zero]
      PROVE  UNCHANGED Mem
  <2>1. \A m \in Space, v \in Page : pte[m][v].frame # f
    BY <1>3, FreshFrame DEF IInv
  <2> QED
    BY <1>1, <1>3, <2>1, FilledUnseen
<1> QED
  BY <1>2, <1>3 DEF DemandStep

\* One entry gets another frame with the same contents.
LEMMA EntryUnseen ==
    ASSUME IInv, NEW m \in Space, NEW v \in Page, NEW e \in Entry, Entered(m, v, e),
           pte[m][v] # NoPte, e # NoPte, UNCHANGED <<areas, status>>,
           data'[e.frame] = data[pte[m][v].frame],
           \A n \in Space, w \in Page :
               pte[n][w] # NoPte => data'[pte[n][w].frame] = data[pte[n][w].frame]
    PROVE  UNCHANGED Mem
<1>1. /\ pte'[m][v] = e
      /\ \A n \in Space, w \in Page : ~(n = m /\ w = v) => pte'[n][w] = pte[n][w]
  BY EntrySet DEF IInv
<1>2. ASSUME NEW n \in Space PROVE View(n)' = View(n)
  <2>1. \A w \in Page : InAreas(n, w)' <=> InAreas(n, w)
    BY DEF InAreas
  <2>2. \A w \in Page :
            \/ pte[n][w] = NoPte /\ pte'[n][w] = NoPte
            \/ /\ pte'[n][w] # NoPte
               /\ pte[n][w] # NoPte
               /\ data'[pte'[n][w].frame] = data[pte[n][w].frame]
    BY <1>1
  <2> QED
    BY <2>1, <2>2, SameView
<1> QED
  BY <1>2 DEF Mem

LEMMA CowUnseen ==
    ASSUME IInv, CowStep
    PROVE  UNCHANGED Mem
<1> DEFINE m == job.to
           v == job.page
           old == pte[m][v].frame
<1>1. m \in Space /\ v \in Page /\ UNCHANGED <<areas, status>>
  BY DEF CowStep, IInv, Handling, Busy
<1>2. CASE UNCHANGED <<pte, data>>
  BY <1>1, <1>2, Unseen
<1>3. ASSUME pte[m][v].cow, NEW f \in Frame,
             pte' = [pte EXCEPT ![m][v] = [frame |-> f, rw |-> TRUE, cow |-> FALSE]],
             \/ FirstFree(f) /\ data' = [data EXCEPT ![f] = data[old]]
             \/ f = old /\ UNCHANGED data
      PROVE  UNCHANGED Mem
  <2> DEFINE e == [frame |-> f, rw |-> TRUE, cow |-> FALSE]
  <2>1. pte[m][v] # NoPte /\ old \in Frame
    BY <1>1, <1>3, EntryFrames DEF IInv
  <2>2. e \in Entry /\ Entered(m, v, e) /\ e # NoPte /\ e.frame = f
    BY <1>3, EntryFrames DEF Entry, Entered, Pte, IInv
  <2>3. data'[f] = data[old]
    BY <1>3 DEF IInv, Types
  <2>4. \A n \in Space, w \in Page :
            pte[n][w] # NoPte => data'[pte[n][w].frame] = data[pte[n][w].frame]
    <3>1. CASE FirstFree(f) /\ data' = [data EXCEPT ![f] = data[old]]
      <4>1. \A n \in Space, w \in Page : pte[n][w].frame # f
        BY <3>1, FreshFrame DEF IInv
      <4> QED
        BY <3>1, <4>1, PagesHeld DEF Backed, IInv, Types
    <3> QED
      BY <1>3, <3>1
  <2> HIDE DEF e
  <2> QED
    BY <1>1, <2>1, <2>2, <2>3, <2>4, EntryUnseen
<1>4. \/ UNCHANGED <<pte, data>>
      \/ /\ pte[m][v].cow
         /\ \E f \in Frame :
                /\ FirstFree(f) /\ data' = [data EXCEPT ![f] = data[old]]
                /\ pte' = [pte EXCEPT ![m][v] = [frame |-> f, rw |-> TRUE, cow |-> FALSE]]
      \/ /\ pte[m][v].cow /\ UNCHANGED data
         /\ pte' = [pte EXCEPT ![m][v] = [frame |-> old, rw |-> TRUE, cow |-> FALSE]]
  BY DEF CowStep
<1>5. pte[m][v].cow => old \in Frame
  BY <1>1, EntryFrames DEF IInv
<1> QED
  BY <1>2, <1>3, <1>4, <1>5

\* The page that parent and child share is read-only from now on.
LEMMA ShareUnseen ==
    ASSUME IInv, SharePage
    PROVE  UNCHANGED Mem
<1>1. cur \in Space /\ UNCHANGED <<data, areas, status>> /\ Types
  BY ForkHandling DEF SharePage, IInv, Handling, Busy
<1>2. CASE UNCHANGED pte
  BY <1>1, <1>2, Unseen
<1>3. ASSUME NEW v \in Page, pte[cur][v] # NoPte,
             pte' = [pte EXCEPT ![cur][v] = Downgraded(pte[cur][v])]
      PROVE  UNCHANGED Mem
  <2>1. pte[cur][v] \in Pte
    BY <1>1, <1>3 DEF Types, Entry
  <2>2. /\ Downgraded(pte[cur][v]) \in Entry
        /\ Downgraded(pte[cur][v]).frame = pte[cur][v].frame
    BY <2>1, DowngradedEntry
  <2>3. Downgraded(pte[cur][v]) # NoPte
    BY <1>1, <1>3, <2>2, EntryFrames
  <2> QED
    BY <1>1, <1>3, <2>2, <2>3, EntryUnseen DEF Entered
<1> QED
  BY <1>2, <1>3 DEF SharePage

LEMMA ExecFailsUnseen ==
    ASSUME IInv, IInv', NEW m \in Space, ExecFails(m)
    PROVE  UNCHANGED Mem
<1> DEFINE n == io[m].next
<1>1. /\ n \in Space /\ status[n] = "loading" /\ job.op # "map" /\ Types /\ Counts
  BY DEF ExecFails, IInv, Waits
<1>2. VmmFree(n) /\ status' = [status EXCEPT ![n] = "free"] /\ UNCHANGED areas
  BY <1>1, FreeAllowed DEF ExecFails
<1>3. \A k \in Space : k # n => pte'[k] = pte[k]
  BY <1>1, <1>2, Freed
<1>4. ASSUME NEW k \in Space PROVE View(k)' = View(k)
  <2>1. CASE k = n
    BY <1>1, <1>2, <2>1, SameView DEF Types
  <2>2. CASE k # n
    <3>1. \A v \in Page : InAreas(k, v)' <=> InAreas(k, v)
      BY <1>2 DEF InAreas
    <3>2. \A v \in Page : pte'[k][v] # NoPte => data'[pte'[k][v].frame] = data[pte'[k][v].frame]
      BY <1>2, LeftoverKept DEF VmmFree
    <3>3. status'[k] = status[k] /\ pte'[k] = pte[k]
      BY <1>1, <1>2, <1>3, <2>2 DEF Types
    <3> QED
      BY <3>1, <3>2, <3>3, SameView
  <2> QED
    BY <2>1, <2>2
<1> QED
  BY <1>4 DEF Mem

-----------------------------------------------------------------------------
(* Steps that a program sees                                               *)

\* One space changes.
LEMMA MemSet ==
    ASSUME NEW m \in Space, \A n \in Space : n # m => View(n)' = View(n)
    PROVE  Mem' = [Mem EXCEPT ![m] = View(m)']
BY DEF Mem

LEMMA MemAt == ASSUME NEW m \in Space PROVE Mem[m] = View(m)
BY DEF Mem


-----------------------------------------------------------------------------
(* Why a fault is refused                                                  *)

\* An entry that allows no write lets the page be copied, or the page is none
\* to be written.
MayWrite(e, v) == v \in Writable <=> e.rw \/ e.cow

Entries == \A m \in Space, v \in Page : pte[m][v] # NoPte => MayWrite(pte[m][v], v)
Arrivals == \A m \in Space : io[m].op = "read" => (io[m].page \in Writable <=> io[m].rw)
Faults ==
    /\ job.op = "demand" => ~job.cow /\ pte[job.to][job.page] = NoPte
    /\ job.op = "cow" => pte[job.to][job.page] # NoPte /\ ~pte[job.to][job.page].rw
Mappings == job.op = "map" => (job.page \in Writable <=> job.rw \/ job.cow)

\* A fork that lost a block goes on without a free frame.
Shortage == Copying /\ (\E i \in DOMAIN areas[job.to] : areas[job.to][i] = Null) => Exhausted

PInv == Entries /\ Arrivals /\ Faults /\ Mappings /\ Shortage

\* A page of a block may be written, and is on disk, when the block says so.
LEMMA BlockKind ==
    ASSUME NEW i \in DOMAIN Blocks, NEW v, v \in Blocks[i].pages
    PROVE  /\ v \in Writable <=> Blocks[i].write
           /\ v \in OnDisk <=> Blocks[i].file
           /\ Blocks[i].write \in BOOLEAN /\ Blocks[i].file \in BOOLEAN
<1>1. \A j \in DOMAIN Blocks : v \in Blocks[j].pages => j = i
  BY VmmAssumption
<1>2. v \in Writable <=> \E j \in DOMAIN Blocks : Blocks[j].write /\ v \in Blocks[j].pages
  BY DEF Writable
<1>3. v \in OnDisk <=> \E j \in DOMAIN Blocks : Blocks[j].file /\ v \in Blocks[j].pages
  BY DEF OnDisk
<1>4. Blocks[i] \in Block
  BY ImageBlocks
<1> QED
  BY <1>1, <1>2, <1>3, <1>4 DEF Block

LEMMA InitPInv == Init => PInv
<1> SUFFICES ASSUME Init PROVE PInv
  OBVIOUS
<1>1. \A m \in Space : pte[m] = Flushed /\ io[m] = NoIo
  BY DEF Init
<1>2. job.op = "demand" /\ job.to = First /\ First \in Space /\ job.page = StackTop /\ ~job.cow
  BY VmmAssumption DEF Init, NoJob
<1>3. \A m \in Space, v \in Page : pte[m][v] = NoPte
  BY <1>1 DEF Flushed
<1> QED
  BY <1>1, <1>2, <1>3, ImageBlocks, NoJobType
     DEF PInv, Entries, Arrivals, Faults, Mappings, Shortage, Copying

\* No fault is taken up, and no fork goes on.
LEMMA QuietPInv ==
    ASSUME PInv, ~Copying', job'.op \notin {"map", "demand", "cow"},
           \A m \in Space, v \in Page :
               pte'[m][v] # NoPte => \/ pte[m][v] # NoPte /\ pte'[m][v] = pte[m][v]
                                     \/ MayWrite(pte'[m][v], v),
           \A m \in Space : io'[m].op = "read" => io'[m] = io[m]
    PROVE  PInv'
<1>1. Entries'
  BY DEF PInv, Entries, MayWrite, Writable
<1>2. Arrivals'
  BY DEF PInv, Arrivals, Writable
<1> QED
  BY <1>1, <1>2 DEF PInv, Faults, Mappings, Shortage

LEMMA UserPInv ==
    ASSUME PInv, NEW m \in Space, Access(m) \/ Sbrk(m) \/ Switch(m)
    PROVE  PInv'
<1>1. job.op = "none" /\ UNCHANGED <<pte, io, job>>
  BY DEF Access, Sbrk, Switch, InUser, spaceVars
<1> QED
  BY <1>1, QuietPInv DEF Copying

\* What the CPU finds is what the page tables say.
LEMMA TranslationIs ==
    ASSUME IInv, NEW m \in Space, cur = m, NEW v \in Page
    PROVE  Translation(m, v) = pte[m][v]
BY VmmAssumption DEF IInv, TlbCoherent, Translation

LEMMA FaultPInv == ASSUME IInv, PInv, NEW m \in Space, Fault(m) PROVE PInv'
<1>1. job.op = "none" /\ cur = m /\ UNCHANGED <<pte, io>>
  BY DEF Fault, InUser, spaceVars
<1>2. PICK v \in Page, write \in BOOLEAN, why \in {"user", "kernel"} :
          /\ ~Allowed(Translation(m, v), write)
          /\ job' = [NoJob EXCEPT !.op = IF Translation(m, v) # NoPte THEN "cow" ELSE "demand",
                         !.to = m, !.page = v, !.rw = write, !.why = why]
  BY DEF Fault
<1>3. Translation(m, v) = pte[m][v]
  BY <1>1, TranslationIs
<1>4. /\ job'.op = IF pte[m][v] # NoPte THEN "cow" ELSE "demand"
      /\ job'.to = m /\ job'.page = v /\ ~job'.cow /\ job'.why # "fork"
  BY <1>2, <1>3 DEF NoJob
<1>5. pte[m][v] # NoPte => ~pte[m][v].rw
  BY <1>2, <1>3 DEF Allowed
<1>6. Faults'
  BY <1>1, <1>4, <1>5 DEF Faults
<1>7. Entries' /\ Arrivals' /\ Mappings' /\ Shortage'
  BY <1>1, <1>4 DEF PInv, Entries, Arrivals, Mappings, Shortage, Copying, MayWrite, Writable
<1> QED
  BY <1>6, <1>7 DEF PInv

LEMMA CowPInv == ASSUME IInv, PInv, CowStep PROVE PInv'
<1> DEFINE m == job.to
           v == job.page
<1>1. m \in Space /\ v \in Page /\ UNCHANGED io /\ Types
  BY DEF CowStep, IInv, Handling, Busy
<1>2. job'.op \in {"fail", "none"}
  BY NoJobType DEF CowStep, Fail, IInv, Types, JobSet
<1>3. CASE UNCHANGED pte
  BY <1>1, <1>2, <1>3, QuietPInv DEF Copying
<1>4. ASSUME pte[m][v].cow, NEW f \in Frame,
             pte' = [pte EXCEPT ![m][v] = [frame |-> f, rw |-> TRUE, cow |-> FALSE]]
      PROVE  PInv'
  <2> DEFINE e == [frame |-> f, rw |-> TRUE, cow |-> FALSE]
  <2>1. e \in Entry /\ Entered(m, v, e) /\ e.rw
    BY <1>4 DEF Entry, Entered, Pte
  <2>2. v \in Writable
    BY <1>1, <1>4, EntryFrames DEF PInv, Entries, MayWrite
  <2> HIDE DEF e
  <2>3. /\ pte'[m][v] = e
        /\ \A n \in Space, w \in Page : ~(n = m /\ w = v) => pte'[n][w] = pte[n][w]
    BY <1>1, <2>1, EntrySet
  <2> QED
    BY <1>1, <1>2, <2>1, <2>2, <2>3, QuietPInv DEF Copying, MayWrite
<1>5. pte[m][v].cow => pte[m][v].frame \in Frame
  BY <1>1, EntryFrames
<1> QED
  BY <1>3, <1>4, <1>5 DEF CowStep

\* The block that holds the page says whether it may be written.
LEMMA DemandPInv == ASSUME IInv, PInv, DemandStep PROVE PInv'
<1> DEFINE m == job.to
           v == job.page
<1>1. /\ m \in Space /\ v \in Page /\ UNCHANGED <<pte, areas>> /\ Types /\ Spaces /\ job \in JobSet
      /\ job.op = "demand" /\ ~job.cow /\ job.why # "fork"
  BY DEF DemandStep, IInv, Handling, Busy, PInv, Faults, spaceVars, Types, Forking
<1>2. CASE (Fail \/ job' = [job EXCEPT !.op = "wild"]) /\ UNCHANGED io
  <2>1. job'.op \in {"fail", "wild"}
    BY <1>1, <1>2 DEF Fail, JobSet
  <2> QED
    BY <1>1, <1>2, <2>1, QuietPInv DEF Copying
<1>3. ASSUME NEW i \in Hits(m, v), NEW f \in Frame, areas[m][i] # Null, areas[m][i].file, job' = NoJob,
             io' = [io EXCEPT ![m] = [NoIo EXCEPT !.op = "read", !.page = v, !.frame = f,
                                          !.rw = areas[m][i].write, !.why = job.why]]
      PROVE  PInv'
  <2>1. v \in areas[m][i].pages /\ i \in DOMAIN Blocks /\ areas[m][i] = Blocks[i]
    BY <1>1, <1>3 DEF Hits, Spaces
  <2>2. v \in Writable <=> areas[m][i].write
    BY <2>1, BlockKind
  <2> DEFINE d == [NoIo EXCEPT !.op = "read", !.page = v, !.frame = f,
                               !.rw = areas[m][i].write, !.why = job.why]
  <2>3. d.page = v /\ d.rw = areas[m][i].write
    BY DEF NoIo
  <2>4. io' = [io EXCEPT ![m] = d]
    BY <1>3
  <2> HIDE DEF d
  <2>5. \A n \in Space : io'[n] = IF n = m THEN d ELSE io[n]
    BY <1>1, <2>4 DEF Types
  <2>6. Arrivals'
    BY <2>2, <2>3, <2>5 DEF PInv, Arrivals, Writable
  <2>7. job'.op = "none"
    BY <1>3, NoJobType
  <2> QED
    BY <1>1, <2>6, <2>7 DEF PInv, Entries, Faults, Mappings, Shortage, Copying, MayWrite, Writable
<1>4. ASSUME NEW i \in Hits(m, v), NEW f \in Frame, areas[m][i] # Null, UNCHANGED io,
             job' = [job EXCEPT !.op = "map", !.frame = f, !.rw = areas[m][i].write]
      PROVE  PInv'
  <2>1. v \in areas[m][i].pages /\ i \in DOMAIN Blocks /\ areas[m][i] = Blocks[i]
    BY <1>1, <1>4 DEF Hits, Spaces
  <2>2. v \in Writable <=> areas[m][i].write
    BY <2>1, BlockKind
  <2>3. /\ job'.op = "map" /\ job'.to = m /\ job'.page = v /\ job'.why = job.why
        /\ job'.rw = areas[m][i].write /\ job'.cow = job.cow
    BY <1>1, <1>4 DEF JobSet
  <2> QED
    BY <1>1, <1>4, <2>2, <2>3
       DEF PInv, Entries, Arrivals, Faults, Mappings, Shortage, Copying, MayWrite, Writable
<1> QED
  BY <1>2, <1>3, <1>4 DEF DemandStep

LEMMA ReadDonePInv == ASSUME IInv, PInv, NEW m \in Space, ReadDone(m) PROVE PInv'
<1> DEFINE f == io[m].frame
           j == [NoJob EXCEPT !.to = m, !.page = io[m].page, !.why = io[m].why]
<1>1. /\ job.op = "none" /\ io[m].op = "read" /\ io' = [io EXCEPT ![m] = NoIo]
      /\ UNCHANGED pte /\ Types
  BY DEF ReadDone, spaceVars, IInv
<1>2. /\ \A n \in Space : io'[n].op = "read" => io'[n] = io[n]
      /\ io[m].why \in {"user", "kernel"}
  BY <1>1, NoJobType DEF IInv, Types, Waits
<1>3. CASE job' = [j EXCEPT !.op = "fail"]
  <2>1. job'.op = "fail"
    BY <1>3 DEF NoJob
  <2> QED
    BY <1>1, <1>2, <2>1, QuietPInv DEF Copying
<1>4. CASE job' = [j EXCEPT !.op = "map", !.frame = f, !.rw = io[m].rw]
  <2>1. /\ job'.op = "map" /\ job'.to = m /\ job'.page = io[m].page /\ job'.why = io[m].why
        /\ job'.rw = io[m].rw /\ ~job'.cow
    BY <1>4 DEF NoJob
  <2>2. Mappings'
    BY <1>1, <2>1 DEF PInv, Arrivals, Mappings, Writable
  <2> QED
    BY <1>1, <1>2, <2>1, <2>2 DEF PInv, Entries, Arrivals, Faults, Shortage, Copying, MayWrite, Writable
<1> QED
  BY <1>3, <1>4 DEF ReadDone

\* A space goes, and with it its entries.
LEMMA FreePInv ==
    ASSUME IInv, PInv, NEW n \in Space, VmmFree(n), job.op # "map",
           job'.op \notin {"map", "demand", "cow", "share"},
           \A m \in Space : io'[m].op = "read" => io'[m] = io[m]
    PROVE  PInv'
<1>1. pte'[n] = Flushed /\ \A k \in Space : k # n => pte'[k] = pte[k]
  BY Freed DEF IInv
<1>2. \A k \in Space, v \in Page : pte'[k][v] # NoPte => pte[k][v] # NoPte /\ pte'[k][v] = pte[k][v]
  BY <1>1 DEF Flushed
<1> QED
  BY <1>2, QuietPInv DEF Copying

LEMMA EndPInv ==
    ASSUME IInv, PInv, NEW m \in Space, job.op # "map", End(m)
    PROVE  PInv'
<1>1. VmmFree(m) /\ job' = NoJob /\ UNCHANGED io
  BY FreeAllowed DEF End, IInv
<1> QED
  BY <1>1, NoJobType, FreePInv

LEMMA FailPInv == ASSUME IInv, PInv, FailStep PROVE PInv'
<1>1. job.op = "fail" /\ job.to \in Space /\ job \in JobSet
  BY DEF FailStep, IInv, Handling, Busy, Types
<1>2. CASE End(job.to)
  BY <1>1, <1>2, EndPInv
<1>3. CASE /\ job' = [job EXCEPT !.op = IF job.why = "exec" THEN "panic_oom" ELSE "panic_fault"]
           /\ UNCHANGED <<pte, io>>
  <2>1. job'.op \in {"panic_oom", "panic_fault"}
    BY <1>1, <1>3 DEF JobSet
  <2> QED
    BY <1>3, <2>1, QuietPInv DEF Copying
<1> QED
  BY <1>2, <1>3 DEF FailStep, spaceVars

LEMMA ExecFailsPInv == ASSUME IInv, PInv, NEW m \in Space, ExecFails(m) PROVE PInv'
<1> DEFINE n == io[m].next
<1>1. n \in Space /\ job.op = "none" /\ Types /\ Counts
  BY DEF ExecFails, IInv, Waits
<1>2. VmmFree(n) /\ io' = [io EXCEPT ![m] = NoIo] /\ UNCHANGED job
  BY <1>1, FreeAllowed DEF ExecFails
<1>3. \A k \in Space : io'[k].op = "read" => io'[k] = io[k]
  BY <1>1, <1>2, NoJobType DEF Types
<1> QED
  BY <1>1, <1>2, <1>3, FreePInv

LEMMA ExecCommitsPInv == ASSUME IInv, RInv', PInv, NEW m \in Space, ExecCommits(m) PROVE PInv'
<1> DEFINE n == io[m].next
<1>1. n \in Space /\ job.op = "none" /\ Types /\ Counts
  BY DEF ExecCommits, IInv, Waits
<1>2. /\ VmmFree(m) /\ io' = [io EXCEPT ![m] = NoIo]
      /\ job' = [NoJob EXCEPT !.op = "demand", !.to = n, !.rw = TRUE,
                              !.page = StackTop, !.why = "exec"]
  BY <1>1, FreeAllowed DEF ExecCommits
<1>3. /\ job'.op = "demand" /\ job'.to = n /\ job'.page = StackTop /\ job'.why = "exec" /\ ~job'.cow
  BY <1>2 DEF NoJob
<1>4. pte'[n][StackTop] = NoPte
  BY <1>3, ImageBlocks DEF RInv, Halts, Starting, Flushed
<1>5. \A k \in Space : io'[k].op = "read" => io'[k] = io[k]
  BY <1>1, <1>2, NoJobType DEF Types
<1>6. pte'[m] = Flushed /\ \A k \in Space : k # m => pte'[k] = pte[k]
  BY <1>1, <1>2, Freed
<1>7. \A k \in Space, v \in Page : pte'[k][v] # NoPte => pte'[k][v] = pte[k][v]
  BY <1>6 DEF Flushed
<1> QED
  BY <1>3, <1>4, <1>5, <1>7 DEF PInv, Entries, Arrivals, Faults, Mappings, Shortage, Copying, MayWrite, Writable

LEMMA BirthPInv ==
    ASSUME IInv, PInv, NEW m \in Space, NEW n \in Space, Fork(m, n) \/ Exec(m, n)
    PROVE  PInv'
<1>1. job.op = "none" /\ status[n] = "free" /\ areas[n] = <<>> /\ Types
  BY DEF Fork, Exec, InUser, IInv, Spaces, Blank
<1>2. CASE NoSpace
  BY <1>2, QuietPInv DEF NoSpace, NoJob, Copying, spaceVars
<1>3. ASSUME NEW f \in Frame, NewSpace(n, f), UNCHANGED io,
             job' = [NoJob EXCEPT !.op = "share", !.to = n, !.why = "fork", !.todo = PagesOf(m, 1)]
      PROVE  PInv'
  <2>1. job'.op = "share" /\ job'.to = n /\ UNCHANGED <<pte, areas>>
    BY <1>3 DEF NoJob, NewSpace
  <2> QED
    BY <1>1, <1>3, <2>1 DEF PInv, Entries, Arrivals, Faults, Mappings, Shortage, Copying, MayWrite, Writable
<1>4. ASSUME NEW f \in Frame, NewSpace(n, f), UNCHANGED job,
             io' = [io EXCEPT ![m] = [NoIo EXCEPT !.op = "exec", !.next = n]]
      PROVE  PInv'
  <2>1. \A k \in Space : io'[k].op = "read" => io'[k] = io[k]
    BY <1>1, <1>4 DEF Types, NoIo
  <2> QED
    BY <1>1, <1>4, <2>1, QuietPInv DEF NewSpace, Copying
<1> QED
  BY <1>2, <1>3, <1>4 DEF Fork, Exec

\* What is retained is not free before or after.
LEMMA RetainedExhausted ==
    ASSUME IInv, Exhausted, NEW f \in Frame, page_refs' = Retained(f)
    PROVE  Exhausted'
<1>1. \A g \in Frame : page_refs[g] \in Nat /\ page_refs[g] # 0
  BY HeldCounted DEF IInv, Exhausted
<1>2. \A g \in Frame : page_refs'[g] = IF g = f THEN page_refs[g] + 1 ELSE page_refs[g]
  BY DEF Retained, IInv, Types
<1> QED
  BY <1>1, <1>2 DEF Exhausted

LEMMA SharePagePInv == ASSUME IInv, RInv, PInv, SharePage PROVE PInv'
<1> DEFINE n == job.to
<1>1. /\ job.op = "share" /\ job.why = "fork" /\ Copying /\ job \in JobSet /\ Types
      /\ UNCHANGED <<areas, cur, io>>
  BY DEF SharePage, IInv, Handling, Busy, Copying, Types
<1>2. n \in Space /\ cur \in Space /\ cur # n
  BY <1>1, ForkHandling
<1>3. PICK v \in Page :
          \/ /\ pte[cur][v] = NoPte
             /\ job' = [job EXCEPT !.todo = @ \ {v}]
             /\ UNCHANGED <<pte, page_refs>>
          \/ /\ pte[cur][v] # NoPte
             /\ page_refs' = Retained(pte[cur][v].frame)
             /\ pte' = [pte EXCEPT ![cur][v] = Downgraded(pte[cur][v])]
             /\ job' = [job EXCEPT !.op = "map", !.page = v, !.rw = FALSE,
                           !.frame = pte[cur][v].frame, !.cow = pte[cur][v].rw \/ pte[cur][v].cow,
                           !.todo = @ \ {v}]
          \/ job' = [job EXCEPT !.op = "panic_retain"] /\ UNCHANGED pte
  BY DEF SharePage
<1>4. CASE pte[cur][v] = NoPte /\ job' = [job EXCEPT !.todo = @ \ {v}] /\ UNCHANGED <<pte, page_refs>>
  <2>1. job'.op = "share" /\ job'.to = n /\ job'.why = "fork"
    BY <1>1, <1>4 DEF JobSet
  <2>2. Shortage'
    BY <1>1, <1>4, <2>1 DEF PInv, Shortage, Copying, Exhausted
  <2> QED
    BY <1>1, <1>4, <2>1, <2>2 DEF PInv, Entries, Arrivals, Faults, Mappings, MayWrite, Writable
<1>5. CASE /\ pte[cur][v] # NoPte
           /\ page_refs' = Retained(pte[cur][v].frame)
           /\ pte' = [pte EXCEPT ![cur][v] = Downgraded(pte[cur][v])]
           /\ job' = [job EXCEPT !.op = "map", !.page = v, !.rw = FALSE,
                         !.frame = pte[cur][v].frame, !.cow = pte[cur][v].rw \/ pte[cur][v].cow,
                         !.todo = @ \ {v}]
  <2> DEFINE e == pte[cur][v]
             c == e.rw \/ e.cow
  <2>1. e \in Pte /\ e.frame \in Frame
    BY <1>1, <1>2, <1>5, EntryFrames DEF Types, Entry
  <2>2. c \in BOOLEAN
    OBVIOUS
  <2>3. job' = [job EXCEPT !.op = "map", !.page = v, !.rw = FALSE, !.frame = e.frame, !.cow = c,
                           !.todo = job.todo \ {v}]
    BY <1>5
  <2>4. MayWrite(e, v) /\ (v \in Writable <=> c)
    BY <1>2, <1>5 DEF PInv, Entries, MayWrite
  <2> HIDE DEF c
  <2>5. /\ job'.op = "map" /\ job'.to = n /\ job'.why = "fork" /\ job'.page = v
        /\ job'.rw = FALSE /\ job'.cow = c
    BY <1>1, <2>3 DEF JobSet
  <2>6. Downgraded(e) \in Entry /\ Downgraded(e).rw = FALSE /\ Downgraded(e).cow = c
    <3>1. Downgraded(e) = [e EXCEPT !.rw = FALSE, !.cow = c]
      BY DEF Downgraded, c
    <3>2. Downgraded(e) \in Entry
      BY <2>1, DowngradedEntry
    <3>3. e \in [frame : Frame, rw : BOOLEAN, cow : BOOLEAN]
      BY <2>1 DEF Pte
    <3> QED
      BY <3>1, <3>2, <3>3
  <2>7. /\ pte'[cur][v] = Downgraded(e)
        /\ \A m \in Space, w \in Page : ~(m = cur /\ w = v) => pte'[m][w] = pte[m][w]
    <3>1. Entered(cur, v, Downgraded(e))
      BY <1>5 DEF Entered
    <3> QED
      BY <1>1, <1>2, <2>6, <3>1, EntrySet
  <2>8. Entries'
    <3> SUFFICES ASSUME NEW m \in Space, NEW w \in Page, pte'[m][w] # NoPte
                 PROVE  w \in Writable <=> pte'[m][w].rw \/ pte'[m][w].cow
      BY DEF Entries, MayWrite, Writable
    <3>1. CASE m = cur /\ w = v
      BY <2>4, <2>6, <2>7, <3>1
    <3>2. CASE ~(m = cur /\ w = v)
      BY <2>7, <3>2 DEF PInv, Entries, MayWrite
    <3> QED
      BY <3>1, <3>2
  <2>9. Mappings'
    BY <2>4, <2>5 DEF Mappings, Writable
  <2>10. Shortage'
    <3>1. Exhausted => Exhausted'
      BY <1>5, <2>1, RetainedExhausted
    <3> QED
      BY <1>1, <2>5, <3>1 DEF PInv, Shortage
  <2> QED
    BY <1>1, <2>5, <2>8, <2>9, <2>10 DEF PInv, Arrivals, Faults, Writable
<1>6. CASE job' = [job EXCEPT !.op = "panic_retain"] /\ UNCHANGED pte
  <2>1. job'.op = "panic_retain"
    BY <1>1, <1>6 DEF JobSet
  <2> QED
    BY <1>1, <1>6, <2>1, QuietPInv DEF Copying
<1> QED
  BY <1>3, <1>4, <1>5, <1>6

LEMMA ShareBlockPInv == ASSUME IInv, RInv, PInv, ShareBlock PROVE PInv'
<1> DEFINE n == job.to
           k == Len(areas[n]) + 1
<1>1. /\ job.op = "share" /\ job.why = "fork" /\ Copying /\ job \in JobSet
      /\ UNCHANGED <<pte, cur, io, page_refs>>
  BY DEF ShareBlock, IInv, Handling, Busy, Copying, Types
<1>2. CASE /\ k \in DOMAIN areas[cur] /\ areas[cur][k] # Null
           /\ areas' = [areas EXCEPT ![n] = Append(@, areas[cur][k])]
           /\ job' = [job EXCEPT !.todo = PagesOf(cur, k + 1)]
  <2>1. /\ job'.op = "share" /\ job'.why = "fork" /\ job'.to = n
    BY <1>1, <1>2 DEF JobSet
  <2>2. /\ n \in Space /\ areas[n] \in Seq(Block) /\ areas[cur][k] \in Block /\ Types
    BY <1>1, <1>2, CopiedFacts
  <2>3. areas'[n] = Append(areas[n], areas[cur][k])
    BY <1>2, <2>2 DEF Types
  <2>4. \A i \in DOMAIN areas'[n] : areas'[n][i] = Null => i \in DOMAIN areas[n] /\ areas[n][i] = Null
    BY <1>2, <2>2, <2>3
  <2>5. Shortage'
    BY <1>1, <2>1, <2>4 DEF PInv, Shortage, Exhausted
  <2> QED
    BY <1>1, <2>1, <2>5 DEF PInv, Entries, Arrivals, Faults, Mappings, MayWrite, Writable
<1>3. CASE job' = [job EXCEPT !.op = "wild"] \/ job' = NoJob
  <2>1. job'.op \in {"wild", "none"}
    BY <1>1, <1>3, NoJobType DEF JobSet
  <2> QED
    BY <1>1, <2>1, QuietPInv DEF Copying
<1> QED
  BY <1>2, <1>3 DEF ShareBlock

LEMMA MapPInv == ASSUME IInv, RInv, PInv, MapStep PROVE PInv'
<1> DEFINE m == job.to
           v == job.page
           e == [frame |-> job.frame, rw |-> job.rw, cow |-> job.cow]
<1>1. /\ job.op = "map" /\ m \in Space /\ v \in Page /\ job.frame \in Frame /\ job \in JobSet
      /\ Types /\ UNCHANGED io
  BY MapHandling DEF MapStep, IInv
<1>2. ASSUME NEW f \in Frame, FirstFree(f), UNCHANGED <<pte, areas, job>> PROVE PInv'
  <2>1. ~Exhausted
    BY <1>2 DEF FirstFree, Exhausted
  <2> QED
    BY <1>1, <1>2, <2>1 DEF PInv, Entries, Arrivals, Faults, Mappings, Shortage, Copying, MayWrite, Writable
<1>3. ASSUME job.why = "fork", Exhausted,
             job' = [job EXCEPT !.op = "share", !.frame = NoFrame, !.cow = FALSE,
                                !.todo = PagesOf(cur, Len(areas[m]) + 2)],
             UNCHANGED <<pte, page_refs>>
      PROVE  PInv'
  <2>1. job'.op = "share" /\ Exhausted'
    BY <1>1, <1>3 DEF JobSet, Exhausted
  <2> QED
    BY <1>1, <1>3, <2>1 DEF PInv, Entries, Arrivals, Faults, Mappings, Shortage, MayWrite, Writable
<1>4. ASSUME Fail, UNCHANGED pte PROVE PInv'
  <2>1. job'.op = "fail"
    BY <1>1, <1>4 DEF Fail, JobSet
  <2> QED
    BY <1>1, <1>4, <2>1, QuietPInv DEF Copying
<1>5. ASSUME pte' = [pte EXCEPT ![m][v] = e] PROVE Entries'
  <2>1. e \in Entry /\ Entered(m, v, e) /\ e.rw = job.rw /\ e.cow = job.cow
    BY <1>1, <1>5 DEF Pte, JobSet, Entry, Entered
  <2> HIDE DEF e
  <2>2. /\ pte'[m][v] = e
        /\ \A n \in Space, w \in Page : ~(n = m /\ w = v) => pte'[n][w] = pte[n][w]
    BY <1>1, <2>1, EntrySet
  <2> SUFFICES ASSUME NEW n \in Space, NEW w \in Page, pte'[n][w] # NoPte
               PROVE  w \in Writable <=> pte'[n][w].rw \/ pte'[n][w].cow
    BY DEF Entries, MayWrite, Writable
  <2>3. CASE n = m /\ w = v
    BY <1>1, <2>1, <2>2, <2>3 DEF PInv, Mappings
  <2>4. CASE ~(n = m /\ w = v)
    BY <2>2, <2>4 DEF PInv, Entries, MayWrite
  <2> QED
    BY <2>3, <2>4
<1>6. ASSUME pte' = [pte EXCEPT ![m][v] = e], job.why = "fork",
             job' = [job EXCEPT !.op = "share", !.frame = NoFrame, !.cow = FALSE],
             UNCHANGED <<areas, page_refs>>
      PROVE  PInv'
  <2>1. job'.op = "share" /\ job'.to = m
    BY <1>1, <1>6 DEF JobSet
  <2>2. Shortage'
    BY <1>1, <1>6, <2>1 DEF PInv, Shortage, Copying, Exhausted
  <2> QED
    BY <1>1, <1>5, <1>6, <2>1, <2>2 DEF PInv, Arrivals, Faults, Mappings, Writable
<1>7. ASSUME pte' = [pte EXCEPT ![m][v] = e], job' = NoJob
      PROVE  PInv'
  <2>1. job'.op = "none"
    BY <1>7, NoJobType
  <2> QED
    BY <1>1, <1>5, <1>7, <2>1 DEF PInv, Arrivals, Faults, Mappings, Shortage, Copying, Writable
<1>8. \/ \E f \in Frame : FirstFree(f) /\ UNCHANGED <<pte, areas, job>>
      \/ /\ job.why = "fork" /\ Exhausted
         /\ job' = [job EXCEPT !.op = "share", !.frame = NoFrame, !.cow = FALSE,
                               !.todo = PagesOf(cur, Len(areas[m]) + 2)]
         /\ UNCHANGED <<pte, page_refs>>
      \/ Fail /\ UNCHANGED pte
      \/ /\ pte' = [pte EXCEPT ![m][v] = e] /\ job.why = "fork"
         /\ job' = [job EXCEPT !.op = "share", !.frame = NoFrame, !.cow = FALSE]
         /\ UNCHANGED <<areas, page_refs>>
      \/ pte' = [pte EXCEPT ![m][v] = e] /\ job' = NoJob
  BY DEF MapStep
<1> HIDE DEF e
<1> QED
  BY <1>2, <1>3, <1>4, <1>6, <1>7, <1>8

LEMMA NextPInv == IInv /\ RInv /\ PInv /\ [Next]_vars => PInv'
<1> SUFFICES ASSUME IInv, RInv, PInv, [Next]_vars PROVE PInv'
  OBVIOUS
<1>1. RInv'
  BY NextRInv
<1>2. ASSUME NEW m \in Space,
             \/ Access(m) \/ Fault(m) \/ Sbrk(m) \/ Switch(m)
             \/ ReadDone(m) \/ ExecFails(m) \/ ExecCommits(m)
      PROVE  PInv'
  BY <1>1, <1>2, UserPInv, FaultPInv, ReadDonePInv, ExecFailsPInv, ExecCommitsPInv
<1>3. ASSUME NEW m \in Space, Exit(m) PROVE PInv'
  BY <1>3, EndPInv DEF Exit, InUser
<1>4. ASSUME NEW m \in Space, NEW n \in Space, Fork(m, n) \/ Exec(m, n) PROVE PInv'
  BY <1>4, BirthPInv
<1>5. CASE CowStep \/ DemandStep \/ MapStep \/ FailStep \/ SharePage \/ ShareBlock
  BY <1>5, CowPInv, DemandPInv, MapPInv, FailPInv, SharePagePInv, ShareBlockPInv
<1>6. CASE Halted \/ UNCHANGED vars
  <2>1. UNCHANGED <<page_refs, pte, areas, io, job>>
    BY <1>6 DEF Halted, vars, spaceVars
  <2> QED
    BY <2>1 DEF PInv, Entries, Arrivals, Faults, Mappings, Shortage, Copying, MayWrite, Writable, Exhausted
<1> QED
  BY <1>2, <1>3, <1>4, <1>5, <1>6 DEF Next

-----------------------------------------------------------------------------
(* What a space is at                                                      *)

Does == [m \in Space |-> Doing(m)]
Up == job.op \notin Halts

LEMMA DoesAt == ASSUME NEW m \in Space PROVE Does[m] = Doing(m)
BY DEF Does

\* One space turns to something else.
LEMMA DoesSet ==
    ASSUME NEW m \in Space, \A n \in Space : n # m => Doing(n)' = Doing(n)
    PROVE  Does' = [Does EXCEPT ![m] = Doing(m)']
BY DEF Does

LEMMA DoesSame ==
    ASSUME \A n \in Space : Doing(n)' = Doing(n)
    PROVE  UNCHANGED Does
BY DEF Does

LEMMA TurnsIs ==
    ASSUME NEW m \in Space, cur = m, NEW a, NEW b, Doing(m) = a, Doing(m)' = b,
           \A n \in Space : n # m => Doing(n)' = Doing(n)
    PROVE  Memory!Turns(m, a, b)
<1>1. Does[m] = a /\ Does' = [Does EXCEPT ![m] = b]
  BY DoesAt, DoesSet
<1> QED
  BY <1>1 DEF Memory!Turns, Does

\* What does not concern a space does not turn it.
LEMMA Unturned ==
    ASSUME NEW n \in Space, status'[n] = status[n], io'[n] = io[n],
           ~Serves(n), ~Serves(n)', ~Forks(n), ~Forks(n)'
    PROVE  Doing(n)' = Doing(n)
BY DEF Doing, At, FaultAt

\* Nor what a space does before and after its life.
LEMMA HiddenUnturned ==
    ASSUME NEW n \in Space, status[n] # "live", status'[n] # "live", Serves(n)' <=> Serves(n)
    PROVE  Doing(n)' = Doing(n)
BY DEF Doing, At

\* Nobody turns while the program runs, or when another one comes to the CPU.
LEMMA IdleUnturned ==
    ASSUME job.op = "none", job'.op = "none", UNCHANGED <<status, io>>, NEW n \in Space
    PROVE  Doing(n)' = Doing(n)
BY Unturned DEF Serves, Forks

LEMMA RunningDoes ==
    ASSUME IInv, NEW m \in Space, InUser(m)
    PROVE  Doing(m) = At("user") /\ cur = m /\ status[m] = "live" /\ job.op = "none"
<1>1. cur = m /\ status[m] = "live" /\ io[m].op = "none" /\ job.op = "none"
  BY NoJobType, VmmAssumption DEF InUser, IInv, Spaces
<1> QED
  BY <1>1 DEF Doing, Serves, Forks

\* The space that a fault handler works for is on the CPU.
LEMMA ServedDoes ==
    ASSUME IInv, job.op \in {"cow", "demand", "map", "fail"}, job.why \in {"user", "kernel"},
           NEW m, m = job.to
    PROVE  /\ m \in Space /\ cur = m /\ status[m] = "live" /\ io[m].op = "none"
           /\ job.op # "fail" => job.page \in Page /\ Doing(m) = FaultAt(job.page)
           /\ job.op = "fail" => Doing(m) = At("fail")
           /\ \A n \in Space : ~Forks(n) /\ (n # m => ~Serves(n))
<1>1. /\ m \in Space /\ cur = m /\ io[m].op = "none" /\ status[m] = "live"
      /\ job.op # "fail" => job.page \in Page
  BY VmmAssumption DEF IInv, Handling, Busy, Spaces
<1>2. Serves(m) /\ \A n \in Space : ~Forks(n) /\ (n # m => ~Serves(n))
  BY DEF Serves, Forks
<1> QED
  BY <1>1, <1>2 DEF Doing

\* A program that is about to start has no space on the CPU yet.
LEMMA LoadingDoes ==
    ASSUME IInv, job.op \in {"demand", "map", "fail"}, job.why = "exec", NEW m, m = job.to
    PROVE  /\ m \in Space /\ cur = None /\ status[m] = "loading" /\ io[m].op = "none"
           /\ Doing(m) = At("load")
           /\ \A n \in Space : ~Forks(n) /\ (n # m => ~Serves(n))
<1>1. m \in Space /\ cur = None /\ io[m].op = "none" /\ status[m] = "loading"
  BY DEF IInv, Handling, Busy
<1>2. Serves(m) /\ \A n \in Space : ~Forks(n) /\ (n # m => ~Serves(n))
  BY DEF Serves, Forks
<1> QED
  BY <1>1, <1>2 DEF Doing

LEMMA ForkingDoes ==
    ASSUME IInv, Copying, NEW n, n = job.to
    PROVE  /\ n \in Space /\ cur \in Space /\ cur # n
           /\ status[cur] = "live" /\ io[cur].op = "none" /\ status[n] = "loading"
           /\ Doing(cur) = At("fork") /\ Doing(n) = At("none")
           /\ \A k \in Space : ~Serves(k) /\ (k # cur => ~Forks(k))
<1>1. /\ n \in Space /\ cur \in Space /\ cur # n
      /\ status[cur] = "live" /\ io[cur].op = "none" /\ status[n] = "loading"
  BY ForkHandling DEF Copying
<1>2. Forks(cur) /\ \A k \in Space : ~Serves(k) /\ (k # cur => ~Forks(k))
  BY DEF Forks, Serves, Copying
<1> QED
  BY <1>1, <1>2 DEF Doing, At

\* The kernel stops.
LEMMA Stops ==
    ASSUME job'.op \in Halts, UNCHANGED Mem
    PROVE  Memory!Stop
BY DEF Memory!Stop, Mem

-----------------------------------------------------------------------------
(* Steps of a program                                                      *)

Stutters == UNCHANGED <<Mem, cur, Does, Up>>
Implements == Stutters \/ Memory!Stop \/ (Memory!Runs /\ UNCHANGED Up)

\* Memory!Runs with up unchanged, from its parts
LEMMA RunsAlone ==
    ASSUME NEW m \in Space, UNCHANGED Up,
           \/ Memory!Kernel(m) \/ Memory!Sleep(m) \/ Memory!Switch(m) \/ Memory!Store(m)
           \/ Memory!Extend(m) \/ Memory!Ends(m) \/ Memory!Load(m)
    PROVE  Implements
BY DEF Implements, Memory!Runs, Up

LEMMA RunsBoth ==
    ASSUME NEW m \in Space, NEW n \in Space, UNCHANGED Up, Memory!Forked(m, n) \/ Memory!Replaced(m, n)
    PROVE  Implements
BY DEF Implements, Memory!Runs, Up

LEMMA KernelIs ==
    ASSUME NEW m \in Space, Memory!Calls(m) \/ Memory!Returns(m) \/ Memory!GivesUp(m), UNCHANGED <<Mem, cur, Up>>
    PROVE  Implements
<1>1. Memory!Kernel(m)
  BY DEF Memory!Kernel, Mem
<1> QED
  BY <1>1, RunsAlone

LEMMA FaultImplements == ASSUME IInv, NEW m \in Space, Fault(m) PROVE Implements
<1>1. InUser(m) /\ UNCHANGED <<data, spaceVars, cur, io>>
  BY DEF Fault
<1>2. PICK v \in Page : /\ job'.op \in {"cow", "demand"} /\ job'.to = m /\ job'.page = v
                        /\ job'.why \in {"user", "kernel"}
  BY DEF Fault, NoJob
<1>3. /\ Doing(m) = At("user") /\ cur = m /\ status[m] = "live" /\ job.op = "none" /\ io[m].op = "none"
  BY <1>1, RunningDoes, NoJobType DEF InUser
<1>4. Doing(m)' = FaultAt(v)
  <2>1. Serves(m)' /\ ~Forks(m)'
    BY <1>2 DEF Serves, Forks
  <2> QED
    BY <1>1, <1>2, <1>3, <2>1 DEF Doing, spaceVars, FaultAt, At
<1>5. \A n \in Space : n # m => Doing(n)' = Doing(n)
  BY <1>1, <1>2, <1>3, Unturned DEF Serves, Forks, spaceVars
<1>6. UNCHANGED Mem
  BY <1>1, Unseen DEF spaceVars
<1>7. UNCHANGED Up
  BY <1>2, <1>3 DEF Up, Halts
<1>8. Memory!Turns(m, At("user"), FaultAt(v))
  BY <1>3, <1>4, <1>5, TurnsIs
<1>9. Memory!Calls(m)
  BY <1>8 DEF Memory!Calls, Memory!At, Memory!FaultAt, At, FaultAt
<1> QED
  BY <1>1, <1>6, <1>7, <1>9, KernelIs

LEMMA SwitchImplements == ASSUME IInv, NEW m \in Space, Switch(m) PROVE Implements
<1>1. /\ job.op = "none" /\ status[m] = "live" /\ m # cur /\ cur' = m
      /\ UNCHANGED <<data, spaceVars, io, job>>
  BY DEF Switch
<1>2. UNCHANGED Mem
  BY <1>1, Unseen DEF spaceVars
<1>3. UNCHANGED Does /\ UNCHANGED Up
  BY <1>1, IdleUnturned, DoesSame DEF spaceVars, Up
<1>4. \A n \in Space : ~Serves(n) /\ ~Forks(n)
  BY <1>1 DEF Serves, Forks
<1>5. io[m].op \in {"none", "read", "exec"}
  BY DEF IInv, Types, IoSet
<1>6. Does[m].op \in {"user", "fault", "exec"}
  <2>1. Doing(m) = At("user") \/ Doing(m) = At("exec") \/ Doing(m) = FaultAt(io[m].page)
    BY <1>1, <1>4, <1>5 DEF Doing
  <2> QED
    BY <2>1, DoesAt DEF At, FaultAt
<1>7. \A n \in Space : Does[n].op \notin {"fork", "load", "fail"}
  <2> SUFFICES ASSUME NEW n \in Space PROVE Doing(n).op \notin {"fork", "load", "fail"}
    BY DoesAt
  <2>1. io[n].op \in {"none", "read", "exec"}
    BY DEF IInv, Types, IoSet
  <2> QED
    BY <1>4, <2>1 DEF Doing, At, FaultAt
<1>8. Memory!Switch(m)
  BY <1>1, <1>2, <1>3, <1>6, <1>7 DEF Memory!Switch, Does, Mem
<1> QED
  BY <1>3, <1>8, RunsAlone

\* A store goes to a frame that only this page has.
LEMMA AccessStores ==
    ASSUME IInv, PInv, NEW m \in Space, Access(m)
    PROVE  UNCHANGED Mem \/ Memory!Store(m)
<1>1. /\ cur = m /\ status[m] = "live" /\ Types /\ Counts /\ UNCHANGED <<pte, areas, status, io, job, cur>>
      /\ Doing(m) = At("user") /\ job.op = "none"
  BY RunningDoes DEF Access, IInv, spaceVars
<1>2. PICK v \in Page, write \in BOOLEAN :
          LET e == Translation(m, v)
          IN /\ Allowed(e, write)
             /\ IF write THEN \E x \in Val : data' = [data EXCEPT ![e.frame] = x]
                ELSE UNCHANGED data
  BY DEF Access
<1>3. Translation(m, v) = pte[m][v]
  BY <1>1, TranslationIs
<1>4. CASE UNCHANGED data
  BY <1>1, <1>4, Unseen
<1>5. ASSUME write, NEW x \in Val, data' = [data EXCEPT ![pte[m][v].frame] = x]
      PROVE  Memory!Store(m)
  <2> DEFINE f == pte[m][v].frame
  <2>1. pte[m][v] # NoPte /\ pte[m][v].rw /\ v \in Writable
    BY <1>2, <1>3, <1>5 DEF Allowed, PInv, Entries, MayWrite
  <2>2. f \in Frame /\ Sole(f)
    BY <1>1, <2>1, EntryFrames DEF IInv, Soles
  <2>3. \A n \in Space, w \in Page : ~(n = m /\ w = v) => pte[n][w].frame # f
    BY <1>1, <2>2, SoleHolder
  <2>4. data'[f] = x /\ \A g \in Frame : g # f => data'[g] = data[g]
    BY <1>1, <1>5, <2>2 DEF Types
  <2>5. \A n \in Space, w \in Page : ~(n = m /\ w = v) /\ pte[n][w] # NoPte =>
            data'[pte[n][w].frame] = data[pte[n][w].frame]
    BY <1>1, <2>3, <2>4, EntryFrames
  <2>6. ASSUME NEW n \in Space, n # m PROVE View(n)' = View(n)
    <3>1. \A w \in Page : InAreas(n, w)' <=> InAreas(n, w)
      BY <1>1 DEF InAreas
    <3>2. \A w \in Page :
              \/ pte[n][w] = NoPte /\ pte'[n][w] = NoPte
              \/ /\ pte'[n][w] # NoPte
                 /\ pte[n][w] # NoPte
                 /\ data'[pte'[n][w].frame] = data[pte[n][w].frame]
      BY <1>1, <2>5, <2>6
    <3>3. status'[n] = status[n]
      BY <1>1
    <3> QED
      BY <3>1, <3>2, <3>3, SameView
  <2>7. View(m)' = [View(m) EXCEPT ![v] = x]
    <3>1. \A w \in Page : View(m)'[w] = IF w = v THEN x ELSE View(m)[w]
      BY <1>1, <2>1, <2>4, <2>5 DEF View, InAreas, Fresh
    <3> QED
      BY <3>1 DEF View
  <2>8. View(m)[v] = data[f] /\ data[f] # Gone
    BY <1>1, <2>1, <2>2, VmmAssumption DEF View, Types
  <2>9. Mem' = [Mem EXCEPT ![m][v] = x] /\ Mem[m][v] # Gone
    <3>1. Mem' = [Mem EXCEPT ![m] = View(m)']
      BY <2>6, MemSet
    <3> QED
      BY <2>7, <2>8, <3>1, MemAt
  <2>10. UNCHANGED Does /\ Does[m] = At("user")
    BY <1>1, IdleUnturned, DoesSame, DoesAt
  <2> QED
    BY <1>1, <2>1, <2>9, <2>10 DEF Memory!Store, Mem, Does, Memory!At, At
<1> QED
  BY <1>2, <1>3, <1>4, <1>5

LEMMA AccessImplements == ASSUME IInv, PInv, NEW m \in Space, Access(m) PROVE Implements
<1>1. job.op = "none" /\ UNCHANGED <<status, io, job, cur>>
  BY DEF Access, InUser, spaceVars
<1>2. UNCHANGED <<cur, Does, Up>>
  BY <1>1, IdleUnturned, DoesSame DEF Up
<1> QED
  BY <1>2, AccessStores, RunsAlone DEF Implements, Stutters

\* sbrk() adds pages of zeroes that were not there.
LEMMA SbrkImplements ==
    ASSUME IInv, RInv, Grown, NEW m \in Space, Sbrk(m)
    PROVE  Implements
<1> DEFINE k == Len(areas[m]) + 1
           V == Blocks[k].pages
<1>1. /\ cur = m /\ status[m] = "live" /\ Types /\ Spaces /\ UNCHANGED <<pte, status, data, io, job, cur>>
      /\ areas' = [areas EXCEPT ![m] = Append(@, Blocks[k])]
      /\ Len(areas[m]) < Len(Blocks) /\ areas[m] \in Seq(Block) /\ job.op = "none"
      /\ Doing(m) = At("user")
  BY RunningDoes DEF Sbrk, IInv, Types
<1>2. k \in DOMAIN Blocks /\ Blocks[k] \in Block /\ V \subseteq Page
  <2>1. Blocks \in Seq(Block) /\ k \in 1 .. Len(Blocks)
    BY <1>1, ImageBlocks
  <2>2. Blocks[k] \in Block
    BY <2>1
  <2> QED
    BY <2>1, <2>2 DEF Block
<1>3. ~Blocks[k].file /\ V \in Growth
  <2>1. Len(areas[m]) >= Len(Image) /\ Image \in Seq(Block) /\ Grow \in Seq(Block)
    BY <1>1, VmmAssumption DEF Grown
  <2>2. k - Len(Image) \in DOMAIN Grow /\ Blocks[k] = Grow[k - Len(Image)]
    BY <1>1, <2>1 DEF Blocks
  <2> QED
    BY <2>2, VmmAssumption DEF Growth
<1>4. \A v \in V : \A i \in DOMAIN Blocks : v \in Blocks[i].pages => i = k
  BY <1>2, VmmAssumption
<1>5. \A v \in V : Fresh(v) = Zero
  BY <1>3, <1>4 DEF Fresh
<1>6. \A v \in V : ~InAreas(m, v)
  <2> SUFFICES ASSUME NEW v \in V, NEW i \in DOMAIN areas[m], v \in areas[m][i].pages
               PROVE  FALSE
    BY DEF InAreas
  <2>1. i \in DOMAIN Blocks /\ areas[m][i] = Blocks[i]
    BY <1>1, AreaBlock
  <2>2. i = k
    BY <1>4, <2>1
  <2> QED
    BY <1>1, <2>2
<1>7. \A v \in V : pte[m][v] = NoPte
  <2> SUFFICES ASSUME NEW v \in V, pte[m][v] # NoPte PROVE FALSE
    OBVIOUS
  <2>1. Present /\ ~Copying
    BY <1>1 DEF RInv, Halts, Copying
  <2>2. PICK i \in DOMAIN areas[m] : i \in DOMAIN Blocks /\ v \in Blocks[i].pages
    BY <1>2, <2>1 DEF Present
  <2>3. i = k
    BY <1>4, <2>2
  <2> QED
    BY <1>1, <2>3
<1>8. \A v \in Page : InAreas(m, v)' <=> InAreas(m, v) \/ v \in V
  <2>1. areas'[m] = Append(areas[m], Blocks[k])
    BY <1>1 DEF Types
  <2>2. DOMAIN areas'[m] = 1 .. k /\ DOMAIN areas[m] = 1 .. k - 1 /\ k \in Nat
        /\ areas'[m][k] = Blocks[k] /\ \A i \in 1 .. k - 1 : areas'[m][i] = areas[m][i]
    BY <1>1, <1>2, <2>1
  <2>3. \A i : i \in 1 .. k <=> i = k \/ i \in 1 .. k - 1
    BY <2>2
  <2> QED
    BY <2>2, <2>3 DEF InAreas
<1>9. ASSUME NEW n \in Space, n # m PROVE View(n)' = View(n)
  <2>1. status'[n] = status[n] /\ pte'[n] = pte[n] /\ areas'[n] = areas[n]
    BY <1>1, <1>9 DEF Types
  <2> QED
    BY <1>1, <2>1, SameView DEF InAreas
<1>10. \A v \in V : View(m)[v] = Gone
  BY <1>2, <1>6, <1>7 DEF View, InAreas
<1>11. View(m)' = [v \in Page |-> IF v \in V THEN Zero ELSE View(m)[v]]
  <2>1. ASSUME NEW v \in Page PROVE View(m)'[v] = IF v \in V THEN Zero ELSE View(m)[v]
    BY <1>1, <1>5, <1>7, <1>8 DEF View, InAreas, Fresh
  <2> QED
    BY <2>1 DEF View
<1> HIDE DEF V
<1>12. Mem' = [Mem EXCEPT ![m] = [v \in Page |-> IF v \in V THEN Zero ELSE Mem[m][v]]]
  BY <1>9, <1>11, MemSet, MemAt
<1>13. \A v \in V : Mem[m][v] = Gone
  BY <1>10, MemAt
<1>14. UNCHANGED <<Does, Up>> /\ Does[m] = At("user")
  BY <1>1, IdleUnturned, DoesSame, DoesAt DEF Up
<1>15. Memory!Extend(m)
  BY <1>1, <1>3, <1>12, <1>13, <1>14 DEF Memory!Extend, Mem, Does, Memory!At, At
<1> QED
  BY <1>14, <1>15, RunsAlone

\* Of the space that goes, nothing is left; the others keep what they have.
LEMMA FreeDiscards ==
    ASSUME IInv, IInv', NEW m \in Space, job.op # "map", VmmFree(m), cur = m, cur' = None,
           status' = [status EXCEPT ![m] = "free"],
           \A n \in Space : n # m /\ status[n] = "live" => areas'[n] = areas[n]
    PROVE  Memory!Discard(m)
<1>1. Types /\ Counts
  BY DEF IInv
<1>2. \A n \in Space : n # m => pte'[n] = pte[n] /\ status'[n] = status[n]
  BY <1>1, Freed DEF Types
<1>3. View(m)' = Nothing
  BY <1>1 DEF View, Nothing, Types
<1>4. ASSUME NEW n \in Space, n # m PROVE View(n)' = View(n)
  <2>1. status[n] = "live" => \A v \in Page : InAreas(n, v)' <=> InAreas(n, v)
    BY <1>4 DEF InAreas
  <2>2. \A v \in Page : pte'[n][v] # NoPte => data'[pte'[n][v].frame] = data[pte'[n][v].frame]
    BY LeftoverKept DEF VmmFree
  <2>3. pte'[n] = pte[n] /\ status'[n] = status[n]
    BY <1>2, <1>4
  <2> QED
    BY <2>1, <2>2, <2>3, SameView
<1>5. Mem' = [Mem EXCEPT ![m] = Nothing]
  BY <1>3, <1>4, MemSet
<1> QED
  BY <1>5 DEF Memory!Discard, Memory!Empty, Mem, Nothing

\* The space of the process on the CPU goes.
LEMMA EndImplements ==
    ASSUME IInv, IInv', NEW m \in Space, cur = m, job.op \in {"none", "fail"}, End(m),
           Doing(m) \in {At("user"), At("fail")},
           \A n \in Space : ~Forks(n) /\ (n # m => ~Serves(n))
    PROVE  Implements
<1>1. /\ VmmFree(m) /\ areas' = [areas EXCEPT ![m] = <<>>] /\ status' = [status EXCEPT ![m] = "free"]
      /\ cur' = None /\ job' = NoJob /\ UNCHANGED io
  BY FreeAllowed DEF End, IInv
<1>2. \A n \in Space : n # m => areas'[n] = areas[n] /\ status'[n] = status[n]
  BY <1>1 DEF IInv, Types
<1>3. Memory!Discard(m)
  BY <1>1, <1>2, FreeDiscards
<1>4. job'.op = "none" /\ \A n \in Space : ~Serves(n)' /\ ~Forks(n)'
  BY <1>1, NoJobType DEF Serves, Forks
<1>5. \A n \in Space : n # m => Doing(n)' = Doing(n)
  BY <1>1, <1>2, <1>4, Unturned
<1>6. Doing(m)' = At("none")
  BY <1>1, <1>4 DEF Doing, IInv, Types
<1>7. Does[m] \in {At("user"), At("fail")} /\ Does' = [Does EXCEPT ![m] = At("none")]
  BY <1>5, <1>6, DoesSet, DoesAt
<1>8. Memory!Ends(m)
  BY <1>3, <1>7 DEF Memory!Ends, Does, Memory!At, At
<1>9. UNCHANGED Up
  BY <1>4 DEF Up, Halts
<1> QED
  BY <1>8, <1>9, RunsAlone

LEMMA ExitImplements == ASSUME IInv, IInv', NEW m \in Space, Exit(m) PROVE Implements
<1>1. InUser(m) /\ End(m)
  BY DEF Exit
<1>2. Doing(m) = At("user") /\ cur = m /\ job.op = "none"
  BY <1>1, RunningDoes
<1>3. \A n \in Space : ~Forks(n) /\ ~Serves(n)
  BY <1>2 DEF Forks, Serves
<1> QED
  BY <1>1, <1>2, <1>3, EndImplements

LEMMA FailImplements == ASSUME IInv, IInv', FailStep PROVE Implements
<1>1. job.op = "fail"
  BY DEF FailStep
<1>2. CASE job.why = "user" /\ End(job.to)
  BY <1>1, <1>2, ServedDoes, EndImplements
<1>3. CASE /\ job' = [job EXCEPT !.op = IF job.why = "exec" THEN "panic_oom" ELSE "panic_fault"]
           /\ UNCHANGED <<data, spaceVars>>
  <2>1. job'.op \in Halts
    BY <1>3 DEF Halts, IInv, Types, JobSet
  <2> QED
    BY <1>3, <2>1, Unseen, Stops DEF spaceVars, Implements
<1> QED
  BY <1>2, <1>3 DEF FailStep

\* exec: the old program goes, the new one is about to start.
LEMMA ExecCommitsImplements ==
    ASSUME IInv, IInv', NEW m \in Space, ExecCommits(m), NEW n, n = io[m].next
    PROVE  Implements
<1>1. /\ n \in Space /\ status[n] = "loading" /\ status[m] = "live" /\ job.op = "none"
      /\ cur = m /\ io[m].op = "exec" /\ Types /\ Counts /\ n # m
  BY DEF ExecCommits, IInv, Waits
<1>2. /\ VmmFree(m) /\ areas' = [areas EXCEPT ![m] = <<>>, ![n] = Image]
      /\ status' = [status EXCEPT ![m] = "free"] /\ cur' = None
      /\ io' = [io EXCEPT ![m] = NoIo]
      /\ job' = [NoJob EXCEPT !.op = "demand", !.to = n, !.rw = TRUE,
                              !.page = StackTop, !.why = "exec"]
  BY <1>1, FreeAllowed DEF ExecCommits
<1>3. /\ \A k \in Space : k # m /\ status[k] = "live" => areas'[k] = areas[k]
      /\ \A k \in Space : k # m => status'[k] = status[k] /\ io'[k] = io[k]
      /\ status'[m] = "free"
  BY <1>1, <1>2 DEF Types
<1>4. Memory!Discard(m)
  BY <1>1, <1>2, <1>3, FreeDiscards
<1>5. job'.op = "demand" /\ job'.to = n /\ job'.why = "exec"
  BY <1>2 DEF NoJob
<1>6. \A k \in Space : /\ ~Forks(k) /\ ~Serves(k) /\ ~Forks(k)'
                       /\ Serves(k)' <=> k = n
  BY <1>1, <1>5 DEF Forks, Serves
<1>7. Doing(m) = At("exec") /\ Doing(n) = At("none")
  BY <1>1, <1>6 DEF Doing
<1>8. Doing(m)' = At("none") /\ Doing(n)' = At("load")
  <2>1. status'[m] # "live" /\ status'[n] # "live"
    BY <1>1, <1>3
  <2>2. ~Serves(m)' /\ Serves(n)'
    BY <1>1, <1>6
  <2> QED
    BY <2>1, <2>2 DEF Doing, At
<1>9. \A k \in Space : k # m /\ k # n => Doing(k)' = Doing(k)
  BY <1>3, <1>6, Unturned
<1>10. /\ Does[m] = At("exec") /\ Does[n] = At("none")
       /\ Does' = [Does EXCEPT ![m] = At("none"), ![n] = At("load")]
  <2>1. Does[m] = At("exec") /\ Does[n] = At("none")
    BY <1>1, <1>7, DoesAt
  <2>2. \A k \in Space : Doing(k)' = IF k = n THEN At("load") ELSE IF k = m THEN At("none") ELSE Doing(k)
    BY <1>1, <1>8, <1>9
  <2>3. Does' = [k \in Space |-> IF k = n THEN At("load") ELSE IF k = m THEN At("none") ELSE Doing(k)]
    BY <2>2 DEF Does
  <2>4. [Does EXCEPT ![m] = At("none"), ![n] = At("load")]
            = [k \in Space |-> IF k = n THEN At("load") ELSE IF k = m THEN At("none") ELSE Doing(k)]
    BY <1>1 DEF Does
  <2> QED
    BY <2>1, <2>3, <2>4
<1>11. Memory!Replaced(m, n)
  BY <1>4, <1>10 DEF Memory!Replaced, Does, Memory!At, At
<1>12. UNCHANGED Up
  BY <1>1, <1>5 DEF Up, Halts
<1> QED
  BY <1>1, <1>11, <1>12, RunsBoth

LEMMA ExecFailsImplements ==
    ASSUME IInv, IInv', NEW m \in Space, ExecFails(m), NEW n, n = io[m].next
    PROVE  Implements
<1>1. /\ n \in Space /\ status[n] = "loading" /\ status[m] = "live" /\ job.op = "none"
      /\ cur = m /\ io[m].op = "exec" /\ Types /\ Counts /\ n # m
  BY DEF ExecFails, IInv, Waits
<1>2. /\ status' = [status EXCEPT ![n] = "free"] /\ io' = [io EXCEPT ![m] = NoIo]
      /\ UNCHANGED <<cur, job>>
  BY <1>1, FreeAllowed DEF ExecFails
<1>3. /\ io'[m].op = "none" /\ status'[m] = "live" /\ status'[n] = "free"
      /\ \A k \in Space : k # m => io'[k] = io[k]
      /\ \A k \in Space : k # n => status'[k] = status[k]
  BY <1>1, <1>2, NoJobType DEF Types
<1>4. \A k \in Space : ~Forks(k) /\ ~Serves(k) /\ ~Forks(k)' /\ ~Serves(k)'
  BY <1>1, <1>2 DEF Forks, Serves
<1>5. Doing(m) = At("exec") /\ Doing(m)' = At("user")
  BY <1>1, <1>3, <1>4 DEF Doing
<1>6. Doing(n)' = Doing(n)
  BY <1>1, <1>3, <1>4, HiddenUnturned
<1>7. ASSUME NEW k \in Space, k # m PROVE Doing(k)' = Doing(k)
  <2>1. CASE k = n
    BY <1>6, <2>1
  <2>2. CASE k # n
    BY <1>3, <1>4, <1>7, <2>2, Unturned
  <2> QED
    BY <2>1, <2>2
<1>8. Memory!Turns(m, At("exec"), At("user"))
  BY <1>1, <1>5, <1>7, TurnsIs
<1>9. Memory!Returns(m)
  BY <1>8 DEF Memory!Returns, Memory!At, At
<1> QED
  BY <1>2, <1>9, ExecFailsUnseen, KernelIs DEF Up

LEMMA ForkImplements ==
    ASSUME IInv, NEW m \in Space, NEW n \in Space, Fork(m, n)
    PROVE  Implements
<1>1. InUser(m) /\ status[n] = "free" /\ UNCHANGED cur /\ UNCHANGED Mem
  BY BirthUnseen DEF Fork
<1>2. /\ Doing(m) = At("user") /\ cur = m /\ status[m] = "live" /\ job.op = "none" /\ io[m].op = "none"
      /\ Types /\ n # m
  BY <1>1, RunningDoes, NoJobType DEF InUser, IInv
<1>3. CASE NoSpace
  <2>1. job'.op \in Halts
    BY <1>3 DEF NoSpace, NoJob, Halts
  <2> QED
    BY <1>1, <2>1, Stops DEF Implements
<1>4. ASSUME NEW f \in Frame, NewSpace(n, f), UNCHANGED io,
             job' = [NoJob EXCEPT !.op = "share", !.to = n, !.why = "fork", !.todo = PagesOf(m, 1)]
      PROVE  Implements
  <2>1. job'.op = "share" /\ job'.to = n /\ job'.why = "fork"
    BY <1>4 DEF NoJob
  <2>2. /\ status'[n] = "loading" /\ \A k \in Space : k # n => status'[k] = status[k]
    BY <1>2, <1>4 DEF NewSpace, Types
  <2>3. \A k \in Space : ~Forks(k) /\ ~Serves(k) /\ ~Serves(k)' /\ (Forks(k)' <=> k = m)
    BY <1>1, <1>2, <2>1 DEF Forks, Serves
  <2>4. Doing(m)' = At("fork")
    BY <1>2, <1>4, <2>2, <2>3 DEF Doing
  <2>5. Doing(n)' = Doing(n)
    BY <1>1, <2>2, <2>3 DEF Doing, At
  <2>6. \A k \in Space : k # m => Doing(k)' = Doing(k)
    BY <1>4, <2>2, <2>3, <2>5, Unturned
  <2>7. Memory!Turns(m, At("user"), At("fork"))
    BY <1>2, <2>4, <2>6, TurnsIs
  <2>8. Memory!Calls(m)
    BY <2>7 DEF Memory!Calls, Memory!At, At
  <2>9. UNCHANGED Up
    BY <1>2, <2>1 DEF Up, Halts
  <2> QED
    BY <1>1, <2>8, <2>9, KernelIs
<1> QED
  BY <1>3, <1>4 DEF Fork

LEMMA ExecImplements ==
    ASSUME IInv, NEW m \in Space, NEW n \in Space, Exec(m, n)
    PROVE  Implements
<1>1. InUser(m) /\ status[n] = "free" /\ UNCHANGED cur /\ UNCHANGED Mem
  BY BirthUnseen DEF Exec
<1>2. /\ Doing(m) = At("user") /\ cur = m /\ status[m] = "live" /\ job.op = "none" /\ io[m].op = "none"
      /\ Types /\ n # m
  BY <1>1, RunningDoes, NoJobType DEF InUser, IInv
<1>3. CASE NoSpace
  <2>1. job'.op \in Halts
    BY <1>3 DEF NoSpace, NoJob, Halts
  <2> QED
    BY <1>1, <2>1, Stops DEF Implements
<1>4. ASSUME NEW f \in Frame, NewSpace(n, f), UNCHANGED job,
             io' = [io EXCEPT ![m] = [NoIo EXCEPT !.op = "exec", !.next = n]]
      PROVE  Implements
  <2>1. /\ io'[m].op = "exec" /\ \A k \in Space : k # m => io'[k] = io[k]
    BY <1>2, <1>4 DEF Types, NoIo
  <2>2. /\ status'[n] = "loading" /\ \A k \in Space : k # n => status'[k] = status[k]
    BY <1>2, <1>4 DEF NewSpace, Types
  <2>3. \A k \in Space : ~Forks(k) /\ ~Serves(k) /\ ~Serves(k)' /\ ~Forks(k)'
    BY <1>1, <1>2, <1>4 DEF Forks, Serves
  <2>4. Doing(m)' = At("exec")
    BY <1>2, <2>1, <2>2, <2>3 DEF Doing
  <2>5. Doing(n)' = Doing(n)
    BY <1>1, <2>2, <2>3 DEF Doing, At
  <2>6. \A k \in Space : k # m => Doing(k)' = Doing(k)
    BY <2>1, <2>2, <2>3, <2>5, Unturned
  <2>7. Memory!Turns(m, At("user"), At("exec"))
    BY <1>2, <2>4, <2>6, TurnsIs
  <2>8. Memory!Calls(m)
    BY <2>7 DEF Memory!Calls, Memory!At, At
  <2> QED
    BY <1>1, <1>4, <2>8, KernelIs DEF Up
<1> QED
  BY <1>3, <1>4 DEF Exec

-----------------------------------------------------------------------------
(* Faults                                                                  *)

\* The handler gives up, and there is a reason.
LEMMA GivesUpIs ==
    ASSUME IInv, job'.op = "fail", job'.to = job.to, job'.why = job.why, NEW m, m = job'.to,
           m \in Space, cur = m, UNCHANGED <<status, cur>>, status[m] = "live", io'[m].op = "none",
           job'.why # "fork", NEW v \in Page, Doing(m) = FaultAt(v), UNCHANGED Mem,
           job.op \notin Halts,
           \A n \in Space : n # m => Doing(n)' = Doing(n),
           View(m)[v] = Gone \/ v \notin Writable \/ v \in OnDisk \/ Exhausted
    PROVE  Implements
<1>1. Serves(m)' /\ ~Forks(m)'
  BY DEF Serves, Forks
<1>2. Doing(m)' = At("fail")
  BY <1>1 DEF Doing
<1>3. Memory!Turns(m, FaultAt(v), At("fail"))
  BY <1>2, TurnsIs
<1>4. Memory!GivesUp(m)
  BY <1>3 DEF Memory!GivesUp, Memory!At, Memory!FaultAt, At, FaultAt
<1>5. UNCHANGED Up
  BY DEF Up, Halts
<1> QED
  BY <1>4, <1>5, KernelIs

\* The handler has served the fault.
LEMMA ServesIs ==
    ASSUME IInv, job' = NoJob, NEW m \in Space, cur = m, UNCHANGED <<status, cur, io>>,
           status[m] = "live", io[m].op = "none", NEW v \in Page, Doing(m) = FaultAt(v),
           UNCHANGED Mem, job.op \notin Halts,
           \A n \in Space : ~Forks(n) /\ (n # m => ~Serves(n))
    PROVE  Implements
<1>1. job'.op = "none"
  BY NoJobType
<1>2. \A n \in Space : ~Serves(n)' /\ ~Forks(n)'
  BY <1>1 DEF Serves, Forks
<1>3. Doing(m)' = At("user")
  BY <1>2 DEF Doing
<1>4. \A n \in Space : n # m => Doing(n)' = Doing(n)
  BY <1>2, Unturned
<1>5. Memory!Turns(m, FaultAt(v), At("user"))
  BY <1>3, <1>4, TurnsIs
<1>6. Memory!Returns(m)
  BY <1>5 DEF Memory!Returns, Memory!At, Memory!FaultAt, At, FaultAt
<1>7. UNCHANGED Up
  BY <1>1 DEF Up, Halts
<1> QED
  BY <1>6, <1>7, KernelIs

\* The handler for the same space goes on with the same page.
LEMMA WorksOn ==
    ASSUME UNCHANGED <<status, io, cur, Mem>>, job'.to = job.to, job'.why = job.why,
           job'.page = job.page, job.op \in {"cow", "demand", "map"}, job.why # "fork",
           \/ job'.op \in {"cow", "demand", "map"}
           \/ job'.op = "fail" /\ job.to \in Space /\ status[job.to] # "live"
    PROVE  Implements
<1>1. \A n \in Space : (Serves(n)' <=> Serves(n)) /\ ~Forks(n) /\ ~Forks(n)'
  BY DEF Serves, Forks
<1>2. ASSUME NEW n \in Space PROVE Doing(n)' = Doing(n)
  <2>1. CASE status[n] # "live"
    BY <1>1, <2>1, HiddenUnturned
  <2>2. CASE ~Serves(n)
    BY <1>1, <2>2, Unturned
  <2>3. CASE status[n] = "live" /\ Serves(n)
    <3>1. job'.op # "fail" /\ job.op # "fail"
      BY <2>3 DEF Serves
    <3> QED
      BY <1>1, <3>1 DEF Doing
  <2> QED
    BY <2>1, <2>2, <2>3
<1>3. UNCHANGED Up
  BY DEF Up, Halts
<1> QED
  BY <1>2, <1>3, DoesSame DEF Implements, Stutters

LEMMA CowImplements == ASSUME IInv, PInv, CowStep PROVE Implements
<1>1. PICK m : m = job.to
  OBVIOUS
<1>2. PICK v : v = job.page
  OBVIOUS
<1>3. /\ job.op = "cow" /\ job.why \in {"user", "kernel"} /\ job \in JobSet
      /\ UNCHANGED <<status, io, cur, areas>> /\ Types
  BY DEF CowStep, IInv, Handling, Busy, Types
<1>4. /\ m \in Space /\ v \in Page /\ cur = m /\ status[m] = "live" /\ io[m].op = "none"
      /\ Doing(m) = FaultAt(v)
      /\ \A n \in Space : ~Forks(n) /\ (n # m => ~Serves(n))
  BY <1>1, <1>2, <1>3, ServedDoes
<1>5. UNCHANGED Mem
  BY CowUnseen
<1>6. CASE Fail /\ (~pte[m][v].cow \/ Exhausted)
  <2>1. job'.op = "fail" /\ job'.to = job.to /\ job'.why = job.why
    BY <1>3, <1>6 DEF Fail, JobSet
  <2>2. \A n \in Space : n # m => Doing(n)' = Doing(n)
    <3>1. \A n \in Space : n # m => ~Serves(n)' /\ ~Forks(n)'
      BY <1>1, <1>3, <2>1 DEF Serves, Forks
    <3> QED
      BY <1>3, <1>4, <3>1, Unturned
  <2>3. ~pte[m][v].cow => v \notin Writable
    <3>1. pte[m][v] # NoPte /\ ~pte[m][v].rw
      BY <1>1, <1>2, <1>3 DEF PInv, Faults
    <3> QED
      BY <1>4, <3>1 DEF PInv, Entries, MayWrite
  <2> QED
    BY <1>1, <1>3, <1>4, <1>5, <1>6, <2>1, <2>2, <2>3, GivesUpIs DEF Halts
<1>7. CASE job' = NoJob
  BY <1>3, <1>4, <1>5, <1>7, ServesIs DEF Halts
<1> QED
  BY <1>1, <1>2, <1>6, <1>7 DEF CowStep

LEMMA DemandImplements == ASSUME IInv, IInv', RInv, PInv, DemandStep PROVE Implements
<1>1. PICK m : m = job.to
  OBVIOUS
<1>2. PICK v : v = job.page
  OBVIOUS
<1>3. /\ job.op = "demand" /\ job \in JobSet /\ m \in Space /\ v \in Page /\ pte[m][v] = NoPte
      /\ job.why \in {"user", "kernel", "exec"}
      /\ UNCHANGED <<status, areas, pte>> /\ Types /\ Spaces
  BY <1>1, <1>2 DEF DemandStep, IInv, Handling, Busy, Types, PInv, Faults, spaceVars, Forking
<1>4. UNCHANGED Mem
  BY DemandUnseen
<1>5. /\ job.why # "exec" =>
             /\ cur = m /\ status[m] = "live" /\ io[m].op = "none" /\ Doing(m) = FaultAt(v)
      /\ job.why = "exec" => cur = None /\ status[m] = "loading" /\ io[m].op = "none"
      /\ \A n \in Space : ~Forks(n) /\ (n # m => ~Serves(n))
  BY <1>1, <1>2, <1>3, ServedDoes, LoadingDoes
<1>6. CASE /\ Fail /\ UNCHANGED <<cur, io>>
           /\ \/ Hits(m, v) = {}
              \/ \E i \in Hits(m, v) : /\ areas[m][i] # Null
                                       /\ \/ job.rw /\ ~areas[m][i].write
                                          \/ pte[m][v] # NoPte
                                          \/ Exhausted
  <2>1. job'.op = "fail" /\ job'.to = job.to /\ job'.why = job.why /\ job'.page = job.page
    BY <1>3, <1>6 DEF Fail, JobSet
  <2>2. CASE job.why = "exec"
    BY <1>1, <1>3, <1>4, <1>5, <1>6, <2>1, <2>2, WorksOn
  <2>3. CASE job.why # "exec"
    <3>1. \A n \in Space : n # m => Doing(n)' = Doing(n)
      <4>1. \A n \in Space : n # m => ~Serves(n)' /\ ~Forks(n)'
        BY <1>1, <1>3, <2>1 DEF Serves, Forks
      <4> QED
        BY <1>3, <1>5, <1>6, <4>1, Unturned
    <3>2. Hits(m, v) = {} => View(m)[v] = Gone
      BY <1>3, <1>5, <2>3 DEF Hits, View, InAreas
    <3>3. ASSUME NEW i \in Hits(m, v), areas[m][i] # Null, ~areas[m][i].write
          PROVE  v \notin Writable
      <4>1. i \in DOMAIN Blocks /\ areas[m][i] = Blocks[i] /\ v \in Blocks[i].pages
        BY <1>3, <3>3 DEF Hits, Spaces
      <4> QED
        BY <3>3, <4>1, BlockKind
    <3>4. View(m)[v] = Gone \/ v \notin Writable \/ Exhausted
      BY <1>3, <1>6, <3>2, <3>3
    <3> QED
      BY <1>1, <1>3, <1>4, <1>5, <1>6, <2>1, <2>3, <3>1, <3>4, GivesUpIs DEF Halts
  <2> QED
    BY <2>2, <2>3
<1>7. CASE job' = [job EXCEPT !.op = "wild"]
  <2>1. job'.op \in Halts
    BY <1>3, <1>7 DEF JobSet, Halts
  <2> QED
    BY <1>4, <2>1, Stops DEF Implements
<1>8. ASSUME NEW f \in Frame, NEW w \in BOOLEAN, cur' = None, job' = NoJob,
             io' = [io EXCEPT ![m] = [NoIo EXCEPT !.op = "read", !.page = v, !.frame = f,
                                          !.rw = w, !.why = job.why]]
      PROVE  Implements
  <2> DEFINE d == [NoIo EXCEPT !.op = "read", !.page = v, !.frame = f, !.rw = w, !.why = job.why]
  <2>1. d.op = "read" /\ d.page = v /\ d.why = job.why
    BY DEF NoIo
  <2>2. io' = [io EXCEPT ![m] = d]
    BY <1>8
  <2> HIDE DEF d
  <2>3. /\ io'[m].op = "read" /\ io'[m].page = v /\ io'[m].why = job.why
        /\ \A n \in Space : n # m => io'[n] = io[n]
    BY <1>3, <2>1, <2>2 DEF Types
  <2>4. job.why # "exec"
    BY <1>3, <2>3 DEF IInv, Waits
  <2>5. job'.op = "none"
    BY <1>8, NoJobType
  <2>6. \A n \in Space : ~Serves(n)' /\ ~Forks(n)'
    BY <2>5 DEF Serves, Forks
  <2>7. Doing(m)' = FaultAt(v)
    BY <1>3, <1>5, <2>3, <2>4, <2>6 DEF Doing
  <2>8. \A n \in Space : Doing(n)' = Doing(n)
    BY <1>3, <1>5, <2>3, <2>4, <2>6, <2>7, Unturned
  <2>9. UNCHANGED Does /\ Does[m].op = "fault"
    BY <1>3, <1>5, <2>4, <2>8, DoesSame, DoesAt DEF FaultAt
  <2>10. Memory!Sleep(m)
    BY <1>4, <1>5, <1>8, <2>4, <2>9 DEF Memory!Sleep, Mem, Does
  <2>11. UNCHANGED Up
    BY <1>3, <2>5 DEF Up, Halts
  <2> QED
    BY <1>3, <2>10, <2>11, RunsAlone
<1>9. ASSUME NEW f \in Frame, NEW w \in BOOLEAN, UNCHANGED <<cur, io>>,
             job' = [job EXCEPT !.op = "map", !.frame = f, !.rw = w]
      PROVE  Implements
  <2>1. job'.op = "map" /\ job'.to = job.to /\ job'.why = job.why /\ job'.page = job.page
    BY <1>3, <1>9 DEF JobSet
  <2> QED
    BY <1>3, <1>4, <1>9, <2>1, WorksOn
<1>10. \A i \in Hits(m, v) : areas[m][i].write \in BOOLEAN
  <2>1. areas[m] \in Seq(Block) /\ \A i \in Hits(m, v) : i \in DOMAIN areas[m]
    BY <1>3 DEF Hits, Types
  <2>2. \A i \in Hits(m, v) : areas[m][i] \in Block
    BY <2>1
  <2> QED
    BY <2>2 DEF Block
<1> QED
  BY <1>1, <1>2, <1>6, <1>7, <1>8, <1>9, <1>10 DEF DemandStep

\* A page of the executable comes, or does not.
LEMMA ReadDoneImplements ==
    ASSUME IInv, IInv', RInv, NEW m \in Space, ReadDone(m)
    PROVE  Implements
<1>1. PICK v : v = io[m].page
  OBVIOUS
<1> DEFINE j == [NoJob EXCEPT !.to = m, !.page = v, !.why = io[m].why]
<1>2. /\ cur = m /\ job.op = "none" /\ io[m].op = "read" /\ io' = [io EXCEPT ![m] = NoIo]
      /\ UNCHANGED <<status, cur>> /\ Types /\ Spaces /\ Reads
      /\ v \in Page /\ io[m].why \in {"user", "kernel"} /\ status[m] = "live"
  BY <1>1 DEF ReadDone, spaceVars, IInv, Waits, RInv, Halts
<1>3. UNCHANGED Mem
  BY ReadUnseen
<1>4. io'[m].op = "none" /\ \A n \in Space : n # m => io'[n] = io[n]
  BY <1>2, NoJobType DEF Types
<1>5. \A n \in Space : ~Forks(n) /\ ~Serves(n)
  BY <1>2 DEF Forks, Serves
<1>6. Doing(m) = FaultAt(v)
  BY <1>1, <1>2 DEF Doing
<1>7. /\ \/ job'.op = "fail"
         \/ job'.op = "map"
      /\ job'.to = m /\ job'.page = v /\ job'.why = io[m].why
  BY <1>1 DEF ReadDone, NoJob
<1>8. \A n \in Space : n # m => Doing(n)' = Doing(n)
  <2>1. \A n \in Space : n # m => ~Serves(n)' /\ ~Forks(n)'
    BY <1>2, <1>7 DEF Serves, Forks
  <2> QED
    BY <1>2, <1>4, <1>5, <2>1, Unturned
<1>9. Serves(m)' /\ ~Forks(m)'
  BY <1>2, <1>7 DEF Serves, Forks
<1>10. UNCHANGED Up
  BY <1>2, <1>7 DEF Up, Halts
<1>11. CASE job'.op = "map"
  <2>1. Doing(m)' = FaultAt(v)
    BY <1>2, <1>4, <1>7, <1>9, <1>11 DEF Doing
  <2>2. UNCHANGED Does
    BY <1>6, <1>8, <2>1, DoesSame
  <2> QED
    BY <1>2, <1>3, <1>10, <2>2 DEF Implements, Stutters
<1>12. CASE job'.op = "fail"
  <2>1. Doing(m)' = At("fail")
    BY <1>2, <1>4, <1>9, <1>12 DEF Doing
  <2>2. Memory!Turns(m, FaultAt(v), At("fail"))
    BY <1>2, <1>6, <1>8, <2>1, TurnsIs
  <2>3. v \in OnDisk
    <3>1. PICK i \in DOMAIN areas[m] : areas[m][i].file /\ v \in areas[m][i].pages
      BY <1>1, <1>2 DEF Reads
    <3>2. i \in DOMAIN Blocks /\ areas[m][i] = Blocks[i]
      BY <1>2, <3>1, AreaBlock
    <3> QED
      BY <3>1, <3>2, BlockKind
  <2>4. Memory!GivesUp(m)
    BY <1>2, <2>2, <2>3 DEF Memory!GivesUp, Memory!At, Memory!FaultAt, At, FaultAt
  <2> QED
    BY <1>2, <1>3, <1>10, <2>4, KernelIs
<1> QED
  BY <1>7, <1>11, <1>12

\* A space that does not run yet is not looked at.
LEMMA HiddenUnseen ==
    ASSUME NEW m \in Space, status[m] # "live", status'[m] # "live", UNCHANGED data,
           \A n \in Space : n # m => /\ pte'[n] = pte[n] /\ areas'[n] = areas[n]
                                     /\ status'[n] = status[n]
    PROVE  UNCHANGED Mem
<1>1. ASSUME NEW n \in Space PROVE View(n)' = View(n)
  <2>1. CASE n = m
    BY <2>1, SameView
  <2>2. CASE n # m
    <3>1. pte'[n] = pte[n] /\ areas'[n] = areas[n] /\ status'[n] = status[n]
      BY <2>2
    <3>2. \A v \in Page : InAreas(n, v)' <=> InAreas(n, v)
      BY <3>1 DEF InAreas
    <3> QED
      BY <3>1, <3>2, SameView
  <2> QED
    BY <2>1, <2>2
<1> QED
  BY <1>1 DEF Mem

\* The first page of a program is mapped, and it starts.
LEMMA MapLoads ==
    ASSUME IInv, RInv, job.op = "map", job.why = "exec", NEW e \in Entry, e.frame = job.frame,
           NEW m, m = job.to, NEW v, v = job.page, pte' = [pte EXCEPT ![m][v] = e],
           status' = [status EXCEPT ![m] = "live"], UNCHANGED <<data, areas, io>>,
           cur' = m, job' = NoJob
    PROVE  Implements
<1>1. /\ m \in Space /\ v \in Page /\ job.frame \in Frame /\ Types /\ status[m] = "loading"
      /\ areas[m] = Image /\ pte[m] = Flushed /\ io[m].op = "none" /\ cur = None
      /\ InAreas(m, v) /\ data[job.frame] = Fresh(v)
      /\ Doing(m) = At("load") /\ \A n \in Space : ~Forks(n) /\ (n # m => ~Serves(n))
  BY MapHandling, LoadingDoes DEF IInv, RInv, Halts, Starting, Arriving
<1>2. Entered(m, v, e) /\ e # NoPte
  BY <1>1, EntryFrames DEF Entered
<1>3. /\ pte'[m][v] = e /\ \A w \in Page : w # v => pte'[m][w] = NoPte
      /\ \A n \in Space : n # m => pte'[n] = pte[n] /\ status'[n] = status[n]
      /\ status'[m] = "live"
  BY <1>1, <1>2, EntrySet DEF Flushed, Types
<1>4. View(m) = Nothing
  BY <1>1 DEF View, Nothing
<1>5. View(m)' = Loaded
  <2>1. ASSUME NEW w \in Page PROVE View(m)'[w] = Loaded[w]
    <3>1. CASE w = v
      BY <1>1, <1>2, <1>3, <3>1 DEF View, Loaded, InAreas, Fresh
    <3>2. CASE w # v
      BY <1>1, <1>3, <3>2 DEF View, Loaded, Fresh
    <3> QED
      BY <3>1, <3>2
  <2> QED
    BY <2>1 DEF View, Loaded
<1>6. ASSUME NEW n \in Space, n # m PROVE View(n)' = View(n)
  <2>1. pte'[n] = pte[n] /\ status'[n] = status[n] /\ areas'[n] = areas[n]
    BY <1>3, <1>6
  <2> QED
    BY <2>1, SameView DEF InAreas
<1>7. Mem[m] = Nothing /\ Mem' = [Mem EXCEPT ![m] = Loaded]
  BY <1>1, <1>4, <1>5, <1>6, MemSet, MemAt
<1>8. job'.op = "none" /\ \A n \in Space : ~Serves(n)' /\ ~Forks(n)'
  BY NoJobType DEF Serves, Forks
<1>9. Doing(m)' = At("user")
  BY <1>1, <1>3, <1>8 DEF Doing
<1>10. \A n \in Space : n # m => Doing(n)' = Doing(n)
  BY <1>1, <1>3, <1>8, Unturned
<1>11. Does[m] = At("load") /\ Does' = [Does EXCEPT ![m] = At("user")]
  BY <1>1, <1>9, <1>10, DoesSet, DoesAt
<1>12. Memory!Load(m)
  BY <1>1, <1>7, <1>11 DEF Memory!Load, Memory!Empty, Mem, Nothing, Does, Memory!At, At
<1>13. UNCHANGED Up
  BY <1>8 DEF Up, Halts
<1> QED
  BY <1>1, <1>12, <1>13, RunsAlone

\* A page that was missing is mapped, with the contents it would have had.
LEMMA MapUnseen ==
    ASSUME IInv, RInv, job.op = "map", job.why # "fork", NEW e \in Entry, e.frame = job.frame,
           pte' = [pte EXCEPT ![job.to][job.page] = e], UNCHANGED <<data, areas, status>>
    PROVE  UNCHANGED Mem
<1> DEFINE m == job.to
           v == job.page
<1>1. /\ m \in Space /\ v \in Page /\ job.frame \in Frame /\ Types /\ pte[m][v] = NoPte
      /\ InAreas(m, v) /\ data[job.frame] = Fresh(v)
  BY MapHandling DEF IInv, RInv, Halts, Arriving
<1>2. Entered(m, v, e) /\ e # NoPte
  BY <1>1, EntryFrames DEF Entered
<1>3. /\ pte'[m][v] = e
      /\ \A n \in Space, w \in Page : ~(n = m /\ w = v) => pte'[n][w] = pte[n][w]
  BY <1>1, <1>2, EntrySet
<1>4. ASSUME NEW n \in Space PROVE View(n)' = View(n)
  <2>1. \A w \in Page : InAreas(n, w)' <=> InAreas(n, w)
    BY DEF InAreas
  <2>2. ASSUME NEW w \in Page
        PROVE  \/ pte[n][w] = NoPte /\ pte'[n][w] = NoPte
               \/ /\ pte'[n][w] # NoPte
                  /\ \/ /\ pte[n][w] # NoPte
                        /\ data'[pte'[n][w].frame] = data[pte[n][w].frame]
                     \/ /\ pte[n][w] = NoPte /\ InAreas(n, w)
                        /\ data'[pte'[n][w].frame] = Fresh(w)
    <3>1. CASE n = m /\ w = v
      BY <1>1, <1>2, <1>3, <3>1
    <3>2. CASE ~(n = m /\ w = v)
      <4>1. pte'[n][w] = pte[n][w]
        BY <1>3, <3>2
      <4> QED
        BY <4>1
    <3> QED
      BY <3>1, <3>2
  <2> QED
    BY <2>1, <2>2, SameView
<1> QED
  BY <1>4 DEF Mem

\* A fork goes on.
LEMMA ForkGoesOn ==
    ASSUME IInv, Copying, job'.op \in {"share", "map"}, job'.why = "fork",
           UNCHANGED <<status, io, cur, Mem>>
    PROVE  Implements
<1>1. \A n \in Space : (Forks(n)' <=> Forks(n)) /\ ~Serves(n) /\ ~Serves(n)'
  BY DEF Forks, Serves, Copying
<1>2. ASSUME NEW n \in Space PROVE Doing(n)' = Doing(n)
  <2>1. CASE status[n] # "live"
    BY <1>1, <2>1, HiddenUnturned
  <2>2. CASE status[n] = "live"
    BY <1>1, <2>2 DEF Doing
  <2> QED
    BY <2>1, <2>2
<1>3. UNCHANGED Up
  BY DEF Up, Halts, Copying
<1> QED
  BY <1>2, <1>3, DoesSame DEF Implements, Stutters

LEMMA MapImplements == ASSUME IInv, IInv', RInv, MapStep PROVE Implements
<1>1. PICK m : m = job.to
  OBVIOUS
<1>2. PICK v : v = job.page
  OBVIOUS
<1> DEFINE e == [frame |-> job.frame, rw |-> job.rw, cow |-> job.cow]
<1>3. /\ job.op = "map" /\ m \in Space /\ v \in Page /\ job.frame \in Frame /\ job \in JobSet
      /\ job.why \in {"user", "kernel", "exec", "fork"}
      /\ Types /\ e \in Entry /\ e.frame = job.frame /\ UNCHANGED io
  BY <1>1, <1>2, MapHandling DEF MapStep, IInv, Entry, Pte, JobSet
<1>4. /\ job.why = "fork" => Copying /\ status[m] = "loading"
      /\ job.why \in {"user", "kernel"} =>
             /\ cur = m /\ status[m] = "live" /\ io[m].op = "none" /\ Doing(m) = FaultAt(v)
             /\ \A n \in Space : ~Forks(n) /\ (n # m => ~Serves(n))
      /\ job.why = "exec" => status[m] = "loading"
  BY <1>1, <1>2, <1>3, ServedDoes, LoadingDoes, ForkHandling DEF Copying
<1>5. ASSUME NEW f \in Frame, FirstFree(f), data' = [data EXCEPT ![f] = Zero],
             UNCHANGED <<pte, areas, status, cur, job>>
      PROVE  Implements
  <2>1. \A n \in Space, w \in Page : pte[n][w].frame # f
    BY <1>3, <1>5, FreshFrame DEF IInv
  <2>2. UNCHANGED Mem
    BY <1>5, <2>1, FilledUnseen
  <2> QED
    BY <1>3, <1>4, <1>5, <2>2, ForkGoesOn, WorksOn
<1>6. ASSUME job.why = "fork", areas' = [areas EXCEPT ![m] = Append(@, Null)],
             job' = [job EXCEPT !.op = "share", !.frame = NoFrame, !.cow = FALSE,
                                !.todo = PagesOf(cur, Len(areas[m]) + 2)],
             UNCHANGED <<data, pte, status, cur>>
      PROVE  Implements
  <2>1. \A n \in Space : n # m => areas'[n] = areas[n]
    BY <1>3, <1>6 DEF Types
  <2>2. UNCHANGED Mem
    BY <1>3, <1>4, <1>6, <2>1, HiddenUnseen
  <2>3. job'.op = "share" /\ job'.why = "fork"
    BY <1>3, <1>6 DEF JobSet
  <2> QED
    BY <1>3, <1>4, <1>6, <2>2, <2>3, ForkGoesOn
<1>7. ASSUME job.why # "fork", Exhausted, Leftover, Fail, UNCHANGED <<pte, areas, status, cur>>
      PROVE  Implements
  <2>1. UNCHANGED Mem
    BY <1>7, LeftoverUnseen
  <2>2. job'.op = "fail" /\ job'.to = job.to /\ job'.why = job.why /\ job'.page = job.page
    BY <1>3, <1>7 DEF Fail, JobSet
  <2>3. CASE job.why = "exec"
    BY <1>1, <1>3, <1>4, <1>7, <2>1, <2>2, <2>3, WorksOn
  <2>4. CASE job.why # "exec"
    <3>1. \A n \in Space : n # m => Doing(n)' = Doing(n)
      <4>1. \A n \in Space : n # m => ~Serves(n)' /\ ~Forks(n)'
        BY <1>1, <1>3, <1>7, <2>2 DEF Serves, Forks
      <4> QED
        BY <1>3, <1>4, <1>7, <2>4, <4>1, Unturned
    <3> QED
      BY <1>1, <1>3, <1>4, <1>7, <2>1, <2>2, <2>4, <3>1, GivesUpIs DEF Halts
  <2> QED
    BY <2>3, <2>4
<1>8. ASSUME pte' = [pte EXCEPT ![m][v] = e], job.why = "fork", UNCHANGED <<data, areas, status, cur>>,
             job' = [job EXCEPT !.op = "share", !.frame = NoFrame, !.cow = FALSE]
      PROVE  Implements
  <2>1. \A n \in Space : n # m => pte'[n] = pte[n]
    BY <1>3, <1>8 DEF Types
  <2>2. UNCHANGED Mem
    BY <1>3, <1>4, <1>8, <2>1, HiddenUnseen
  <2>3. job'.op = "share" /\ job'.why = "fork"
    BY <1>3, <1>8 DEF JobSet
  <2> QED
    BY <1>3, <1>4, <1>8, <2>2, <2>3, ForkGoesOn
<1>9. ASSUME pte' = [pte EXCEPT ![m][v] = e], job.why = "exec",
             status' = [status EXCEPT ![m] = "live"], UNCHANGED <<data, areas>>,
             cur' = m, job' = NoJob
      PROVE  Implements
  <2> HIDE DEF e
  <2> QED
    BY <1>1, <1>2, <1>3, <1>9, MapLoads
<1>10. ASSUME pte' = [pte EXCEPT ![m][v] = e], job.why \notin {"fork", "exec"}, job' = NoJob,
              UNCHANGED <<data, areas, status, cur>>
       PROVE  Implements
  <2> HIDE DEF e
  <2>1. UNCHANGED Mem
    BY <1>1, <1>2, <1>3, <1>10, MapUnseen
  <2> QED
    BY <1>3, <1>4, <1>10, <2>1, ServesIs DEF Halts
<1>11. \/ \E f \in Frame : /\ FirstFree(f) /\ data' = [data EXCEPT ![f] = Zero]
                           /\ UNCHANGED <<pte, areas, status, cur, job>>
       \/ /\ job.why = "fork" /\ areas' = [areas EXCEPT ![m] = Append(@, Null)]
          /\ job' = [job EXCEPT !.op = "share", !.frame = NoFrame, !.cow = FALSE,
                                !.todo = PagesOf(cur, Len(areas[m]) + 2)]
          /\ UNCHANGED <<data, pte, status, cur>>
       \/ job.why # "fork" /\ Exhausted /\ Leftover /\ Fail /\ UNCHANGED <<pte, areas, status, cur>>
       \/ /\ pte' = [pte EXCEPT ![m][v] = e] /\ job.why = "fork" /\ UNCHANGED <<data, areas, status, cur>>
          /\ job' = [job EXCEPT !.op = "share", !.frame = NoFrame, !.cow = FALSE]
       \/ /\ pte' = [pte EXCEPT ![m][v] = e] /\ job.why = "exec"
          /\ status' = [status EXCEPT ![m] = "live"] /\ UNCHANGED <<data, areas>>
          /\ cur' = m /\ job' = NoJob
       \/ /\ pte' = [pte EXCEPT ![m][v] = e] /\ job.why \notin {"fork", "exec"} /\ job' = NoJob
          /\ UNCHANGED <<data, areas, status, cur>>
  BY <1>1, <1>2 DEF MapStep
<1> HIDE DEF e
<1> QED
  BY <1>5, <1>6, <1>7, <1>8, <1>9, <1>10, <1>11

LEMMA SharePageImplements == ASSUME IInv, SharePage PROVE Implements
<1>1. /\ job.op = "share" /\ job.why = "fork" /\ Copying /\ job \in JobSet
      /\ UNCHANGED <<status, cur, io>> /\ UNCHANGED Mem
  BY ShareUnseen DEF SharePage, IInv, Handling, Busy, Copying, Types
<1>2. job'.op \in {"share", "map", "panic_retain"} /\ job'.why = job.why
  BY <1>1 DEF SharePage, JobSet
<1>3. CASE job'.op = "panic_retain"
  BY <1>1, <1>3, Stops DEF Halts, Implements
<1> QED
  BY <1>1, <1>2, <1>3, ForkGoesOn

\* When the last block is shared, the child has the memory of its parent, but for
\* the pages that were lost on the way, if no frame was left.
LEMMA ShareBlockImplements ==
    ASSUME IInv, RInv, PInv, ShareBlock, NEW n, n = job.to
    PROVE  Implements
<1> DEFINE k == Len(areas[n]) + 1
<1>1. PICK m : m = cur
  OBVIOUS
<1>2. /\ job.op = "share" /\ job.why = "fork" /\ job.todo = {} /\ Copying /\ job \in JobSet
      /\ UNCHANGED <<data, pte, cur, io>>
  BY DEF ShareBlock, IInv, Handling, Busy, Copying, Types
<1>3. /\ n \in Space /\ m \in Space /\ m # n /\ Types /\ Present
      /\ status[n] = "loading" /\ status[m] = "live" /\ io[m].op = "none" /\ io[n].op = "none"
      /\ areas[n] \in Seq(Block) /\ areas[m] \in Seq(Block) /\ Len(areas[n]) <= Len(areas[m])
      /\ \A i \in DOMAIN areas[n] : areas[n][i] = Null \/ areas[n][i] = areas[m][i]
      /\ \A v \in Page :
            /\ pte[n][v] # NoPte => pte[m][v] # NoPte /\ pte[n][v].frame = pte[m][v].frame
            /\ pte[m][v] # NoPte /\ InAreas(n, v) => pte[n][v] # NoPte
  BY <1>1, <1>2, CopiedFacts, ForkHandling
<1>4. CASE /\ areas' = [areas EXCEPT ![n] = Append(@, areas[cur][k])] /\ UNCHANGED status
           /\ job' = [job EXCEPT !.todo = PagesOf(cur, k + 1)]
  <2>1. \A j \in Space : j # n => areas'[j] = areas[j]
    BY <1>3, <1>4 DEF Types
  <2>2. UNCHANGED Mem
    BY <1>2, <1>3, <1>4, <2>1, HiddenUnseen
  <2>3. job'.op = "share" /\ job'.why = "fork"
    BY <1>2, <1>4 DEF JobSet
  <2> QED
    BY <1>2, <1>4, <2>2, <2>3, ForkGoesOn
<1>5. CASE UNCHANGED <<areas, status>> /\ job' = [job EXCEPT !.op = "wild"]
  <2>1. job'.op \in Halts
    BY <1>2, <1>5 DEF JobSet, Halts
  <2> QED
    BY <1>2, <1>5, <2>1, Unseen, Stops DEF Implements
<1>6. CASE /\ k \notin DOMAIN areas[cur]
           /\ status' = [status EXCEPT ![n] = "live"] /\ UNCHANGED areas /\ job' = NoJob
  <2>1. \A j \in Space : j # n => status'[j] = status[j]
    BY <1>3, <1>6 DEF Types
  <2>2. status'[n] = "live"
    BY <1>3, <1>6 DEF Types
  <2>3. \A v \in Page : InAreas(n, v) => InAreas(m, v)
    <3> SUFFICES ASSUME NEW v \in Page, NEW i \in DOMAIN areas[n], v \in areas[n][i].pages
                 PROVE  InAreas(m, v)
      BY DEF InAreas
    <3>1. areas[n][i] = areas[m][i]
      BY <1>3, ImageBlocks
    <3>2. i \in DOMAIN areas[m]
      BY <1>3
    <3> QED
      BY <3>1, <3>2 DEF InAreas
  <2>4. View(n) = Nothing
    BY <1>3 DEF View, Nothing
  <2>5. ASSUME NEW v \in Page, View(n)'[v] # Gone PROVE View(n)'[v] = View(m)[v]
    <3>1. CASE pte[n][v] # NoPte
      BY <1>2, <1>3, <2>2, <3>1 DEF View
    <3>2. CASE pte[n][v] = NoPte /\ InAreas(n, v)
      <4>1. pte[m][v] = NoPte /\ InAreas(m, v)
        BY <1>3, <2>3, <3>2
      <4> QED
        BY <1>2, <1>3, <1>6, <2>2, <3>2, <4>1 DEF View, InAreas, Fresh
    <3>3. CASE pte[n][v] = NoPte /\ ~InAreas(n, v)
      BY <1>2, <1>6, <2>2, <2>5, <3>3 DEF View, InAreas
    <3> QED
      BY <3>1, <3>2, <3>3
  <2>6. ASSUME \A i \in DOMAIN areas[n] : areas[n][i] # Null, NEW v \in Page, View(n)'[v] = Gone
        PROVE  View(m)[v] = Gone
    <3>1. DOMAIN areas[n] = DOMAIN areas[m] /\ \A i \in DOMAIN areas[n] : areas[n][i] = areas[m][i]
      BY <1>1, <1>3, <1>6, <2>6
    <3>2. InAreas(m, v) <=> InAreas(n, v)
      BY <3>1 DEF InAreas
    <3>3. pte[m][v] # NoPte => InAreas(m, v)
      <4> SUFFICES ASSUME pte[m][v] # NoPte PROVE InAreas(m, v)
        OBVIOUS
      <4>1. PICK i \in DOMAIN areas[m] : i \in DOMAIN Blocks /\ v \in Blocks[i].pages
        BY <1>3 DEF Present
      <4>2. areas[m][i] # Null
        BY <2>6, <3>1, <4>1
      <4>3. areas[m][i] = Blocks[i]
        BY <1>3, <4>1, <4>2 DEF IInv, Spaces
      <4> QED
        BY <4>1, <4>3 DEF InAreas
    <3>4. CASE InAreas(n, v)
      <4>1. View(n)'[v] # Gone
        <5>1. Zero # Gone /\ FileVal # Gone /\ Fresh(v) # Gone
          BY VmmAssumption DEF Fresh
        <5>2. pte[n][v] # NoPte => data[pte[n][v].frame] # Gone
          BY <1>3, EntryFrames, VmmAssumption DEF Types
        <5> QED
          BY <1>2, <1>6, <2>2, <3>4, <5>1, <5>2 DEF View, InAreas, Fresh
      <4> QED
        BY <2>6, <4>1
    <3>5. CASE ~InAreas(n, v)
      BY <1>3, <3>2, <3>3, <3>5 DEF View, InAreas
    <3> QED
      BY <3>4, <3>5
  <2>7. PICK D \in SUBSET Page :
            /\ D # {} => Exhausted
            /\ \A v \in Page : View(n)'[v] = IF v \in D THEN Gone ELSE View(m)[v]
    <3>1. CASE \E i \in DOMAIN areas[n] : areas[n][i] = Null
      <4>1. Exhausted
        BY <1>2, <3>1 DEF PInv, Shortage
      <4>2. PICK L \in SUBSET Page : \A v \in Page : v \in L <=> View(n)'[v] = Gone
        <5>1. {v \in Page : View(n)'[v] = Gone} \in SUBSET Page
          OBVIOUS
        <5> QED
          BY <5>1
      <4>3. \A v \in Page : View(n)'[v] = IF v \in L THEN Gone ELSE View(m)[v]
        BY <2>5, <4>2
      <4> QED
        BY <4>1, <4>3
    <3>2. CASE \A i \in DOMAIN areas[n] : areas[n][i] # Null
      <4>1. \A v \in Page : View(n)'[v] = View(m)[v]
        BY <2>5, <2>6, <3>2
      <4>2. PICK L : L = {}
        OBVIOUS
      <4>3. L \in SUBSET Page /\ (L # {} => Exhausted)
        BY <4>2
      <4>4. \A v \in Page : View(n)'[v] = IF v \in L THEN Gone ELSE View(m)[v]
        BY <4>1, <4>2
      <4> QED
        BY <4>3, <4>4
    <3> QED
      BY <3>1, <3>2
  <2>8. View(n)' = [v \in Page |-> IF v \in D THEN Gone ELSE View(m)[v]]
    BY <2>7 DEF View
  <2>9. ASSUME NEW j \in Space, j # n PROVE View(j)' = View(j)
    BY <1>2, <1>6, <2>1, <2>9, SameView DEF InAreas
  <2>10. /\ Mem[n] = Nothing
        /\ Mem' = [Mem EXCEPT ![n] = [v \in Page |-> IF v \in D THEN Gone ELSE Mem[m][v]]]
    BY <1>3, <2>4, <2>8, <2>9, MemSet, MemAt
  <2>11. job'.op = "none" /\ \A j \in Space : ~Serves(j)' /\ ~Forks(j)'
    BY <1>6, NoJobType DEF Serves, Forks
  <2>12. /\ Doing(m) = At("fork") /\ Doing(n) = At("none")
         /\ \A j \in Space : ~Serves(j) /\ (j # m => ~Forks(j))
    BY <1>1, <1>2, ForkingDoes
  <2>13. Doing(m)' = At("user") /\ Doing(n)' = At("user")
    BY <1>2, <1>3, <2>1, <2>2, <2>11 DEF Doing
  <2>14. \A j \in Space : j # m /\ j # n => Doing(j)' = Doing(j)
    BY <1>2, <2>1, <2>11, <2>12, Unturned
  <2>15. /\ Does[m] = At("fork") /\ Does[n] = At("none")
         /\ Does' = [Does EXCEPT ![m] = At("user"), ![n] = At("user")]
    <3>1. \A j \in Space : Doing(j)' = IF j = n \/ j = m THEN At("user") ELSE Doing(j)
      BY <2>13, <2>14
    <3>2. Does' = [j \in Space |-> IF j = n \/ j = m THEN At("user") ELSE Doing(j)]
      BY <3>1 DEF Does
    <3>3. [Does EXCEPT ![m] = At("user"), ![n] = At("user")]
              = [j \in Space |-> IF j = n \/ j = m THEN At("user") ELSE Doing(j)]
      BY <1>3 DEF Does
    <3> QED
      BY <1>3, <2>12, <3>2, <3>3, DoesAt
  <2>16. Memory!Forked(m, n)
    BY <1>1, <1>2, <2>7, <2>10, <2>15 DEF Memory!Forked, Memory!Empty, Mem, Nothing, Does, Memory!At, At
  <2>17. UNCHANGED Up
    BY <1>2, <2>11 DEF Up, Halts
  <2> QED
    BY <1>3, <2>16, <2>17, RunsBoth
<1> QED
  BY <1>4, <1>5, <1>6 DEF ShareBlock, spaceVars

-----------------------------------------------------------------------------
(* The refinement                                                          *)

MemoryState == <<Mem, cur, Does, Exhausted, Up>>

LEMMA NextImplements ==
    IInv /\ RInv /\ PInv /\ Grown /\ [Next]_vars => [Memory!Next]_MemoryState
<1> SUFFICES ASSUME IInv, RInv, PInv, Grown, [Next]_vars
             PROVE  Memory!Next \/ UNCHANGED MemoryState
  OBVIOUS
<1>1. IInv'
  BY NextIInv
<1>2. CASE UNCHANGED vars
  <2>1. UNCHANGED <<Mem, cur, Does>>
    BY <1>2 DEF vars, spaceVars, Mem, View, InAreas, Does, Doing, Serves, Forks
  <2>2. UNCHANGED <<Exhausted, Up>>
    BY <1>2 DEF vars, spaceVars, Exhausted, Up
  <2> QED
    BY <2>1, <2>2 DEF MemoryState
<1>3. CASE Next /\ job.op \in Halts
  <2>1. Halted
    BY <1>3 DEF Next, Halts, Access, Fault, Sbrk, Switch, ReadDone, Exit, ExecFails, ExecCommits,
                Fork, Exec, CowStep, DemandStep, MapStep, FailStep, SharePage, ShareBlock, InUser, Copying
  <2> QED
    BY <1>2, <2>1 DEF Halted
<1>4. CASE Next /\ job.op \notin Halts
  <2>1. Implements
    <3>1. ASSUME NEW m \in Space, Access(m) \/ Fault(m) \/ Sbrk(m) \/ Switch(m) PROVE Implements
      BY <3>1, AccessImplements, FaultImplements, SbrkImplements, SwitchImplements
    <3>2. ASSUME NEW m \in Space, ReadDone(m) \/ Exit(m) PROVE Implements
      BY <1>1, <3>2, ReadDoneImplements, ExitImplements
    <3>3. ASSUME NEW m \in Space, ExecFails(m) \/ ExecCommits(m) PROVE Implements
      <4>1. PICK n : n = io[m].next
        OBVIOUS
      <4> QED
        BY <1>1, <3>3, <4>1, ExecFailsImplements, ExecCommitsImplements
    <3>4. ASSUME NEW m \in Space, NEW n \in Space, Fork(m, n) \/ Exec(m, n) PROVE Implements
      BY <3>4, ForkImplements, ExecImplements
    <3>5. CASE CowStep \/ DemandStep \/ MapStep \/ FailStep \/ SharePage
      BY <1>1, <3>5, CowImplements, DemandImplements, MapImplements, FailImplements, SharePageImplements
    <3>6. CASE ShareBlock
      <4>1. PICK n : n = job.to
        OBVIOUS
      <4> QED
        BY <3>6, <4>1, ShareBlockImplements
    <3>7. CASE Halted
      BY <1>4, <3>7 DEF Halted
    <3> QED
      BY <1>4, <3>1, <3>2, <3>3, <3>4, <3>5, <3>6, <3>7 DEF Next
  <2>2. Up = TRUE
    BY <1>4 DEF Up
  <2>3. Memory!Next
    BY <2>1, <2>2 DEF Implements, Stutters, Memory!Next, Memory!Runs, Memory!Stop, Mem, Does, Up
  <2> QED
    BY <2>3
<1> QED
  BY <1>2, <1>3, <1>4

\* The first program is being loaded, and no space has any memory.
LEMMA InitImplements == Init => Memory!Init
<1> SUFFICES ASSUME Init PROVE Memory!Init
  OBVIOUS
<1>1. First \in Space /\ job.op = "demand" /\ job.why = "exec" /\ job.to = First
  BY VmmAssumption DEF Init, NoJob
<1>2. \A m \in Space : status[m] # "live"
  BY DEF Init
<1>3. [m \in Space |-> View(m)] = [m \in Space |-> Memory!Empty]
  BY <1>2 DEF View, Memory!Empty
<1>4. ASSUME NEW m \in Space PROVE Doing(m) = Memory!At(IF m = First THEN "load" ELSE "none")
  BY <1>1, <1>2 DEF Doing, Serves, At, Memory!At
<1>5. [m \in Space |-> Doing(m)] = [n \in Space |-> Memory!At(IF n = First THEN "load" ELSE "none")]
  BY <1>4
<1>6. cur = None /\ (job.op \notin Halts) = TRUE
  BY <1>1 DEF Init, Halts
<1> QED
  BY <1>1, <1>3, <1>5, <1>6 DEF Memory!Init

\* Copy on write, demand paging and page-table sharing are invisible: no byte
\* of a program changes but by its own store, memory goes for a reason only,
\* and every step is a step of private memories, or no step at all.
THEOREM VmmIsPrivateMemory == Spec => IsPrivateMemory
<1>1. Spec => []Grown
  <2>1. Init => Grown
    BY InitGrown
  <2>2. IInv /\ RInv /\ Grown /\ [Next]_vars => Grown'
    BY NextGrown
  <2> QED
    BY <2>1, <2>2, ContentsInvariant, PTL DEF Spec
<1>2. Spec => []PInv
  BY InitPInv, NextPInv, ContentsInvariant, PTL DEF Spec
<1>3. IInv /\ RInv /\ PInv /\ Grown /\ [Next]_vars => [Memory!Next]_(Memory!vars)
  BY NextImplements DEF MemoryState, Memory!vars, Mem, Does, Up
<1> QED
  BY <1>1, <1>2, <1>3, InitImplements, ContentsInvariant, PTL DEF Spec, IsPrivateMemory, Memory!Spec
=============================================================================
