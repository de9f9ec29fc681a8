----------------------------- MODULE PipeProofs -----------------------------
(***************************************************************************)
(* Theorems about Pipe for every number of processes and descriptors, every *)
(* ring size and every length of read and write.                           *)
(***************************************************************************)
EXTENDS Pipe, FiniteSetTheorems, SequenceTheorems, TLAPS

-----------------------------------------------------------------------------
(* Ring positions.  A transfer is never longer than the ring, so that a    *)
(* position wraps around at most once.                                     *)

LEMMA AfterIs ==
    ASSUME NEW pos \in Places, NEW d \in 0 .. Size
    PROVE  After(pos, d) = IF pos + d < Size THEN pos + d ELSE pos + d - Size
<1> USE PipeAssumption DEF After, Places
<1>1. CASE pos + d < Size
  BY <1>1
<1>2. CASE pos + d >= Size
  <2>1. pos + d - Size \in 0 .. Size - 1
    BY <1>2
  <2>2. pos + d = Size * 1 + (pos + d - Size)
    BY <1>2
  <2> QED
    BY <1>2, <2>1, <2>2
<1> QED
  BY <1>1, <1>2

LEMMA AfterPlace ==
    ASSUME NEW pos \in Places, NEW d \in 0 .. Size
    PROVE  After(pos, d) \in Places
BY AfterIs, PipeAssumption DEF Places

LEMMA AfterAfter ==
    ASSUME NEW pos \in Places, NEW c \in 0 .. Size, NEW d \in 0 .. Size, c + d <= Size
    PROVE  After(After(pos, c), d) = After(pos, c + d)
<1>1. After(pos, c) \in Places
  BY AfterPlace
<1>2. c + d \in 0 .. Size
  BY PipeAssumption
<1>3. After(pos, c) = IF pos + c < Size THEN pos + c ELSE pos + c - Size
  BY AfterIs
<1>4. After(pos, c + d) = IF pos + (c + d) < Size THEN pos + (c + d) ELSE pos + (c + d) - Size
  BY <1>2, AfterIs
<1>5. After(After(pos, c), d) = IF After(pos, c) + d < Size THEN After(pos, c) + d
                                ELSE After(pos, c) + d - Size
  BY <1>1, AfterIs
<1> QED
  BY <1>3, <1>4, <1>5, PipeAssumption DEF Places

LEMMA AfterInjective ==
    ASSUME NEW pos \in Places, NEW c \in 0 .. Size - 1, NEW d \in 0 .. Size - 1,
           After(pos, c) = After(pos, d)
    PROVE  c = d
<1>1. c \in 0 .. Size /\ d \in 0 .. Size
  BY PipeAssumption
<1> QED
  BY <1>1, AfterIs, PipeAssumption DEF Places

LEMMA MinFacts ==
    ASSUME NEW a \in Nat, NEW b \in Nat
    PROVE  MinOf(a, b) \in Nat /\ MinOf(a, b) <= a /\ MinOf(a, b) <= b
           /\ (MinOf(a, b) < a => MinOf(a, b) = b)
BY DEF MinOf

-----------------------------------------------------------------------------
(* Reference counts.  Refs(fds, e) are the descriptors that refer to e.    *)

Refs(fds, e) == {x \in Proc \X Fds : fds[x[1]][x[2]] = e}

LEMMA RefsFinite ==
    ASSUME NEW fds, NEW e
    PROVE  IsFiniteSet(Refs(fds, e)) /\ Cardinality(Refs(fds, e)) \in Nat
<1>1. IsFiniteSet(Fds)
  BY FS_Interval, PipeAssumption DEF Fds
<1>2. IsFiniteSet(Proc \X Fds)
  BY <1>1, FS_Product, PipeAssumption
<1>3. Refs(fds, e) \in SUBSET (Proc \X Fds)
  BY DEF Refs
<1> QED
  BY <1>2, <1>3, FS_Subset, FS_CardinalityType

\* The descriptors of one process that refer to e, counted as in the table.
LEMMA OwnRefs ==
    ASSUME NEW p \in Proc, NEW D \in SUBSET Fds
    PROVE  /\ IsFiniteSet({p} \X D)
           /\ Cardinality({p} \X D) = Cardinality(D)
           /\ Cardinality(D) \in Nat
<1>1. IsFiniteSet(D)
  <2>1. IsFiniteSet(Fds)
    BY FS_Interval, PipeAssumption DEF Fds
  <2> QED
    BY <2>1, FS_Subset
<1>2. IsFiniteSet({p}) /\ Cardinality({p}) = 1
  BY FS_Singleton
<1>3. Cardinality(D) \in Nat
  BY <1>1, FS_CardinalityType
<1>4. IsFiniteSet({p} \X D) /\ Cardinality({p} \X D) = Cardinality({p}) * Cardinality(D)
  BY <1>1, <1>2, FS_Product
<1> QED
  BY <1>2, <1>3, <1>4

LEMMA ReleasedCounts ==
    ASSUME TypeOK, RefcountsExact, NEW p \in Proc, NEW D \in SUBSET Fds, NEW e \in Ends,
           NEW fds,
           \A q \in Proc, d \in Fds :
               fds[q][d] = IF q = p /\ d \in D THEN "none" ELSE open_fds[q][d]
    PROVE  /\ Released(p, D)[e] = Cardinality(Refs(fds, e))
           /\ Released(p, D)[e] <= refcount[e]
<1> DEFINE O == {d \in D : open_fds[p][d] = e}
<1>1. O \in SUBSET Fds /\ e # "none"
  BY DEF Ends
<1>2. {p} \X O \subseteq Refs(open_fds, e)
  BY <1>1 DEF Refs
<1>3. Refs(fds, e) = Refs(open_fds, e) \ ({p} \X O)
  BY <1>1 DEF Refs
<1>4. Refs(open_fds, e) \cap ({p} \X O) = {p} \X O
  BY <1>2
<1>5. Cardinality(Refs(fds, e)) = Cardinality(Refs(open_fds, e)) - Cardinality({p} \X O)
  <2>1. IsFiniteSet(Refs(open_fds, e)) /\ IsFiniteSet({p} \X O)
    BY <1>1, RefsFinite, OwnRefs
  <2> HIDE DEF O
  <2>2. Cardinality(Refs(open_fds, e) \ ({p} \X O)) =
            Cardinality(Refs(open_fds, e)) - Cardinality(Refs(open_fds, e) \cap ({p} \X O))
    BY <2>1, FS_Difference
  <2> QED
    BY <1>3, <1>4, <2>2
<1>6. Cardinality({p} \X O) = Cardinality(O) /\ Cardinality(O) \in Nat
  BY <1>1, OwnRefs
<1>7. refcount[e] = Cardinality(Refs(open_fds, e))
  BY DEF RefcountsExact, Refs
<1>8. Released(p, D)[e] = refcount[e] - Cardinality(O)
  BY DEF Released
<1> HIDE DEF O
<1> QED
  BY <1>5, <1>6, <1>7, <1>8, RefsFinite

LEMMA ClonedCounts ==
    ASSUME TypeOK, RefcountsExact, NEW p \in Proc, NEW q \in Proc, NEW e \in Ends,
           \A d \in Fds : open_fds[q][d] = "none",
           NEW fds, fds = [open_fds EXCEPT ![q] = open_fds[p]]
    PROVE  Cloned(p)[e] = Cardinality(Refs(fds, e))
<1> DEFINE O == {d \in Fds : open_fds[p][d] = e}
<1>1. O \in SUBSET Fds /\ e # "none"
  BY DEF Ends
<1>2. Refs(fds, e) = Refs(open_fds, e) \cup ({q} \X O)
  BY <1>1 DEF Refs, TypeOK
<1>3. Refs(open_fds, e) \cap ({q} \X O) = {}
  BY <1>1 DEF Refs
<1>4. Cardinality(Refs(fds, e)) =
          Cardinality(Refs(open_fds, e)) + Cardinality({q} \X O) - Cardinality({})
  <2>1. IsFiniteSet(Refs(open_fds, e)) /\ IsFiniteSet({q} \X O)
    BY <1>1, RefsFinite, OwnRefs
  <2> HIDE DEF O
  <2>2. Cardinality(Refs(open_fds, e) \cup ({q} \X O)) =
            Cardinality(Refs(open_fds, e)) + Cardinality({q} \X O)
                - Cardinality(Refs(open_fds, e) \cap ({q} \X O))
    BY <2>1, FS_Union
  <2> QED
    BY <1>2, <1>3, <2>2
<1>5. Cardinality({q} \X O) = Cardinality(O) /\ Cardinality(O) \in Nat
  BY <1>1, OwnRefs
<1>6. refcount[e] = Cardinality(Refs(open_fds, e))
  BY DEF RefcountsExact, Refs
<1>7. Cloned(p)[e] = refcount[e] + Cardinality(O)
  BY DEF Cloned
<1>8. Cardinality({}) = 0
  BY FS_EmptySet
<1> HIDE DEF O
<1> QED
  BY <1>4, <1>5, <1>6, <1>7, <1>8, RefsFinite

\* A descriptor that refers to e keeps its count above zero.
LEMMA HeldCounts ==
    ASSUME NEW fds, NEW e, NEW p \in Proc, NEW d \in Fds, fds[p][d] = e
    PROVE  Cardinality(Refs(fds, e)) > 0
<1>1. <<p, d>> \in Refs(fds, e)
  BY DEF Refs
<1> QED
  BY <1>1, RefsFinite, FS_EmptySet

-----------------------------------------------------------------------------
(* The inductive invariant                                                 *)

PollEnd(p) == IF todo[p] = 0 THEN "r" ELSE "w"

\* Only a task inside a call is asleep; the call has something left to do
\* and a descriptor of its end, which keeps the pipe in being; a process
\* that is not there holds no descriptor.
CallInv ==
    \A p \in Proc :
        /\ asleep[p] => pc[p] \in {"read", "write", "poll"}
        /\ pc[p] \in {"read", "write"} => todo[p] > 0
        /\ pc[p] = "read" => Holds(p, "r")
        /\ pc[p] = "write" => Holds(p, "w")
        /\ pc[p] = "poll" => Holds(p, PollEnd(p))
        /\ pc[p] = "none" => \A d \in Fds : open_fds[p][d] = "none"

IInv == TypeOK /\ CallInv /\ RefcountsExact /\ InOrder /\ NoLostWakeup

LEMMA InitIInv == Init => IInv
<1> SUFFICES ASSUME Init PROVE IInv
  OBVIOUS
<1> USE PipeAssumption
<1>1. TypeOK
  <2>1. buffer \in [Places -> Nat] /\ read_pos \in Places /\ write_pos \in Places /\ used \in 0 .. Size
    BY DEF Init, Places
  <2>2. open_fds \in [Proc -> [Fds -> Ends \cup {"none"}]]
    BY DEF Init, Ends
  <2>3. refcount \in [Ends -> Nat] /\ pc \in [Proc -> {"none", "user", "ret", "read", "write", "poll"}]
    BY DEF Init
  <2> QED
    BY <2>1, <2>2, <2>3 DEF Init, TypeOK
<1>2. CallInv
  BY DEF Init, CallInv, Fds
<1>3. RefcountsExact
  <2>1. Refs(open_fds, "r") = {<<First, 0>>} /\ Refs(open_fds, "w") = {<<First, 1>>}
    BY DEF Init, Refs, Fds
  <2>2. Cardinality(Refs(open_fds, "r")) = 1 /\ Cardinality(Refs(open_fds, "w")) = 1
    BY <2>1, FS_Singleton
  <2>3. \A e \in Ends : refcount[e] = Cardinality(Refs(open_fds, e))
    BY <2>2 DEF Init, Ends
  <2> QED
    BY <2>3 DEF Init, RefcountsExact, Refs, Ends
<1>4. InOrder
  <2>1. After(0, 0) = 0
    BY AfterIs DEF Places
  <2> QED
    BY <2>1 DEF Init, InOrder
<1>5. NoLostWakeup
  BY DEF Init, NoLostWakeup
<1> QED
  BY <1>1, <1>2, <1>3, <1>4, <1>5 DEF IInv

\* Who holds an end keeps it open.
LEMMA HolderKeepsOpen ==
    ASSUME RefcountsExact, NEW p \in Proc, NEW e \in Ends, Holds(p, e)
    PROVE  /\ refcount[e] > 0
           /\ e = "r" => readers = 1
           /\ e = "w" => writers = 1
           /\ ~freed
<1>1. refcount[e] = Cardinality(Refs(open_fds, e))
  BY DEF RefcountsExact, Refs
<1>2. refcount[e] > 0
  BY <1>1, HeldCounts DEF Holds
<1> QED
  BY <1>2 DEF RefcountsExact, Ends

-----------------------------------------------------------------------------
(* The rounds of the loops                                                 *)

LEMMA WokenFacts ==
    ASSUME TypeOK, NEW C
    PROVE  /\ Woken(C) \in [Proc -> BOOLEAN]
           /\ \A q \in Proc : Woken(C)[q] => asleep[q] /\ pc[q] \notin C
BY DEF TypeOK, Woken

LEMMA ReturnFacts ==
    ASSUME TypeOK, NEW p \in Proc, NEW aw \in [Proc -> BOOLEAN], Return(p, aw)
    PROVE  /\ pc' \in [Proc -> {"none", "user", "ret", "read", "write", "poll"}]
           /\ asleep' \in [Proc -> BOOLEAN] /\ todo' \in [Proc -> Nat]
           /\ pc'[p] = "ret" /\ ~asleep'[p]
           /\ \A q \in Proc \ {p} : pc'[q] = pc[q] /\ todo'[q] = todo[q] /\ asleep'[q] = aw[q]
BY DEF TypeOK, Return

LEMMA BlockFacts ==
    ASSUME TypeOK, NEW p \in Proc, NEW aw \in [Proc -> BOOLEAN],
           NEW c \in {"read", "write", "poll"}, NEW n \in Nat, Block(p, c, n, aw)
    PROVE  /\ pc' \in [Proc -> {"none", "user", "ret", "read", "write", "poll"}]
           /\ asleep' \in [Proc -> BOOLEAN] /\ todo' \in [Proc -> Nat]
           /\ pc'[p] = c /\ todo'[p] = n
           /\ \A q \in Proc \ {p} : pc'[q] = pc[q] /\ todo'[q] = todo[q] /\ asleep'[q] = aw[q]
BY DEF TypeOK, Block

\* Processes other than p stay where they are, asleep or woken.
OthersKept(p) ==
    \A q \in Proc \ {p} :
        /\ pc'[q] = pc[q] /\ todo'[q] = todo[q]
        /\ asleep'[q] => asleep[q]

\* A step that moves p alone, and wakes others, leaves their calls in order.
LEMMA CallInvKept ==
    ASSUME CallInv, NEW p \in Proc, UNCHANGED open_fds,
           OthersKept(p),
           \/ pc'[p] = "ret" /\ ~asleep'[p]
           \/ pc'[p] = "read" /\ todo'[p] > 0 /\ Holds(p, "r")
           \/ pc'[p] = "write" /\ todo'[p] > 0 /\ Holds(p, "w")
           \/ pc'[p] = "poll" /\ todo'[p] = 0 /\ Holds(p, "r")
           \/ pc'[p] = "poll" /\ todo'[p] = 1 /\ Holds(p, "w")
    PROVE  CallInv'
<1> SUFFICES ASSUME NEW q \in Proc
             PROVE  /\ asleep'[q] => pc'[q] \in {"read", "write", "poll"}
                    /\ pc'[q] \in {"read", "write"} => todo'[q] > 0
                    /\ pc'[q] = "read" => Holds(q, "r")'
                    /\ pc'[q] = "write" => Holds(q, "w")'
                    /\ pc'[q] = "poll" => Holds(q, PollEnd(q))'
                    /\ pc'[q] = "none" => \A d \in Fds : open_fds'[q][d] = "none"
  BY DEF CallInv
<1>1. CASE q = p
  BY <1>1 DEF Holds, PollEnd
<1>2. CASE q # p
  BY <1>2 DEF CallInv, Holds, PollEnd, OthersKept
<1> QED
  BY <1>1, <1>2

\* The same for a step that changes descriptors of p.
LEMMA CallInvMoved ==
    ASSUME CallInv, NEW p \in Proc, OthersKept(p),
           \A q \in Proc \ {p} : open_fds'[q] = open_fds[q],
           ~asleep'[p],
           \/ pc'[p] = "ret"
           \/ pc'[p] = "none" /\ \A d \in Fds : open_fds'[p][d] = "none"
    PROVE  CallInv'
<1> SUFFICES ASSUME NEW q \in Proc
             PROVE  /\ asleep'[q] => pc'[q] \in {"read", "write", "poll"}
                    /\ pc'[q] \in {"read", "write"} => todo'[q] > 0
                    /\ pc'[q] = "read" => Holds(q, "r")'
                    /\ pc'[q] = "write" => Holds(q, "w")'
                    /\ pc'[q] = "poll" => Holds(q, PollEnd(q))'
                    /\ pc'[q] = "none" => \A d \in Fds : open_fds'[q][d] = "none"
  BY DEF CallInv
<1>1. CASE q = p
  BY <1>1
<1>2. CASE q # p
  BY <1>2 DEF CallInv, Holds, PollEnd, OthersKept
<1> QED
  BY <1>1, <1>2

LEMMA ReadRoundStep ==
    ASSUME IInv, NEW p \in Proc, NEW n \in Nat \ {0}, pc[p] # "none", Holds(p, "r"),
           ReadRound(p, n)
    PROVE  IInv'
<1> USE PipeAssumption
<1> DEFINE k == MinOf(n, used)
<1>0. used \in 0 .. Size /\ read_pos \in Places
  BY DEF IInv, TypeOK
<1>1. k \in Nat /\ k <= n /\ k <= used /\ (k = 0 => used = 0)
  BY <1>0, MinFacts DEF MinOf
<1>2. /\ UNCHANGED <<buffer, write_pos, readers, writers, freed, refcount, open_fds, signalled, put>>
      /\ \/ /\ k > 0 /\ read_pos' = After(read_pos, k) /\ used' = used - k
            /\ write_wait' = 0 /\ got' = got + k
            /\ Return(p, Woken({"write", "poll"}))
            /\ UNCHANGED <<read_wait, eof>>
         \/ /\ AtEnd /\ eof' = TRUE /\ Return(p, asleep)
            /\ UNCHANGED <<read_pos, used, read_wait, write_wait, got>>
         \/ /\ k = 0 /\ ~AtEnd
            /\ \/ signalled[p] /\ Return(p, asleep) /\ UNCHANGED read_wait
               \/ ~signalled[p] /\ Block(p, "read", n, asleep) /\ read_wait' = 1
            /\ UNCHANGED <<read_pos, used, write_wait, got, eof>>
  BY DEF ReadRound, fileVars
<1>3. k > 0 => After(read_pos, k) \in Places
  BY <1>0, <1>1, AfterPlace
<1> HIDE DEF k
<1>a. /\ pc' \in [Proc -> {"none", "user", "ret", "read", "write", "poll"}]
      /\ asleep' \in [Proc -> BOOLEAN] /\ todo' \in [Proc -> Nat]
      /\ OthersKept(p)
      /\ \/ pc'[p] = "ret" /\ ~asleep'[p]
         \/ pc'[p] = "read" /\ todo'[p] = n
  <2>1. CASE Return(p, Woken({"write", "poll"}))
    BY <2>1, WokenFacts, ReturnFacts DEF IInv, OthersKept
  <2>2. CASE Return(p, asleep)
    <3>1. asleep \in [Proc -> BOOLEAN]
      BY DEF IInv, TypeOK
    <3> QED
      BY <2>2, <3>1, ReturnFacts DEF IInv, OthersKept
  <2>3. CASE Block(p, "read", n, asleep)
    <3>1. asleep \in [Proc -> BOOLEAN]
      BY DEF IInv, TypeOK
    <3> QED
      BY <2>3, <3>1, BlockFacts DEF IInv, OthersKept
  <2> QED
    BY <1>2, <2>1, <2>2, <2>3
<1>4. TypeOK'
  <2>1. used' \in 0 .. Size /\ read_pos' \in Places /\ got' \in Nat /\ eof' \in BOOLEAN
        /\ read_wait' \in {0, 1} /\ write_wait' \in {0, 1}
    <3>1. /\ got \in Nat /\ eof \in BOOLEAN
          /\ read_wait \in {0, 1} /\ write_wait \in {0, 1}
      BY DEF IInv, TypeOK
    <3>2. CASE k > 0 /\ read_pos' = After(read_pos, k) /\ used' = used - k
               /\ write_wait' = 0 /\ got' = got + k /\ UNCHANGED <<read_wait, eof>>
      BY <1>0, <1>1, <1>3, <3>1, <3>2
    <3>3. CASE /\ UNCHANGED <<read_pos, used, write_wait, got>>
               /\ read_wait' \in {read_wait, 1} /\ eof' \in {eof, TRUE}
      BY <1>0, <3>1, <3>3
    <3> QED
      BY <1>2, <3>2, <3>3
  <2> QED
    BY <1>2, <1>a, <2>1 DEF IInv, TypeOK
<1>5. CallInv'
  <2>1. CallInv /\ UNCHANGED open_fds /\ n > 0
    BY <1>2 DEF IInv
  <2>2. CASE pc'[p] = "ret" /\ ~asleep'[p]
    BY <1>a, <2>1, <2>2, CallInvKept
  <2>3. CASE pc'[p] = "read" /\ todo'[p] = n
    BY <1>a, <2>1, <2>3, CallInvKept
  <2> QED
    BY <1>a, <2>2, <2>3
<1>6. RefcountsExact'
  BY <1>2 DEF IInv, RefcountsExact
<1>7. InOrder'
  <2>1. CASE UNCHANGED <<read_pos, used, got>>
    BY <1>2, <2>1 DEF IInv, InOrder, Contents
  <2>2. CASE k > 0 /\ read_pos' = After(read_pos, k) /\ used' = used - k /\ got' = got + k
    <3>1. put' = got' + used'
      BY <1>0, <1>1, <1>2, <2>2 DEF IInv, TypeOK, InOrder
    <3>2. write_pos' = After(read_pos', used')
      <4>1. k + (used - k) = used /\ used - k \in 0 .. Size /\ k \in 0 .. Size
        BY <1>0, <1>1
      <4>2. After(After(read_pos, k), used - k) = After(read_pos, used)
        BY <1>0, <4>1, AfterAfter
      <4> QED
        BY <1>2, <2>2, <4>2 DEF IInv, InOrder
    <3>3. ASSUME NEW i \in 1 .. used' PROVE Contents'[i] = got' + i
      <4>1. i \in 1 .. used - k /\ i + k \in 1 .. used /\ i - 1 \in 0 .. Size /\ k \in 0 .. Size
             /\ k + (i - 1) = (i + k) - 1 /\ k + (i - 1) <= Size
        BY <1>0, <1>1, <2>2
      <4>2. After(After(read_pos, k), i - 1) = After(read_pos, (i + k) - 1)
        BY <1>0, <4>1, AfterAfter
      <4>3. Contents'[i] = buffer[After(read_pos, (i + k) - 1)]
        BY <1>2, <2>2, <4>1, <4>2 DEF Contents
      <4>4. Contents[i + k] = buffer[After(read_pos, (i + k) - 1)]
        BY <4>1 DEF Contents
      <4>5. Contents[i + k] = got + (i + k)
        BY <4>1 DEF IInv, InOrder
      <4> QED
        BY <1>1, <2>2, <4>1, <4>3, <4>4, <4>5 DEF IInv, TypeOK
    <3> QED
      BY <3>1, <3>2, <3>3 DEF InOrder
  <2> QED
    BY <1>2, <2>1, <2>2
<1>8. NoLostWakeup'
  <2> SUFFICES ASSUME NEW q \in Proc, asleep'[q]
               PROVE  /\ ~signalled'[q]
                      /\ pc'[q] = "read" => used' = 0 /\ writers' > 0
                      /\ pc'[q] = "write" => used' = Size /\ readers' > 0
                      /\ pc'[q] = "poll" => ~Ready(PollEnd(q))'
    BY DEF NoLostWakeup, PollEnd
  <2>1. CASE q # p
    <3>1. asleep[q] /\ pc'[q] = pc[q] /\ todo'[q] = todo[q]
      BY <1>2, <2>1 DEF IInv, TypeOK, Return, Block, Woken
    <3>2. CASE k > 0 /\ Return(p, Woken({"write", "poll"})) /\ used' = used - k
      <4>1. pc[q] = "read"
        BY <2>1, <3>1, <3>2 DEF IInv, TypeOK, CallInv, Return, Woken
      <4>2. used = 0
        BY <3>1, <4>1 DEF IInv, NoLostWakeup
      <4> QED
        BY <1>1, <3>2, <4>2
    <3>3. CASE UNCHANGED used
      BY <1>2, <3>1, <3>3 DEF IInv, NoLostWakeup, Ready, PollEnd
    <3> QED
      BY <1>2, <3>2, <3>3
  <2>2. CASE q = p
    <3>1. k = 0 /\ ~AtEnd /\ ~signalled[p] /\ Block(p, "read", n, asleep) /\ UNCHANGED used
      BY <1>2, <2>2 DEF IInv, TypeOK, Return, Woken
    <3> QED
      BY <1>1, <1>2, <2>2, <3>1 DEF IInv, TypeOK, Block, AtEnd
  <2> QED
    BY <2>1, <2>2
<1> QED
  BY <1>4, <1>5, <1>6, <1>7, <1>8 DEF IInv

LEMMA WriteRoundStep ==
    ASSUME IInv, NEW p \in Proc, NEW n \in Nat \ {0}, pc[p] # "none", Holds(p, "w"),
           WriteRound(p, n)
    PROVE  IInv'
<1> USE PipeAssumption
<1> DEFINE k == MinOf(n, Size - used)
           aw == IF k > 0 THEN Woken({"read", "poll"}) ELSE asleep
<1>0. /\ used \in 0 .. Size /\ read_pos \in Places /\ write_pos \in Places
      /\ put \in Nat /\ got \in Nat /\ put = got + used
      /\ write_pos = After(read_pos, used)
      /\ buffer \in [Places -> Nat] /\ signalled \in [Proc -> BOOLEAN]
  BY DEF IInv, TypeOK, InOrder
<1>1. k \in Nat /\ k <= n /\ k <= Size - used /\ (k < n => k = Size - used)
      /\ (used = Size => k = 0)
  BY <1>0 DEF MinOf
<1>2. aw \in [Proc -> BOOLEAN] /\ \A q \in Proc : aw[q] => asleep[q]
  BY WokenFacts DEF IInv, TypeOK
<1>3. /\ UNCHANGED <<read_pos, readers, writers, freed, refcount, open_fds, got, eof>>
      /\ \/ /\ readers = 0 /\ signalled' = [signalled EXCEPT ![p] = TRUE]
            /\ Return(p, asleep)
            /\ UNCHANGED <<buffer, write_pos, used, read_wait, write_wait, put>>
         \/ /\ readers > 0 /\ UNCHANGED signalled
            /\ buffer' = CopiedIn(k) /\ write_pos' = After(write_pos, k)
            /\ used' = used + k /\ put' = put + k
            /\ read_wait' = IF k > 0 THEN 0 ELSE read_wait
            /\ write_wait' = IF k < n THEN 1 ELSE write_wait
            /\ IF k = n \/ signalled[p] THEN Return(p, aw) ELSE Block(p, "write", n - k, aw)
  BY DEF WriteRound, fileVars
<1>4. k \in 0 .. Size /\ After(write_pos, k) \in Places
  BY <1>0, <1>1, AfterPlace
<1> HIDE DEF k, aw
<1>5. /\ pc' \in [Proc -> {"none", "user", "ret", "read", "write", "poll"}]
      /\ asleep' \in [Proc -> BOOLEAN] /\ todo' \in [Proc -> Nat]
      /\ OthersKept(p)
      /\ \/ pc'[p] = "ret" /\ ~asleep'[p]
         \/ pc'[p] = "write" /\ todo'[p] > 0
  <2>0. asleep \in [Proc -> BOOLEAN]
    BY DEF IInv, TypeOK
  <2>1. CASE Return(p, aw)
    BY <2>1, <1>2, ReturnFacts DEF IInv, OthersKept
  <2>2. CASE Return(p, asleep)
    BY <2>2, <2>0, ReturnFacts DEF IInv, OthersKept
  <2>3. CASE Block(p, "write", n - k, aw) /\ k # n
    <3>1. n - k \in Nat /\ n - k > 0
      BY <1>1, <2>3
    <3> QED
      BY <2>3, <3>1, <1>2, BlockFacts DEF IInv, OthersKept
  <2> QED
    BY <1>3, <2>1, <2>2, <2>3
<1>6. ASSUME NEW i \in Places, readers > 0
      PROVE  /\ buffer'[i] \in Nat
             /\ (\A d \in 0 .. k - 1 : i # After(write_pos, d)) => buffer'[i] = buffer[i]
             /\ \A d \in 0 .. k - 1 : i = After(write_pos, d) => buffer'[i] = put + 1 + d
  <2>1. buffer'[i] = IF \E d \in 0 .. k - 1 : i = After(write_pos, d)
                     THEN put + 1 + (CHOOSE d \in 0 .. k - 1 : i = After(write_pos, d))
                     ELSE buffer[i]
    BY <1>3, <1>6 DEF CopiedIn
  <2>2. ASSUME NEW d \in 0 .. k - 1, i = After(write_pos, d)
        PROVE  buffer'[i] = put + 1 + d
    <3>1. \A c \in 0 .. k - 1 : i = After(write_pos, c) => c = d
      <4> SUFFICES ASSUME NEW c \in 0 .. k - 1, i = After(write_pos, c) PROVE c = d
        OBVIOUS
      <4>1. c \in 0 .. Size - 1 /\ d \in 0 .. Size - 1
        BY <1>1, <1>0
      <4> QED
        BY <4>1, <2>2, <1>0, AfterInjective
    <3>2. (CHOOSE c \in 0 .. k - 1 : i = After(write_pos, c)) = d
      BY <2>2, <3>1
    <3> QED
      BY <2>1, <2>2, <3>2
  <2>3. CASE \E d \in 0 .. k - 1 : i = After(write_pos, d)
    BY <1>0, <1>1, <2>2, <2>3
  <2>4. CASE ~\E d \in 0 .. k - 1 : i = After(write_pos, d)
    BY <1>0, <2>1, <2>4
  <2> QED
    BY <2>2, <2>3, <2>4
<1>7. TypeOK'
  <2>1. buffer' \in [Places -> Nat]
    <3>1. CASE readers > 0
      <4>1. buffer' = [i \in Places |-> buffer'[i]]
        BY <1>3, <3>1 DEF CopiedIn
      <4> QED
        BY <4>1, <3>1, <1>6
    <3>2. CASE UNCHANGED buffer
      BY <3>2, <1>0
    <3> QED
      BY <3>1, <3>2, <1>3
  <2>2. used' \in 0 .. Size /\ write_pos' \in Places /\ put' \in Nat
    BY <1>0, <1>1, <1>3, <1>4
  <2>3. read_wait' \in {0, 1} /\ write_wait' \in {0, 1}
    BY <1>3 DEF IInv, TypeOK
  <2>4. signalled' \in [Proc -> BOOLEAN]
    BY <1>0, <1>3
  <2> QED
    BY <1>3, <1>5, <2>1, <2>2, <2>3, <2>4 DEF IInv, TypeOK
<1>8. CallInv'
  <2>1. CallInv /\ UNCHANGED open_fds
    BY <1>3 DEF IInv
  <2> QED
    BY <1>5, <2>1, CallInvKept
<1>9. RefcountsExact'
  BY <1>3 DEF IInv, RefcountsExact
<1>10. InOrder'
  <2>1. CASE UNCHANGED <<buffer, write_pos, used, put>>
    BY <1>3, <2>1 DEF IInv, InOrder, Contents
  <2>2. CASE readers > 0
    <3>1. put' = got' + used'
      BY <1>0, <1>1, <1>3, <2>2
    <3>2. write_pos' = After(read_pos', used')
      <4>1. After(After(read_pos, used), k) = After(read_pos, used + k)
        BY <1>0, <1>1, <1>4, AfterAfter
      <4> QED
        BY <1>0, <1>3, <2>2, <4>1
    <3>3. ASSUME NEW i \in 1 .. used' PROVE Contents'[i] = got' + i
      <4>1. i - 1 \in 0 .. Size - 1 /\ i - 1 \in 0 .. Size /\ i \in 1 .. used + k
        BY <1>0, <1>1, <1>3, <2>2
      <4>2. After(read_pos, i - 1) \in Places
        BY <1>0, <4>1, AfterPlace
      <4>3. Contents'[i] = buffer'[After(read_pos, i - 1)]
        BY <1>3 DEF Contents
      <4>4. CASE i <= used
        <5>1. ASSUME NEW d \in 0 .. k - 1 PROVE After(read_pos, i - 1) # After(write_pos, d)
          <6>1. used + d \in 0 .. Size - 1 /\ d \in 0 .. Size /\ used + d <= Size
            BY <1>0, <1>1
          <6>2. After(write_pos, d) = After(read_pos, used + d)
            BY <1>0, <6>1, AfterAfter
          <6>3. i - 1 # used + d
            BY <1>0, <4>4
          <6> QED
            BY <1>0, <4>1, <6>1, <6>2, <6>3, AfterInjective
        <5>2. buffer'[After(read_pos, i - 1)] = buffer[After(read_pos, i - 1)]
          BY <1>6, <2>2, <4>2, <5>1
        <5>3. i \in 1 .. used
          BY <1>0, <4>1, <4>4
        <5>4. Contents[i] = buffer[After(read_pos, i - 1)] /\ Contents[i] = got + i
          BY <5>3 DEF Contents, IInv, InOrder
        <5> QED
          BY <1>3, <4>3, <5>2, <5>4
      <4>5. CASE i > used
        <5>1. i - 1 - used \in 0 .. k - 1 /\ i - 1 - used \in 0 .. Size
              /\ used + (i - 1 - used) = i - 1 /\ used + (i - 1 - used) <= Size
          BY <1>0, <1>1, <4>1, <4>5
        <5>2. After(read_pos, i - 1) = After(write_pos, i - 1 - used)
          BY <1>0, <5>1, AfterAfter
        <5>3. buffer'[After(read_pos, i - 1)] = put + 1 + (i - 1 - used)
          BY <1>6, <2>2, <4>2, <5>1, <5>2
        <5> QED
          BY <1>0, <1>3, <4>1, <4>3, <5>3
      <4> QED
        BY <1>0, <4>1, <4>4, <4>5
    <3> QED
      BY <3>1, <3>2, <3>3 DEF InOrder
  <2> QED
    BY <1>3, <2>1, <2>2
<1>11. NoLostWakeup'
  <2> SUFFICES ASSUME NEW q \in Proc, asleep'[q]
               PROVE  /\ ~signalled'[q]
                      /\ pc'[q] = "read" => used' = 0 /\ writers' > 0
                      /\ pc'[q] = "write" => used' = Size /\ readers' > 0
                      /\ pc'[q] = "poll" => ~Ready(PollEnd(q))'
    BY DEF NoLostWakeup, PollEnd
  <2>1. CASE q # p
    <3>1. /\ asleep[q] /\ pc'[q] = pc[q] /\ todo'[q] = todo[q]
          /\ signalled'[q] = signalled[q]
      BY <1>0, <1>3, <1>5, <2>1 DEF OthersKept
    <3>2. /\ ~signalled[q]
          /\ pc[q] = "read" => used = 0 /\ writers > 0
          /\ pc[q] = "write" => used = Size /\ readers > 0
          /\ pc[q] = "poll" => ~Ready(PollEnd(q))
      BY <3>1 DEF IInv, NoLostWakeup, PollEnd
    <3>3. CASE k > 0 /\ used' = used + k
      <4>1. asleep'[q] => aw[q]
        <5>1. CASE Return(p, aw)
          BY <1>2, <2>1, <5>1, ReturnFacts DEF IInv
        <5>2. CASE Block(p, "write", n - k, aw)
          BY <2>1, <5>2 DEF Block
        <5>3. CASE readers = 0 /\ UNCHANGED used
          BY <1>0, <1>1, <3>3, <5>3
        <5> QED
          BY <1>3, <5>1, <5>2, <5>3
      <4>2. pc[q] \notin {"read", "poll"}
        BY <3>3, <4>1, WokenFacts DEF aw, IInv
      <4>3. pc[q] = "write"
        BY <3>1, <4>2 DEF IInv, CallInv
      <4> QED
        BY <1>1, <3>2, <3>3, <4>3
    <3>4. CASE UNCHANGED used
      BY <1>3, <3>1, <3>2, <3>4 DEF Ready, PollEnd
    <3> QED
      BY <1>0, <1>1, <1>3, <3>3, <3>4
  <2>2. CASE q = p
    <3>1. pc'[p] = "write"
      BY <1>5, <2>2
    <3>2. readers > 0 /\ ~signalled[p] /\ k # n
      <4>1. CASE Return(p, aw)
        BY <1>2, <3>1, <4>1, ReturnFacts DEF IInv
      <4>2. CASE Return(p, asleep)
        BY <3>1, <4>2 DEF Return, IInv, TypeOK
      <4> QED
        BY <1>3, <4>1, <4>2
    <3> QED
      BY <1>0, <1>1, <1>3, <2>2, <3>1, <3>2
  <2> QED
    BY <2>1, <2>2
<1> QED
  BY <1>7, <1>8, <1>9, <1>10, <1>11 DEF IInv

LEMMA PollRoundStep ==
    ASSUME IInv, NEW p \in Proc, NEW e \in Ends, pc[p] # "none", Holds(p, e),
           PollRound(p, e)
    PROVE  IInv'
<1>1. /\ UNCHANGED <<buffer, read_pos, write_pos, used, readers, writers, read_wait,
                     write_wait, freed, refcount, open_fds, signalled, put, got, eof>>
      /\ \/ Return(p, asleep)
         \/ /\ ~Ready(e) /\ ~signalled[p]
            /\ Block(p, "poll", IF e = "r" THEN 0 ELSE 1, asleep)
  BY DEF PollRound, pipeVars, fileVars
<1>2. asleep \in [Proc -> BOOLEAN]
  BY DEF IInv, TypeOK
<1>3. /\ pc' \in [Proc -> {"none", "user", "ret", "read", "write", "poll"}]
      /\ asleep' \in [Proc -> BOOLEAN] /\ todo' \in [Proc -> Nat]
      /\ OthersKept(p)
      /\ \/ pc'[p] = "ret" /\ ~asleep'[p]
         \/ /\ pc'[p] = "poll" /\ todo'[p] = (IF e = "r" THEN 0 ELSE 1)
            /\ ~Ready(e) /\ ~signalled[p]
  <2>1. CASE Return(p, asleep)
    BY <1>2, <2>1, ReturnFacts DEF IInv, OthersKept
  <2>2. CASE /\ Block(p, "poll", IF e = "r" THEN 0 ELSE 1, asleep)
             /\ ~Ready(e) /\ ~signalled[p]
    BY <1>2, <2>2, BlockFacts DEF IInv, OthersKept
  <2> QED
    BY <1>1, <2>1, <2>2
<1>4. TypeOK' /\ RefcountsExact' /\ InOrder'
  BY <1>1, <1>3 DEF IInv, TypeOK, RefcountsExact, InOrder, Contents
<1>5. CallInv'
  <2>1. CallInv /\ UNCHANGED open_fds
    BY <1>1 DEF IInv
  <2> QED
    BY <1>3, <2>1, CallInvKept DEF Ends
<1>6. NoLostWakeup'
  <2> SUFFICES ASSUME NEW q \in Proc, asleep'[q]
               PROVE  /\ ~signalled'[q]
                      /\ pc'[q] = "read" => used' = 0 /\ writers' > 0
                      /\ pc'[q] = "write" => used' = Size /\ readers' > 0
                      /\ pc'[q] = "poll" => ~Ready(PollEnd(q))'
    BY DEF NoLostWakeup, PollEnd
  <2>1. CASE q # p
    BY <1>1, <1>3, <2>1 DEF OthersKept, IInv, NoLostWakeup, Ready, PollEnd
  <2>2. CASE q = p
    BY <1>1, <1>3, <2>2 DEF Ready, PollEnd, Ends
  <2> QED
    BY <2>1, <2>2
<1> QED
  BY <1>4, <1>5, <1>6 DEF IInv

-----------------------------------------------------------------------------
(* Descriptors                                                             *)

LEMMA CloseFacts ==
    ASSUME IInv, NEW count \in [Ends -> Nat],
           \A e \in Ends : count[e] <= refcount[e],
           CloseEnds(count)
    PROVE  /\ UNCHANGED <<buffer, read_pos, write_pos, used>>
           /\ readers' = (IF count["r"] > 0 THEN 1 ELSE 0)
           /\ writers' = (IF count["w"] > 0 THEN 1 ELSE 0)
           /\ freed' \in BOOLEAN
           /\ freed' <=> (readers' = 0 /\ writers' = 0)
           /\ read_wait' \in {0, 1} /\ write_wait' \in {0, 1}
           /\ asleep' \in [Proc -> BOOLEAN]
           /\ \A q \in Proc : asleep'[q] =>
                  /\ asleep[q]
                  /\ pc[q] \in {"write", "poll"} => readers' = readers
                  /\ pc[q] \in {"read", "poll"} => writers' = writers
<1> DEFINE shutR == refcount["r"] > 0 /\ count["r"] = 0
           shutW == refcount["w"] > 0 /\ count["w"] = 0
<1>1. /\ refcount["r"] \in Nat /\ refcount["w"] \in Nat
      /\ count["r"] \in Nat /\ count["w"] \in Nat
      /\ count["r"] <= refcount["r"] /\ count["w"] <= refcount["w"]
  BY DEF IInv, TypeOK, Ends
<1>2. /\ readers = (IF refcount["r"] > 0 THEN 1 ELSE 0)
      /\ writers = (IF refcount["w"] > 0 THEN 1 ELSE 0)
      /\ freed <=> (readers = 0 /\ writers = 0)
      /\ freed \in BOOLEAN /\ read_wait \in {0, 1} /\ write_wait \in {0, 1}
  BY DEF IInv, TypeOK, RefcountsExact
<1>3. /\ UNCHANGED <<buffer, read_pos, write_pos, used>>
      /\ readers' = IF shutR THEN readers - 1 ELSE readers
      /\ writers' = IF shutW THEN writers - 1 ELSE writers
      /\ read_wait' = IF shutW THEN 0 ELSE read_wait
      /\ write_wait' = IF shutR THEN 0 ELSE write_wait
      /\ freed' = (freed \/ ((shutR \/ shutW) /\ count["r"] = 0 /\ count["w"] = 0))
      /\ asleep' = Woken(ClosingWakes(shutR, shutW))
  BY DEF CloseEnds
<1>4. /\ readers' = (IF count["r"] > 0 THEN 1 ELSE 0)
      /\ writers' = (IF count["w"] > 0 THEN 1 ELSE 0)
      /\ shutR <=> readers' # readers
      /\ shutW <=> writers' # writers
  BY <1>1, <1>2, <1>3
<1>5. freed' \in BOOLEAN /\ (freed' <=> (readers' = 0 /\ writers' = 0))
  <2>1. freed' <=> (freed \/ ((shutR \/ shutW) /\ count["r"] = 0 /\ count["w"] = 0))
    BY <1>3
  <2>2. freed' \in BOOLEAN
    BY <1>3, Zenon
  <2>3. freed <=> (refcount["r"] = 0 /\ refcount["w"] = 0)
    BY <1>1, <1>2
  <2>4. freed' <=> (count["r"] = 0 /\ count["w"] = 0)
    BY <1>1, <2>1, <2>3
  <2> QED
    BY <1>1, <1>4, <2>2, <2>4
<1> HIDE DEF shutR, shutW
<1>6. /\ asleep' \in [Proc -> BOOLEAN]
      /\ \A q \in Proc : asleep'[q] => asleep[q] /\ pc[q] \notin ClosingWakes(shutR, shutW)
  BY <1>3, WokenFacts DEF IInv
<1>7. \A q \in Proc : asleep'[q] =>
          /\ pc[q] \in {"write", "poll"} => ~shutR
          /\ pc[q] \in {"read", "poll"} => ~shutW
  BY <1>6 DEF ClosingWakes
<1> QED
  BY <1>2, <1>3, <1>4, <1>5, <1>6, <1>7

\* A step that gives up descriptors and leaves every sleeper in its call.
LEMMA CloseKeeps ==
    ASSUME IInv, NEW count \in [Ends -> Nat],
           \A e \in Ends : count[e] <= refcount[e],
           CloseEnds(count),
           refcount' \in [Ends -> Nat],
           \A e \in Ends : /\ refcount'[e] = Cardinality(Refs(open_fds', e))
                           /\ refcount'[e] > 0 <=> count[e] > 0,
           open_fds' \in [Proc -> [Fds -> Ends \cup {"none"}]],
           pc' \in [Proc -> {"none", "user", "ret", "read", "write", "poll"}],
           todo' \in [Proc -> Nat], signalled' \in [Proc -> BOOLEAN],
           UNCHANGED <<put, got, eof>>,
           \A q \in Proc : asleep[q] =>
               pc'[q] = pc[q] /\ todo'[q] = todo[q] /\ signalled'[q] = signalled[q],
           CallInv'
    PROVE  IInv'
<1>1. /\ UNCHANGED <<buffer, read_pos, write_pos, used>>
      /\ readers' = (IF count["r"] > 0 THEN 1 ELSE 0)
      /\ writers' = (IF count["w"] > 0 THEN 1 ELSE 0)
      /\ freed' \in BOOLEAN
      /\ freed' <=> (readers' = 0 /\ writers' = 0)
      /\ read_wait' \in {0, 1} /\ write_wait' \in {0, 1}
      /\ asleep' \in [Proc -> BOOLEAN]
      /\ \A q \in Proc : asleep'[q] =>
             /\ asleep[q]
             /\ pc[q] \in {"write", "poll"} => readers' = readers
             /\ pc[q] \in {"read", "poll"} => writers' = writers
  BY CloseFacts
<1>2. TypeOK'
  BY <1>1 DEF IInv, TypeOK
<1>3. RefcountsExact'
  BY <1>1 DEF RefcountsExact, Refs, Ends
<1>4. InOrder'
  BY <1>1 DEF IInv, InOrder, Contents
<1>5. NoLostWakeup'
  <2> SUFFICES ASSUME NEW q \in Proc, asleep'[q]
               PROVE  /\ ~signalled'[q]
                      /\ pc'[q] = "read" => used' = 0 /\ writers' > 0
                      /\ pc'[q] = "write" => used' = Size /\ readers' > 0
                      /\ pc'[q] = "poll" => ~Ready(PollEnd(q))'
    BY DEF NoLostWakeup, PollEnd
  <2>1. asleep[q] /\ pc'[q] = pc[q] /\ todo'[q] = todo[q] /\ signalled'[q] = signalled[q]
    BY <1>1
  <2>2. /\ ~signalled[q]
        /\ pc[q] = "read" => used = 0 /\ writers > 0
        /\ pc[q] = "write" => used = Size /\ readers > 0
        /\ pc[q] = "poll" => ~Ready(PollEnd(q))
    BY <2>1 DEF IInv, NoLostWakeup, PollEnd
  <2>3. pc[q] \in {"write", "poll"} => readers' = readers
    BY <1>1
  <2>4. pc[q] \in {"read", "poll"} => writers' = writers
    BY <1>1
  <2>5. pc[q] = "poll" => ~Ready(PollEnd(q))'
    BY <1>1, <2>1, <2>2, <2>3, <2>4 DEF Ready, PollEnd
  <2> QED
    BY <1>1, <2>1, <2>2, <2>3, <2>4, <2>5
<1> QED
  BY <1>2, <1>3, <1>4, <1>5 DEF IInv

\* What is left of the counts when p gives up the descriptors D.
LEMMA ReleasedType ==
    ASSUME IInv, NEW p \in Proc, NEW D \in SUBSET Fds
    PROVE  /\ Released(p, D) \in [Ends -> Nat]
           /\ \A e \in Ends : Released(p, D)[e] <= refcount[e]
<1> DEFINE fds == [q \in Proc |-> [d \in Fds |->
                      IF q = p /\ d \in D THEN "none" ELSE open_fds[q][d]]]
<1>1. \A q \in Proc, d \in Fds :
          fds[q][d] = IF q = p /\ d \in D THEN "none" ELSE open_fds[q][d]
  OBVIOUS
<1> HIDE DEF fds
<1>2. ASSUME NEW e \in Ends
      PROVE  /\ Released(p, D)[e] = Cardinality(Refs(fds, e))
             /\ Released(p, D)[e] <= refcount[e]
  BY <1>1, ReleasedCounts DEF IInv
<1>3. \A e \in Ends : Released(p, D)[e] \in Nat
  BY <1>2, RefsFinite
<1>4. Released(p, D) = [e \in Ends |-> Released(p, D)[e]]
  BY DEF Released
<1> QED
  BY <1>2, <1>3, <1>4

LEMMA CloseStep ==
    ASSUME IInv, NEW p \in Proc, NEW d \in Fds, Close(p, d)
    PROVE  IInv'
<1> DEFINE count == Released(p, {d})
<1>1. {d} \in SUBSET Fds
  OBVIOUS
<1>2. /\ pc[p] = "user"
      /\ refcount' = count /\ CloseEnds(count)
      /\ open_fds' = [open_fds EXCEPT ![p][d] = "none"]
      /\ pc' = [pc EXCEPT ![p] = "ret"]
      /\ UNCHANGED <<todo, signalled, put, got, eof>>
  BY DEF Close
<1>3. count \in [Ends -> Nat] /\ \A e \in Ends : count[e] <= refcount[e]
  BY <1>1, ReleasedType
<1>4. \A q \in Proc, c \in Fds :
          open_fds'[q][c] = IF q = p /\ c \in {d} THEN "none" ELSE open_fds[q][c]
  BY <1>2 DEF IInv, TypeOK
<1>5. \A e \in Ends : count[e] = Cardinality(Refs(open_fds', e))
  BY <1>1, <1>4, ReleasedCounts DEF IInv
<1> HIDE DEF count
<1>6. /\ open_fds' \in [Proc -> [Fds -> Ends \cup {"none"}]]
      /\ pc' \in [Proc -> {"none", "user", "ret", "read", "write", "poll"}]
      /\ todo' \in [Proc -> Nat] /\ signalled' \in [Proc -> BOOLEAN]
  BY <1>2 DEF IInv, TypeOK
<1>7. ~asleep[p] /\ \A q \in Proc : asleep[q] => pc'[q] = pc[q]
  BY <1>2 DEF IInv, TypeOK, CallInv
<1>8. \A q \in Proc : asleep'[q] => asleep[q]
  BY <1>2, <1>3, CloseFacts
<1>9. CallInv'
  <2>1. OthersKept(p) /\ pc'[p] = "ret" /\ \A q \in Proc \ {p} : open_fds'[q] = open_fds[q]
    BY <1>2, <1>8 DEF IInv, TypeOK, OthersKept
  <2> QED
    BY <1>7, <1>8, <2>1, CallInvMoved DEF IInv
<1> QED
  BY <1>2, <1>3, <1>5, <1>6, <1>7, <1>9, CloseKeeps

\* dup2 gives up the descriptor it replaces before it counts the new one;
\* the old one keeps its entry's count above zero in between.
LEMMA Dup2Step ==
    ASSUME IInv, NEW p \in Proc, NEW old \in Fds, NEW new \in Fds, Dup2(p, old, new)
    PROVE  IInv'
<1> DEFINE count == Released(p, {new})
           end == open_fds[p][old]
           fds == [open_fds EXCEPT ![p][new] = "none"]
<1>1. {new} \in SUBSET Fds
  OBVIOUS
<1>2. /\ pc[p] = "user" /\ end # "none" /\ old # new
      /\ CloseEnds(count)
      /\ refcount' = [count EXCEPT ![end] = @ + 1]
      /\ open_fds' = [open_fds EXCEPT ![p][new] = end]
      /\ pc' = [pc EXCEPT ![p] = "ret"]
      /\ UNCHANGED <<todo, signalled, put, got, eof>>
  BY DEF Dup2
<1>3. count \in [Ends -> Nat] /\ \A e \in Ends : count[e] <= refcount[e]
  BY <1>1, ReleasedType
<1>4. end \in Ends
  BY <1>2 DEF IInv, TypeOK
<1>5. \A q \in Proc, c \in Fds :
          fds[q][c] = IF q = p /\ c \in {new} THEN "none" ELSE open_fds[q][c]
  BY DEF IInv, TypeOK
<1>6. \A q \in Proc, c \in Fds :
          open_fds'[q][c] = IF q = p /\ c = new THEN end ELSE open_fds[q][c]
  BY <1>2 DEF IInv, TypeOK
<1>7. /\ open_fds' \in [Proc -> [Fds -> Ends \cup {"none"}]]
      /\ pc' \in [Proc -> {"none", "user", "ret", "read", "write", "poll"}]
      /\ todo' \in [Proc -> Nat] /\ signalled' \in [Proc -> BOOLEAN]
  <2> HIDE DEF end
  <2> QED
    BY <1>2, <1>4 DEF IInv, TypeOK
<1>8. fds[p][old] = end
  BY <1>2, <1>5
<1> HIDE DEF fds, end
<1>9. \A e \in Ends : count[e] = Cardinality(Refs(fds, e))
  BY <1>1, <1>5, ReleasedCounts DEF IInv
<1> HIDE DEF count
<1>10. count[end] > 0
  BY <1>4, <1>8, <1>9, HeldCounts
<1>11. ASSUME NEW e \in Ends
       PROVE  refcount'[e] = Cardinality(Refs(open_fds', e))
  <2>1. CASE e = end
    <3>1. Refs(open_fds', e) = Refs(fds, e) \cup {<<p, new>>}
      BY <1>4, <1>5, <1>6, <2>1 DEF Refs, Ends
    <3>2. <<p, new>> \notin Refs(fds, e)
      BY <1>5 DEF Refs, Ends
    <3>3. Cardinality(Refs(open_fds', e)) = Cardinality(Refs(fds, e)) + 1
      BY <3>1, <3>2, RefsFinite, FS_AddElement
    <3> QED
      BY <1>2, <1>3, <1>9, <2>1, <3>3
  <2>2. CASE e # end
    <3>1. Refs(open_fds', e) = Refs(fds, e)
      BY <1>4, <1>5, <1>6, <2>2 DEF Refs, Ends
    <3> QED
      BY <1>2, <1>3, <1>9, <2>2, <3>1
  <2> QED
    BY <2>1, <2>2
<1>12. refcount' \in [Ends -> Nat] /\ \A e \in Ends : refcount'[e] > 0 <=> count[e] > 0
  BY <1>2, <1>3, <1>4, <1>10
<1>13. ~asleep[p] /\ \A q \in Proc : asleep[q] => pc'[q] = pc[q]
  BY <1>2 DEF IInv, TypeOK, CallInv
<1>14. \A q \in Proc : asleep'[q] => asleep[q]
  BY <1>2, <1>3, CloseFacts
<1>15. CallInv'
  <2>1. OthersKept(p) /\ pc'[p] = "ret" /\ \A q \in Proc \ {p} : open_fds'[q] = open_fds[q]
    BY <1>2, <1>14 DEF IInv, TypeOK, OthersKept
  <2> QED
    BY <1>13, <1>14, <2>1, CallInvMoved DEF IInv
<1> QED
  BY <1>2, <1>3, <1>7, <1>11, <1>12, <1>13, <1>15, CloseKeeps

LEMMA EndStep ==
    ASSUME IInv, NEW p \in Proc, pc[p] \in {"user", "ret"}, End(p)
    PROVE  IInv'
<1> DEFINE count == Released(p, Fds)
<1>1. Fds \in SUBSET Fds
  OBVIOUS
<1>2. /\ refcount' = count /\ CloseEnds(count)
      /\ open_fds' = [open_fds EXCEPT ![p] = [d \in Fds |-> "none"]]
      /\ pc' = [pc EXCEPT ![p] = "none"]
      /\ todo' = [todo EXCEPT ![p] = 0]
      /\ signalled' = [signalled EXCEPT ![p] = FALSE]
      /\ UNCHANGED <<put, got, eof>>
  BY DEF End
<1>3. count \in [Ends -> Nat] /\ \A e \in Ends : count[e] <= refcount[e]
  BY <1>1, ReleasedType
<1>4. \A q \in Proc, c \in Fds :
          open_fds'[q][c] = IF q = p /\ c \in Fds THEN "none" ELSE open_fds[q][c]
  BY <1>2 DEF IInv, TypeOK
<1>5. \A e \in Ends : count[e] = Cardinality(Refs(open_fds', e))
  BY <1>1, <1>4, ReleasedCounts DEF IInv
<1> HIDE DEF count
<1>6. /\ open_fds' \in [Proc -> [Fds -> Ends \cup {"none"}]]
      /\ pc' \in [Proc -> {"none", "user", "ret", "read", "write", "poll"}]
      /\ todo' \in [Proc -> Nat] /\ signalled' \in [Proc -> BOOLEAN]
  BY <1>2 DEF IInv, TypeOK
<1>7. ~asleep[p]
  BY DEF IInv, CallInv
<1>8. \A q \in Proc : asleep[q] =>
          pc'[q] = pc[q] /\ todo'[q] = todo[q] /\ signalled'[q] = signalled[q]
  BY <1>2, <1>7 DEF IInv, TypeOK
<1>9. \A q \in Proc : asleep'[q] => asleep[q]
  BY <1>2, <1>3, CloseFacts
<1>10. CallInv'
  <2>1. OthersKept(p) /\ \A q \in Proc \ {p} : open_fds'[q] = open_fds[q]
    BY <1>2, <1>9 DEF IInv, TypeOK, OthersKept
  <2>2. pc'[p] = "none" /\ \A d \in Fds : open_fds'[p][d] = "none"
    BY <1>2, <1>4 DEF IInv, TypeOK
  <2> QED
    BY <1>7, <1>9, <2>1, <2>2, CallInvMoved DEF IInv
<1> QED
  BY <1>2, <1>3, <1>5, <1>6, <1>8, <1>10, CloseKeeps

LEMMA ForkStep ==
    ASSUME IInv, NEW p \in Proc, NEW q \in Proc, Fork(p, q)
    PROVE  IInv'
<1>1. /\ pc[p] = "user" /\ pc[q] = "none"
      /\ open_fds' = [open_fds EXCEPT ![q] = open_fds[p]]
      /\ refcount' = Cloned(p)
      /\ pc' = [pc EXCEPT ![q] = "user"]
      /\ UNCHANGED <<buffer, read_pos, write_pos, used, readers, writers, read_wait,
                     write_wait, freed, asleep, todo, signalled, put, got, eof>>
  BY DEF Fork, pipeVars
<1>2. \A d \in Fds : open_fds[q][d] = "none"
  BY <1>1 DEF IInv, CallInv
<1>3. \A e \in Ends : refcount'[e] = Cardinality(Refs(open_fds', e))
  BY <1>1, <1>2, ClonedCounts DEF IInv
<1>4. ~asleep[q]
  BY <1>1 DEF IInv, CallInv
<1>5. \A e \in Ends : refcount'[e] \in Nat /\ (refcount'[e] > 0 <=> refcount[e] > 0)
  <2> SUFFICES ASSUME NEW e \in Ends
               PROVE  refcount'[e] \in Nat /\ (refcount'[e] > 0 <=> refcount[e] > 0)
    OBVIOUS
  <2> DEFINE O == {d \in Fds : open_fds[p][d] = e}
  <2>1. O \in SUBSET Fds
    OBVIOUS
  <2>2. Cardinality(O) \in Nat
    BY <2>1, OwnRefs
  <2>3. refcount'[e] = refcount[e] + Cardinality(O)
    BY <1>1 DEF Cloned
  <2>4. refcount[e] = Cardinality(Refs(open_fds, e)) /\ refcount[e] \in Nat
    BY DEF IInv, TypeOK, RefcountsExact, Refs
  <2>5. Cardinality(O) > 0 => refcount[e] > 0
    <3>1. CASE \E d \in Fds : open_fds[p][d] = e
      BY <2>4, <3>1, HeldCounts
    <3>2. CASE O = {}
      BY <3>2, FS_EmptySet
    <3> QED
      BY <3>1, <3>2
  <2> HIDE DEF O
  <2> QED
    BY <2>2, <2>3, <2>4, <2>5
<1>6. RefcountsExact'
  <2>1. RefcountsExact
    BY DEF IInv
  <2>2. /\ refcount'["r"] > 0 <=> refcount["r"] > 0
        /\ refcount'["w"] > 0 <=> refcount["w"] > 0
    BY <1>5 DEF Ends
  <2> QED
    BY <1>1, <1>3, <2>1, <2>2 DEF RefcountsExact, Refs
<1>7. TypeOK'
  <2>1. refcount' \in [Ends -> Nat]
    <3>1. refcount' = [e \in Ends |-> refcount'[e]]
      BY <1>1 DEF Cloned
    <3> QED
      BY <1>5, <3>1
  <2> QED
    BY <1>1, <2>1 DEF IInv, TypeOK
<1>8. CallInv'
  <2> SUFFICES ASSUME NEW x \in Proc
               PROVE  /\ asleep'[x] => pc'[x] \in {"read", "write", "poll"}
                      /\ pc'[x] \in {"read", "write"} => todo'[x] > 0
                      /\ pc'[x] = "read" => Holds(x, "r")'
                      /\ pc'[x] = "write" => Holds(x, "w")'
                      /\ pc'[x] = "poll" => Holds(x, PollEnd(x))'
                      /\ pc'[x] = "none" => \A d \in Fds : open_fds'[x][d] = "none"
    BY DEF CallInv
  <2>1. CASE x = q
    BY <1>1, <1>4, <2>1 DEF IInv, TypeOK
  <2>2. CASE x # q
    <3>1. pc'[x] = pc[x] /\ todo'[x] = todo[x] /\ open_fds'[x] = open_fds[x]
          /\ asleep'[x] = asleep[x]
      BY <1>1, <2>2 DEF IInv, TypeOK
    <3> QED
      BY <3>1 DEF IInv, CallInv, Holds, PollEnd
  <2> QED
    BY <2>1, <2>2
<1>9. InOrder'
  BY <1>1 DEF IInv, InOrder, Contents
<1>10. NoLostWakeup'
  <2>1. \A x \in Proc : asleep[x] => pc'[x] = pc[x]
    BY <1>1, <1>4 DEF IInv, TypeOK
  <2> QED
    BY <1>1, <2>1 DEF IInv, NoLostWakeup, Ready
<1> QED
  BY <1>6, <1>7, <1>8, <1>9, <1>10 DEF IInv

LEMMA SignalStep ==
    ASSUME IInv, NEW p \in Proc, Signal(p)
    PROVE  IInv'
<1>1. /\ pc[p] # "none"
      /\ signalled' = [signalled EXCEPT ![p] = TRUE]
      /\ asleep' = [asleep EXCEPT ![p] = FALSE]
      /\ UNCHANGED <<buffer, read_pos, write_pos, used, readers, writers, read_wait,
                     write_wait, freed, refcount, open_fds, pc, todo, put, got, eof>>
  BY DEF Signal, pipeVars, fileVars
<1>2. TypeOK'
  BY <1>1 DEF IInv, TypeOK
<1>3. \A q \in Proc : asleep'[q] => q # p /\ asleep[q] /\ signalled'[q] = signalled[q]
  BY <1>1 DEF IInv, TypeOK
<1>4. CallInv'
  BY <1>1, <1>3 DEF IInv, CallInv, Holds, PollEnd
<1>5. RefcountsExact' /\ InOrder'
  BY <1>1 DEF IInv, RefcountsExact, InOrder, Contents
<1>6. NoLostWakeup'
  BY <1>1, <1>3 DEF IInv, NoLostWakeup, Ready
<1> QED
  BY <1>2, <1>4, <1>5, <1>6 DEF IInv

LEMMA DeliverStep ==
    ASSUME IInv, NEW p \in Proc, Deliver(p)
    PROVE  IInv'
<1>1. pc[p] = "ret"
  BY DEF Deliver
<1>2. CASE End(p)
  BY <1>1, <1>2, EndStep
<1>3. CASE /\ pc' = [pc EXCEPT ![p] = "user"]
           /\ signalled' = [signalled EXCEPT ![p] = FALSE]
           /\ UNCHANGED <<pipeVars, fileVars, asleep, todo, put, got, eof>>
  <2>1. UNCHANGED <<buffer, read_pos, write_pos, used, readers, writers, read_wait, write_wait,
                    freed, refcount, open_fds, asleep, todo, put, got, eof>>
    BY <1>3 DEF pipeVars, fileVars
  <2>2. TypeOK'
    BY <1>3, <2>1 DEF IInv, TypeOK
  <2>3. ~asleep[p]
    BY <1>1 DEF IInv, CallInv
  <2>4. pc'[p] = "user" /\ \A q \in Proc \ {p} : pc'[q] = pc[q] /\ signalled'[q] = signalled[q]
    BY <1>3 DEF IInv, TypeOK
  <2>5. CallInv'
    BY <2>1, <2>3, <2>4 DEF IInv, CallInv, Holds, PollEnd
  <2>6. RefcountsExact' /\ InOrder'
    BY <2>1 DEF IInv, RefcountsExact, InOrder, Contents
  <2>7. NoLostWakeup'
    BY <2>1, <2>3, <2>4 DEF IInv, NoLostWakeup, Ready
  <2> QED
    BY <2>2, <2>5, <2>6, <2>7 DEF IInv
<1> QED
  BY <1>2, <1>3 DEF Deliver

LEMMA ResumeStep ==
    ASSUME IInv, NEW p \in Proc, Resume(p)
    PROVE  IInv'
<1>1. todo[p] \in Nat
  BY DEF IInv, TypeOK
<1>2. CASE pc[p] = "read" /\ ReadRound(p, todo[p])
  <2>1. todo[p] \in Nat \ {0} /\ Holds(p, "r")
    BY <1>1, <1>2 DEF IInv, CallInv
  <2> QED
    BY <1>2, <2>1, ReadRoundStep
<1>3. CASE pc[p] = "write" /\ WriteRound(p, todo[p])
  <2>1. todo[p] \in Nat \ {0} /\ Holds(p, "w")
    BY <1>1, <1>3 DEF IInv, CallInv
  <2> QED
    BY <1>3, <2>1, WriteRoundStep
<1>4. CASE pc[p] = "poll" /\ PollRound(p, PollEnd(p))
  <2>1. PollEnd(p) \in Ends /\ Holds(p, PollEnd(p))
    BY <1>4 DEF IInv, CallInv, PollEnd, Ends
  <2> QED
    BY <1>4, <2>1, PollRoundStep
<1> QED
  BY <1>2, <1>3, <1>4 DEF Resume, PollEnd

-----------------------------------------------------------------------------
(* The invariant and the properties of the runs                            *)

LEMMA NextIInv == IInv /\ [Next]_vars => IInv'
<1> SUFFICES ASSUME IInv, [Next]_vars PROVE IInv'
  OBVIOUS
<1>1. CASE UNCHANGED vars
  <2>1. UNCHANGED <<buffer, read_pos, write_pos, used, readers, writers, read_wait, write_wait,
                    freed, refcount, open_fds, pc, asleep, todo, signalled, put, got, eof>>
    BY <1>1 DEF vars, pipeVars, fileVars, procVars
  <2> QED
    BY <2>1 DEF IInv, TypeOK, CallInv, Holds, PollEnd, RefcountsExact, InOrder, Contents,
               NoLostWakeup, Ready
<1>2. CASE Next
  <2> PICK p \in Proc :
        \/ \E n \in 1 .. MaxCount : Read(p, n) \/ Write(p, n)
        \/ \E e \in Ends : Poll(p, e)
        \/ \E d \in Fds : Close(p, d) \/ \E new \in Fds : Dup2(p, d, new)
        \/ \E q \in Proc : Fork(p, q)
        \/ Resume(p) \/ Exit(p) \/ Signal(p) \/ Deliver(p)
    BY <1>2 DEF Next
  <2>1. ASSUME NEW n \in 1 .. MaxCount, Read(p, n) PROVE IInv'
    BY <2>1, ReadRoundStep, PipeAssumption DEF Read
  <2>2. ASSUME NEW n \in 1 .. MaxCount, Write(p, n) PROVE IInv'
    BY <2>2, WriteRoundStep, PipeAssumption DEF Write
  <2>3. ASSUME NEW e \in Ends, Poll(p, e) PROVE IInv'
    BY <2>3, PollRoundStep DEF Poll
  <2>4. ASSUME NEW d \in Fds, Close(p, d) PROVE IInv'
    BY <2>4, CloseStep
  <2>5. ASSUME NEW d \in Fds, NEW new \in Fds, Dup2(p, d, new) PROVE IInv'
    BY <2>5, Dup2Step
  <2>6. ASSUME NEW q \in Proc, Fork(p, q) PROVE IInv'
    BY <2>6, ForkStep
  <2>7. CASE Resume(p)
    BY <2>7, ResumeStep
  <2>8. CASE Exit(p)
    BY <2>8, EndStep DEF Exit
  <2>9. CASE Signal(p)
    BY <2>9, SignalStep
  <2>10. CASE Deliver(p)
    BY <2>10, DeliverStep
  <2> QED
    BY <2>1, <2>2, <2>3, <2>4, <2>5, <2>6, <2>7, <2>8, <2>9, <2>10
<1> QED
  BY <1>1, <1>2

\* In every execution of the pipe its counts, its contents and its sleepers
\* are in order, whatever the processes and the bounds.
THEOREM PipeInvariant == Spec => []IInv
<1>1. Init => IInv
  BY InitIInv
<1>2. IInv /\ [Next]_vars => IInv'
  BY NextIInv
<1> QED
  BY <1>1, <1>2, PTL DEF Spec

\* The type invariant of the runs.
THEOREM TypeCorrect == Spec => []TypeOK
BY PipeInvariant, PTL DEF IInv

\* No fork, dup2, close or exit lets a reference count and the descriptors
\* disagree, or frees the pipe too early or never.
THEOREM CountsExact == Spec => []RefcountsExact
BY PipeInvariant, PTL DEF IInv

\* The ring holds what was written and not yet read, in order.
THEOREM BytesInOrder == Spec => []InOrder
BY PipeInvariant, PTL DEF IInv

\* Nobody sleeps in read, write or poll with a reason to go on.
THEOREM WakeupsKept == Spec => []NoLostWakeup
BY PipeInvariant, PTL DEF IInv

\* A sleeping call finds the pipe where it left it, since its caller still
\* holds the descriptor it came through.
THEOREM PipeOutlivesCalls == Spec => []SleeperNotFreed
<1>1. IInv => SleeperNotFreed
  <2> SUFFICES ASSUME IInv, NEW p \in Proc, pc[p] \in {"read", "write", "poll"}
               PROVE  ~freed
    BY DEF SleeperNotFreed
  <2>1. \E e \in Ends : Holds(p, e)
    BY DEF IInv, CallInv, PollEnd, Ends
  <2> QED
    BY <2>1, HolderKeepsOpen DEF IInv
<1> QED
  BY <1>1, PipeInvariant, PTL

-----------------------------------------------------------------------------
(* The pipe implements a stream of bytes.  With InOrder the contents are   *)
(* the numbers that follow got.                                            *)

Run(a, n) == [i \in 1 .. n |-> a + i]

LEMMA RunFacts ==
    ASSUME NEW a \in Nat, NEW n \in Nat
    PROVE  /\ Run(a, n) \in Seq(Nat) /\ Len(Run(a, n)) = n
           /\ \A i \in 1 .. n : Run(a, n)[i] = a + i
<1>1. Run(a, n) \in [1 .. n -> Nat]
  BY DEF Run
<1>2. Run(a, n) \in Seq(Nat)
  BY <1>1, SeqDef
<1>3. DOMAIN Run(a, n) = 1 .. n /\ DOMAIN Run(a, n) = 1 .. Len(Run(a, n)) /\ Len(Run(a, n)) \in Nat
  BY <1>1, <1>2, LenProperties
<1> QED
  BY <1>1, <1>2, <1>3 DEF Run

\* Any stretch of a run is a run.
LEMMA SubRun ==
    ASSUME NEW a \in Nat, NEW n \in Nat, NEW k \in 0 .. n, NEW m \in k .. n
    PROVE  SubSeq(Run(a, n), k + 1, m) = Run(a + k, m - k)
<1> DEFINE s == SubSeq(Run(a, n), k + 1, m)
           t == Run(a + k, m - k)
<1>0. a + k \in Nat /\ m - k \in Nat
  OBVIOUS
<1>1. t \in Seq(Nat) /\ Len(t) = m - k /\ \A i \in 1 .. m - k : t[i] = (a + k) + i
  BY <1>0, RunFacts
<1>2. \A i \in 1 .. n : Run(a, n)[i] = a + i /\ Run(a, n)[i] \in Nat
  <2>1. \A i \in 1 .. n : Run(a, n)[i] = a + i
    BY RunFacts
  <2> QED
    BY <2>1
<1>3. k + 1 \in Int /\ m \in Int /\ \A i \in k + 1 .. m : Run(a, n)[i] \in Nat
  BY <1>2
<1>4. /\ s \in Seq(Nat)
      /\ Len(s) = IF k + 1 <= m THEN m - (k + 1) + 1 ELSE 0
      /\ \A i \in 1 .. m - (k + 1) + 1 : s[i] = Run(a, n)[(k + 1) + i - 1]
  BY <1>3, SubSeqProperties
<1>5. Len(s) = m - k
  BY <1>4
<1> HIDE DEF s, t
<1>6. ASSUME NEW i \in 1 .. m - k PROVE s[i] = t[i]
  <2>1. i \in 1 .. m - (k + 1) + 1 /\ (k + 1) + i - 1 = k + i /\ k + i \in 1 .. n
    OBVIOUS
  <2>2. s[i] = a + (k + i)
    BY <1>2, <1>4, <2>1
  <2> QED
    BY <1>1, <2>2
<1>7. s = t
  BY <1>1, <1>4, <1>5, <1>6, SeqEqual
<1> QED
  BY <1>7 DEF s, t

LEMMA ContentsRun ==
    ASSUME IInv
    PROVE  Contents = Run(got, used) /\ got \in Nat /\ used \in Nat
<1>1. got \in Nat /\ used \in Nat
  BY PipeAssumption DEF IInv, TypeOK
<1>2. \A i \in 1 .. used : Contents[i] = got + i
  BY DEF IInv, InOrder
<1>3. Contents = [i \in 1 .. used |-> Contents[i]]
  BY DEF Contents
<1> QED
  BY <1>1, <1>2, <1>3 DEF Run

LEMMA ContentsRunNext ==
    ASSUME IInv'
    PROVE  Contents' = Run(got', used')
<1>1. \A i \in 1 .. used' : Contents'[i] = got' + i
  BY DEF IInv, InOrder
<1>2. Contents' = [i \in 1 .. used' |-> Contents'[i]]
  BY DEF Contents
<1> QED
  BY <1>1, <1>2 DEF Run

\* A round of read takes bytes off the front, reports the end, or changes
\* nothing that a user of the stream sees.
LEMMA ReadRoundMaps ==
    ASSUME IInv, IInv', NEW p \in Proc, NEW n \in Nat \ {0}, Holds(p, "r"), ReadRound(p, n)
    PROVE  Stream!GetMany \/ Stream!Eof
           \/ UNCHANGED <<Contents, readers > 0, writers > 0, eof>>
<1> DEFINE k == MinOf(n, used)
<1>0. /\ Contents = Run(got, used) /\ got \in Nat /\ used \in Nat
      /\ Contents' = Run(got', used')
      /\ readers > 0
  <2>1. readers = 1
    BY HolderKeepsOpen DEF IInv, Ends
  <2>2. Contents' = Run(got', used')
    BY ContentsRunNext
  <2> QED
    BY <2>1, <2>2, ContentsRun
<1>1. k \in Nat /\ k <= used
  BY <1>0, MinFacts
<1>2. UNCHANGED <<readers, writers>>
  BY DEF ReadRound
<1>3. CASE k > 0 /\ used' = used - k /\ got' = got + k /\ UNCHANGED eof
  <2>1. SubSeq(Run(got, used), k + 1, used) = Run(got + k, used - k)
    <3>1. k \in 0 .. used /\ used \in k .. used
      BY <1>0, <1>1
    <3> QED
      BY <1>0, <3>1, SubRun
  <2>2. Len(Contents) = used
    BY <1>0, RunFacts
  <2>3. k \in 1 .. Len(Contents) /\ Contents' = SubSeq(Contents, k + 1, Len(Contents))
    BY <1>0, <1>1, <1>3, <2>1, <2>2
  <2> HIDE DEF k
  <2>4. Stream!GetMany
    BY <1>0, <1>2, <1>3, <2>3 DEF Stream!GetMany
  <2> QED
    BY <2>4
<1>4. CASE AtEnd /\ eof' = TRUE /\ UNCHANGED <<used, got>>
  <2>1. Contents = <<>>
    BY <1>0, <1>4, RunFacts, EmptySeq DEF AtEnd
  <2>2. Stream!Eof
    BY <1>0, <1>2, <1>4, <2>1 DEF Stream!Eof, AtEnd
  <2> QED
    BY <2>2
<1>5. CASE UNCHANGED <<used, got, eof>>
  BY <1>0, <1>2, <1>5
<1> QED
  BY <1>3, <1>4, <1>5 DEF ReadRound

\* A round of write adds bytes at the back, or changes nothing that a user of
\* the stream sees.
LEMMA WriteRoundMaps ==
    ASSUME IInv, IInv', NEW p \in Proc, NEW n \in Nat \ {0}, Holds(p, "w"), WriteRound(p, n)
    PROVE  Stream!PutMany \/ UNCHANGED <<Contents, readers > 0, writers > 0, eof>>
<1> DEFINE k == MinOf(n, Size - used)
<1>0. /\ Contents = Run(got, used) /\ got \in Nat /\ used \in Nat
      /\ Contents' = Run(got', used')
      /\ writers > 0
  <2>1. writers = 1
    BY HolderKeepsOpen DEF IInv, Ends
  <2>2. Contents' = Run(got', used')
    BY ContentsRunNext
  <2> QED
    BY <2>1, <2>2, ContentsRun
<1>1. k \in Nat
  BY PipeAssumption DEF IInv, TypeOK, MinOf
<1>2. UNCHANGED <<readers, writers, got, eof>>
  BY DEF WriteRound
<1>3. UNCHANGED used \/ (readers > 0 /\ used' = used + k)
  BY DEF WriteRound
<1> HIDE DEF k
<1>4. CASE readers > 0 /\ used' = used + k /\ k > 0
  <2>1. SubSeq(Run(got, used + k), 0 + 1, used) = Run(got + 0, used - 0)
    <3>1. used + k \in Nat /\ 0 \in 0 .. used + k /\ used \in 0 .. used + k
      BY <1>0, <1>1
    <3> QED
      BY <1>0, <3>1, SubRun
  <2>2. Len(Contents) = used /\ Len(Contents') = used + k
    BY <1>0, <1>1, <1>2, <1>4, RunFacts
  <2>3. SubSeq(Contents', 1, Len(Contents)) = Contents /\ Len(Contents') > Len(Contents)
    BY <1>0, <1>1, <1>2, <1>4, <2>1, <2>2
  <2>4. Stream!PutMany
    BY <1>0, <1>2, <1>4, <2>3 DEF Stream!PutMany
  <2> QED
    BY <2>4
<1>5. CASE UNCHANGED used
  BY <1>0, <1>2, <1>5
<1> QED
  BY <1>0, <1>1, <1>3, <1>4, <1>5

\* Giving up descriptors can close an end and does nothing else to the stream.
LEMMA CloseMaps ==
    ASSUME IInv, NEW p \in Proc, NEW D \in SUBSET Fds, CloseEnds(Released(p, D)),
           UNCHANGED eof
    PROVE  Stream!Close
<1>1. Released(p, D) \in [Ends -> Nat] /\ \A e \in Ends : Released(p, D)[e] <= refcount[e]
  BY ReleasedType
<1>2. /\ UNCHANGED <<buffer, read_pos, used>>
      /\ readers' = (IF Released(p, D)["r"] > 0 THEN 1 ELSE 0)
      /\ writers' = (IF Released(p, D)["w"] > 0 THEN 1 ELSE 0)
  BY <1>1, CloseFacts
<1>3. /\ readers = (IF refcount["r"] > 0 THEN 1 ELSE 0)
      /\ writers = (IF refcount["w"] > 0 THEN 1 ELSE 0)
  BY DEF IInv, RefcountsExact
<1>4. /\ refcount["r"] \in Nat /\ refcount["w"] \in Nat
      /\ Released(p, D)["r"] \in Nat /\ Released(p, D)["w"] \in Nat
      /\ Released(p, D)["r"] <= refcount["r"] /\ Released(p, D)["w"] <= refcount["w"]
  BY <1>1 DEF IInv, TypeOK, Ends
<1>5. (readers' > 0) \in {readers > 0, FALSE}
  <2>1. CASE readers' = readers
    BY <2>1
  <2>2. CASE readers' = 0
    <3>1. (readers' > 0) = FALSE
      BY <2>2
    <3> QED
      BY <3>1, Zenon
  <2>3. readers' = readers \/ readers' = 0
    BY <1>2, <1>3, <1>4
  <2> QED
    BY <2>1, <2>2, <2>3, Zenon
<1>6. (writers' > 0) \in {writers > 0, FALSE}
  <2>1. CASE writers' = writers
    BY <2>1
  <2>2. CASE writers' = 0
    <3>1. (writers' > 0) = FALSE
      BY <2>2
    <3> QED
      BY <3>1, Zenon
  <2>3. writers' = writers \/ writers' = 0
    BY <1>2, <1>3, <1>4
  <2> QED
    BY <2>1, <2>2, <2>3, Zenon
<1>7. Contents' = Contents
  BY <1>2 DEF Contents
<1> QED
  BY <1>5, <1>6, <1>7 DEF Stream!Close

\* The pipe is the stream of bytes that ByteStream promises: what the readers
\* of a ring with wrapped positions get is the sequence the writers put in.
THEOREM PipeRefines == Spec => IsByteStream
<1> DEFINE seen == <<Contents, readers > 0, writers > 0, eof>>
<1>1. Init => Stream!Init
  <2> SUFFICES ASSUME Init PROVE Stream!Init
    OBVIOUS
  <2>1. Contents = <<>>
    BY InitIInv, ContentsRun, RunFacts, EmptySeq DEF Init
  <2>2. readers = 1 /\ writers = 1 /\ eof = FALSE
    BY DEF Init
  <2> QED
    BY <2>1, <2>2 DEF Stream!Init
<1>2. IInv /\ IInv' /\ [Next]_vars => [Stream!Next]_seen
  <2> SUFFICES ASSUME IInv, IInv', [Next]_vars PROVE Stream!Next \/ UNCHANGED seen
    OBVIOUS
  <2>1. CASE UNCHANGED <<buffer, read_pos, used, readers, writers, eof>>
    BY <2>1 DEF Contents
  <2>2. CASE Next
    <3> PICK p \in Proc :
          \/ \E n \in 1 .. MaxCount : Read(p, n) \/ Write(p, n)
          \/ \E e \in Ends : Poll(p, e)
          \/ \E d \in Fds : Close(p, d) \/ \E new \in Fds : Dup2(p, d, new)
          \/ \E q \in Proc : Fork(p, q)
          \/ Resume(p) \/ Exit(p) \/ Signal(p) \/ Deliver(p)
      BY <2>2 DEF Next
    <3>1. ASSUME NEW n \in 1 .. MaxCount, Read(p, n) PROVE Stream!Next \/ UNCHANGED seen
      BY <3>1, ReadRoundMaps, PipeAssumption DEF Read, Stream!Next
    <3>2. ASSUME NEW n \in 1 .. MaxCount, Write(p, n) PROVE Stream!Next \/ UNCHANGED seen
      BY <3>2, WriteRoundMaps, PipeAssumption DEF Write, Stream!Next
    <3>3. ASSUME NEW e \in Ends, Poll(p, e) PROVE Stream!Next \/ UNCHANGED seen
      BY <2>1, <3>3 DEF Poll, PollRound, pipeVars
    <3>4. ASSUME NEW d \in Fds, Close(p, d) PROVE Stream!Next \/ UNCHANGED seen
      BY <3>4, CloseMaps DEF Close, Stream!Next
    <3>5. ASSUME NEW d \in Fds, NEW new \in Fds, Dup2(p, d, new)
          PROVE  Stream!Next \/ UNCHANGED seen
      BY <3>5, CloseMaps DEF Dup2, Stream!Next
    <3>6. ASSUME NEW q \in Proc, Fork(p, q) PROVE Stream!Next \/ UNCHANGED seen
      BY <2>1, <3>6 DEF Fork, pipeVars
    <3>7. CASE Resume(p)
      <4>1. CASE pc[p] = "read" /\ ReadRound(p, todo[p])
        <5>1. todo[p] \in Nat \ {0} /\ Holds(p, "r")
          BY <4>1 DEF IInv, TypeOK, CallInv
        <5> QED
          BY <4>1, <5>1, ReadRoundMaps DEF Stream!Next
      <4>2. CASE pc[p] = "write" /\ WriteRound(p, todo[p])
        <5>1. todo[p] \in Nat \ {0} /\ Holds(p, "w")
          BY <4>2 DEF IInv, TypeOK, CallInv
        <5> QED
          BY <4>2, <5>1, WriteRoundMaps DEF Stream!Next
      <4>3. CASE \E e \in Ends : PollRound(p, e)
        BY <2>1, <4>3 DEF PollRound, pipeVars
      <4> QED
        BY <3>7, <4>1, <4>2, <4>3 DEF Resume, Ends
    <3>8. ASSUME End(p) PROVE Stream!Next \/ UNCHANGED seen
      BY <3>8, CloseMaps DEF End, Stream!Next
    <3>9. CASE Exit(p)
      BY <3>8, <3>9 DEF Exit
    <3>10. CASE Signal(p)
      BY <2>1, <3>10 DEF Signal, pipeVars
    <3>11. CASE Deliver(p)
      BY <2>1, <3>8, <3>11 DEF Deliver, pipeVars
    <3> QED
      BY <3>1, <3>2, <3>3, <3>4, <3>5, <3>6, <3>7, <3>9, <3>10, <3>11
  <2> QED
    BY <2>1, <2>2 DEF vars, pipeVars
<1> QED
  BY <1>1, <1>2, PipeInvariant, PTL DEF Spec, IsByteStream, Stream!Spec
=============================================================================
