----------------------------- MODULE HeapProofs -----------------------------
(***************************************************************************)
(* Theorems about Heap for every size of the heap, of a header, of the     *)
(* alignment and of what is asked for.                                     *)
(***************************************************************************)
EXTENDS Heap, WellFoundedInduction, TLAPS

-----------------------------------------------------------------------------
(* Multiples of the alignment.                                             *)

LEMMA UnitIs == Unit \in Nat \ {0}
BY HeapAssumption

LEMMA HeaderIs == Header \in Nat /\ Header > 0
BY HeapAssumption

LEMMA MultipleIs ==
    ASSUME NEW k \in Int
    PROVE  (Unit * k) % Unit = 0
BY UnitIs

LEMMA MultipleHas ==
    ASSUME NEW x \in Int, x % Unit = 0
    PROVE  \E k \in Int : x = Unit * k
BY UnitIs

LEMMA MultipleSum ==
    ASSUME NEW x \in Int, NEW y \in Int, x % Unit = 0, y % Unit = 0
    PROVE  (x + y) % Unit = 0
<1>1. PICK k \in Int : x = Unit * k
  BY MultipleHas
<1>2. PICK m \in Int : y = Unit * m
  BY MultipleHas
<1>3. x + y = Unit * (k + m)
  BY <1>1, <1>2, UnitIs
<1>4. (Unit * (k + m)) % Unit = 0
  BY MultipleIs
<1> QED
  BY <1>3, <1>4

LEMMA MultipleDifference ==
    ASSUME NEW x \in Int, NEW y \in Int, x % Unit = 0, y % Unit = 0
    PROVE  (x - y) % Unit = 0
<1>1. PICK k \in Int : x = Unit * k
  BY MultipleHas
<1>2. PICK m \in Int : y = Unit * m
  BY MultipleHas
<1>3. x - y = Unit * (k - m)
  BY <1>1, <1>2, UnitIs
<1>4. (Unit * (k - m)) % Unit = 0
  BY MultipleIs
<1> QED
  BY <1>3, <1>4

LEMMA AlignFacts ==
    ASSUME NEW n \in Nat
    PROVE  Align(n) \in Nat /\ Align(n) >= n /\ Align(n) % Unit = 0
<1>1. Align(n) >= n /\ Align(n) \in Int
  BY UnitIs DEF Align
<1>2. Align(n) % Unit = 0
  BY UnitIs DEF Align
<1> QED
  BY <1>1, <1>2

LEMMA SizeForFacts ==
    ASSUME NEW n \in Nat
    PROVE  /\ SizeFor(n) \in Nat \ {0}
           /\ SizeFor(n) >= n
           /\ SizeFor(n) % Unit = 0
<1>1. CASE n < MinSize
  BY <1>1, AlignFacts, HeapAssumption DEF SizeFor
<1>2. CASE ~(n < MinSize)
  BY <1>2, AlignFacts, HeapAssumption DEF SizeFor
<1> QED
  BY <1>1, <1>2

-----------------------------------------------------------------------------
(* The shape of a list of blocks.                                          *)

BlockSet == [size : Nat \ {0}, next : Int, prev : Int, free : BOOLEAN]

Blocks(h) == /\ h \in [DOMAIN h -> BlockSet]
             /\ DOMAIN h \subseteq Nat
             /\ 0 \in DOMAIN h

NextOK(h, b) == IF h[b].next = Null THEN End(h, b) = HeapSize
                ELSE h[b].next \in DOMAIN h /\ End(h, b) = h[b].next /\ h[h[b].next].prev = b
PrevOK(h, b) == IF b = 0 THEN h[b].prev = Null
                ELSE h[b].prev \in DOMAIN h /\ h[h[b].prev].next = b

Linked(h) == \A b \in DOMAIN h : NextOK(h, b) /\ PrevOK(h, b)

(* Blocks do not overlap, and together they are the whole heap.            *)
Apart(h) == /\ \A b \in DOMAIN h : End(h, b) <= HeapSize
            /\ \A b, c \in DOMAIN h : b < c => End(h, b) <= c
Covers(h) == \A x \in 0 .. HeapSize - 1 : \E b \in DOMAIN h : b <= x /\ x < End(h, b)

Stepped(h) == \A b \in DOMAIN h : b % Unit = 0 /\ h[b].size % Unit = 0

Shape(h) == Blocks(h) /\ Linked(h) /\ Apart(h) /\ Covers(h) /\ Stepped(h)

(* A block and the one behind it are not both free.                        *)
PairOK(h, b) == h[b].next = Null \/ ~h[b].free \/ ~h[h[b].next].free

Used(h) == {b \in DOMAIN h : ~h[b].free}

(* What the callers hold is what is used, with room for what they asked.   *)
Holding(h, H) == /\ DOMAIN H \subseteq Nat
                 /\ H \in [DOMAIN H -> Nat]
                 /\ Used(h) = {p - Header : p \in DOMAIN H}
                 /\ \A p \in DOMAIN H : h[p - Header].size >= H[p]

IInv == /\ Shape(block)
        /\ \A b \in DOMAIN block : PairOK(block, b)
        /\ Holding(block, held)
        /\ wanted \in Nat
        /\ wanted # 0 => Fitting(wanted) = {}

LEMMA BlockFacts ==
    ASSUME NEW h, Blocks(h), NEW b \in DOMAIN h
    PROVE  /\ b \in Nat
           /\ h[b].size \in Nat /\ h[b].size > 0
           /\ h[b].next \in Int /\ h[b].prev \in Int /\ h[b].free \in BOOLEAN
           /\ h[b] = [size |-> h[b].size, next |-> h[b].next, prev |-> h[b].prev, free |-> h[b].free]
           /\ End(h, b) = b + Header + h[b].size
           /\ End(h, b) \in Nat /\ End(h, b) > b + Header
BY HeapAssumption DEF Blocks, BlockSet, End

LEMMA LinkFacts ==
    ASSUME NEW h, Blocks(h), Linked(h), NEW b \in DOMAIN h
    PROVE  /\ h[b].next = Null => End(h, b) = HeapSize
           /\ h[b].next # Null => /\ h[b].next \in DOMAIN h
                                  /\ End(h, b) = h[b].next
                                  /\ h[b].next > b
                                  /\ h[h[b].next].prev = b
           /\ b = 0 => h[b].prev = Null
           /\ b # 0 => h[b].prev \in DOMAIN h /\ h[h[b].prev].next = b
           /\ h[b].prev # Null => h[b].prev \in DOMAIN h /\ h[h[b].prev].next = b /\ h[b].prev < b
<1>1. NextOK(h, b) /\ PrevOK(h, b)
  BY DEF Linked
<1>2. b \in Nat /\ End(h, b) > b
  BY BlockFacts, HeapAssumption
<1>3. h[b].next # Null => h[b].next > b
  BY <1>1, <1>2 DEF NextOK
<1>4. ASSUME h[b].prev # Null
      PROVE  h[b].prev \in DOMAIN h /\ h[h[b].prev].next = b /\ h[b].prev < b
  <2> DEFINE p == h[b].prev
  <2>1. p \in DOMAIN h /\ h[p].next = b
    BY <1>1, <1>4 DEF PrevOK
  <2>2. b # Null /\ NextOK(h, p)
    BY <1>2, <2>1 DEF Null, Linked
  <2>3. End(h, p) = b
    BY <2>1, <2>2 DEF NextOK
  <2>4. p \in Nat /\ End(h, p) > p
    BY <2>1, BlockFacts, HeapAssumption
  <2> QED
    BY <2>1, <2>3, <2>4
<1> QED
  BY <1>1, <1>3, <1>4 DEF NextOK, PrevOK

-----------------------------------------------------------------------------
(* Setting the flag of a block.                                            *)

LEMMA FlagShape ==
    ASSUME NEW h, Shape(h), NEW b \in DOMAIN h, NEW f \in BOOLEAN
    PROVE  LET g == [h EXCEPT ![b].free = f]
           IN  /\ Shape(g)
               /\ DOMAIN g = DOMAIN h
               /\ \A c \in DOMAIN h : /\ g[c].next = h[c].next /\ g[c].prev = h[c].prev
                                      /\ g[c].size = h[c].size
                                      /\ g[c].free = IF c = b THEN f ELSE h[c].free
<1> DEFINE g == [h EXCEPT ![b].free = f]
<1>1. Blocks(h)
  BY DEF Shape
<1>2. DOMAIN g = DOMAIN h
  BY <1>1 DEF Blocks
<1>3. \A c \in DOMAIN h : /\ g[c].next = h[c].next /\ g[c].prev = h[c].prev /\ g[c].size = h[c].size
                          /\ g[c].free = IF c = b THEN f ELSE h[c].free
                          /\ g[c] \in BlockSet
  <2> SUFFICES ASSUME NEW c \in DOMAIN h
               PROVE  /\ g[c].next = h[c].next /\ g[c].prev = h[c].prev /\ g[c].size = h[c].size
                      /\ g[c].free = IF c = b THEN f ELSE h[c].free
                      /\ g[c] \in BlockSet
    OBVIOUS
  <2>1. h[c] \in BlockSet
    BY <1>1 DEF Blocks
  <2>2. g[c] = IF c = b THEN [h[c] EXCEPT !.free = f] ELSE h[c]
    BY <1>1 DEF Blocks
  <2> QED
    BY <2>1, <2>2 DEF BlockSet
<1>4. Blocks(g)
  <2>1. g \in [DOMAIN g -> BlockSet]
    BY <1>1, <1>2, <1>3 DEF Blocks
  <2> QED
    BY <1>1, <1>2, <2>1 DEF Blocks
<1>5. \A c \in DOMAIN h : End(g, c) = End(h, c)
  BY <1>3 DEF End
<1>6. Linked(g)
  <2> SUFFICES ASSUME NEW c \in DOMAIN h PROVE NextOK(g, c) /\ PrevOK(g, c)
    BY <1>2 DEF Linked
  <2>1. NextOK(h, c) /\ PrevOK(h, c)
    BY DEF Shape, Linked
  <2>2. NextOK(g, c)
    BY <1>2, <1>3, <1>5, <2>1 DEF NextOK
  <2>3. PrevOK(g, c)
    BY <1>2, <1>3, <2>1 DEF PrevOK
  <2> QED
    BY <2>2, <2>3
<1>7. Apart(g) /\ Covers(g)
  BY <1>2, <1>5 DEF Shape, Apart, Covers
<1>8. Stepped(g)
  BY <1>2, <1>3 DEF Shape, Stepped
<1> QED
  BY <1>2, <1>3, <1>4, <1>6, <1>7, <1>8 DEF Shape

-----------------------------------------------------------------------------
(* merge_with_next()                                                       *)

LEMMA MergeIdle ==
    ASSUME NEW h, NEW b \in DOMAIN h, h[b].next = Null \/ ~h[h[b].next].free
    PROVE  Merge(h, b) = h
BY DEF Merge

LEMMA MergeShape ==
    ASSUME NEW h, Shape(h), NEW b \in DOMAIN h
    PROVE  LET g == Merge(h, b)
           IN  /\ Shape(g)
               /\ b \in DOMAIN g /\ DOMAIN g \subseteq DOMAIN h
               /\ Used(g) = Used(h)
               /\ \A c \in DOMAIN g : /\ g[c].free = h[c].free
                                      /\ c # b => g[c].size = h[c].size
                                      /\ c # b => g[c].next = h[c].next
                                      /\ g[c].next # Null => g[g[c].next].free = h[g[c].next].free
               /\ g[b].prev = h[b].prev
               /\ g[b].size >= h[b].size
<1> DEFINE n == h[b].next
           m == h[n].next
           g == Merge(h, b)
<1>1. Blocks(h) /\ Linked(h) /\ Apart(h) /\ Covers(h) /\ Stepped(h)
  BY DEF Shape
<1>2. CASE n = Null \/ ~h[n].free
  <2>1. g = h
    BY <1>2, MergeIdle
  <2>2. h[b].size >= h[b].size
    BY <1>1, BlockFacts
  <2> QED
    BY <2>1, <2>2
<1>3. CASE n # Null /\ h[n].free
  <2>1. /\ n \in DOMAIN h /\ End(h, b) = n /\ n > b /\ h[n].prev = b
        /\ b \in Nat /\ n \in Nat
    BY <1>1, <1>3, LinkFacts, BlockFacts
  <2>2. /\ m = Null => End(h, n) = HeapSize
        /\ m # Null => m \in DOMAIN h /\ End(h, n) = m /\ m > n /\ h[m].prev = n
        /\ m \in Int
    BY <1>1, <2>1, LinkFacts, BlockFacts
  <2>3. m # b /\ m # n /\ b # n
    BY <2>1, <2>2 DEF Null
  <2>4. g = [c \in DOMAIN h \ {n} |->
                 IF c = b THEN [h[b] EXCEPT !.size = @ + Header + h[n].size, !.next = h[n].next]
                 ELSE IF c = h[n].next THEN [h[c] EXCEPT !.prev = b]
                 ELSE h[c]]
    BY <1>3 DEF Merge
  <2>5. DOMAIN g = DOMAIN h \ {n}
    BY <2>4
  <2>6. g[b] = [h[b] EXCEPT !.size = @ + Header + h[n].size, !.next = m]
    BY <2>1, <2>3, <2>4
  <2>7. /\ g[b].size = h[b].size + Header + h[n].size /\ g[b].next = m
        /\ g[b].prev = h[b].prev /\ g[b].free = h[b].free
        /\ g[b] \in BlockSet
    <3>1. h[b] \in BlockSet /\ h[n] \in BlockSet
      BY <1>1, <2>1 DEF Blocks
    <3> HIDE DEF g, n, m
    <3>2. h[b].size + Header + h[n].size \in Nat \ {0}
      BY <3>1, HeaderIs DEF BlockSet
    <3> QED
      BY <2>2, <2>6, <3>1, <3>2 DEF BlockSet
  <2>8. ASSUME NEW c \in DOMAIN g, c # b
        PROVE  /\ g[c].size = h[c].size /\ g[c].next = h[c].next /\ g[c].free = h[c].free
               /\ g[c].prev = IF c = m THEN b ELSE h[c].prev
               /\ g[c] \in BlockSet
    <3>1. h[c] \in BlockSet
      BY <1>1, <2>5, <2>8 DEF Blocks
    <3>2. g[c] = IF c = m THEN [h[c] EXCEPT !.prev = b] ELSE h[c]
      BY <2>4, <2>5, <2>8
    <3> QED
      BY <3>1, <3>2, <2>1 DEF BlockSet
  <2>9. Blocks(g)
    <3>1. \A c \in DOMAIN g : g[c] \in BlockSet
      BY <2>7, <2>8
    <3>2. g \in [DOMAIN g -> BlockSet]
      <4>1. g = [c \in DOMAIN g |-> g[c]]
        BY <2>4, <2>5
      <4> HIDE DEF g
      <4> QED
        BY <3>1, <4>1
    <3> QED
      BY <1>1, <2>1, <2>5, <3>2 DEF Blocks
  <2>10. End(g, b) = End(h, n)
    <3>1. /\ End(h, b) = b + Header + h[b].size
          /\ End(h, n) = n + Header + h[n].size
          /\ h[b].size \in Nat /\ h[n].size \in Nat
      BY <1>1, <2>1, BlockFacts
    <3>2. End(g, b) = b + Header + g[b].size
      BY DEF End
    <3>3. g[b].size = h[b].size + Header + h[n].size /\ End(h, b) = n /\ b \in Nat /\ n \in Nat
      BY <2>1, <2>7
    <3> HIDE DEF g, n
    <3> QED
      BY <3>1, <3>2, <3>3, HeaderIs
  <2>11. \A c \in DOMAIN g : c # b => End(g, c) = End(h, c)
    BY <2>8 DEF End
  <2>12. ASSUME NEW c \in DOMAIN g PROVE NextOK(g, c)
    <3>1. CASE c = b
      <4>1. CASE m = Null
        BY <2>2, <2>7, <2>10, <3>1, <4>1 DEF NextOK
      <4>2. CASE m # Null
        <5>1. m \in DOMAIN g /\ g[m].prev = b
          BY <2>2, <2>3, <2>5, <2>8, <4>2
        <5> QED
          BY <2>2, <2>7, <2>10, <3>1, <4>2, <5>1 DEF NextOK
      <4> QED
        BY <4>1, <4>2
    <3>2. CASE c # b
      <4>1. c \in DOMAIN h /\ c # n /\ g[c].next = h[c].next
        BY <2>5, <2>8, <3>2
      <4> DEFINE x == h[c].next
      <4>2. CASE x = Null
        <5>1. End(h, c) = HeapSize
          BY <1>1, <4>1, <4>2, LinkFacts
        <5> QED
          BY <2>11, <3>2, <4>1, <4>2, <5>1 DEF NextOK
      <4>3. CASE x # Null
        <5>1. x \in DOMAIN h /\ End(h, c) = x /\ h[x].prev = c
          BY <1>1, <4>1, <4>3, LinkFacts
        <5>2. x # n
          BY <2>1, <3>2, <5>1
        <5>3. x # m
          BY <2>2, <4>1, <4>3, <5>1
        <5>4. x \in DOMAIN g /\ g[x].prev = c
          BY <2>5, <2>7, <2>8, <5>1, <5>2, <5>3
        <5> QED
          BY <2>11, <3>2, <4>1, <4>3, <5>1, <5>4 DEF NextOK
      <4> QED
        BY <4>2, <4>3
    <3> QED
      BY <3>1, <3>2
  <2>13. ASSUME NEW c \in DOMAIN g PROVE PrevOK(g, c)
    <3>1. CASE c = 0
      <4>1. c # m
        BY <2>1, <2>2, <3>1 DEF Null
      <4>2. h[c].prev = Null
        BY <1>1, <2>5, <3>1, LinkFacts
      <4> QED
        BY <2>7, <2>8, <3>1, <4>1, <4>2 DEF PrevOK
    <3>2. CASE c # 0 /\ c = m
      <4>1. c # b /\ g[c].prev = b /\ b \in DOMAIN g /\ g[b].next = c
        BY <2>1, <2>3, <2>5, <2>7, <2>8, <3>2
      <4> QED
        BY <3>2, <4>1 DEF PrevOK
    <3>3. CASE c # 0 /\ c # m
      <4> DEFINE p == h[c].prev
      <4>1. c \in DOMAIN h /\ c # n /\ g[c].prev = p
        BY <2>5, <2>7, <2>8, <3>3
      <4>2. p \in DOMAIN h /\ h[p].next = c
        BY <1>1, <3>3, <4>1, LinkFacts
      <4>3. p # n /\ p # b
        BY <3>3, <4>1, <4>2
      <4>4. p \in DOMAIN g /\ g[p].next = c
        BY <2>5, <2>8, <4>2, <4>3
      <4> QED
        BY <3>3, <4>1, <4>4 DEF PrevOK
    <3> QED
      BY <3>1, <3>2, <3>3
  <2>14. Apart(g)
    <3>1. ASSUME NEW c \in DOMAIN g PROVE End(g, c) <= HeapSize
      BY <1>1, <2>1, <2>5, <2>10, <2>11 DEF Apart
    <3>2. ASSUME NEW c \in DOMAIN g, NEW d \in DOMAIN g, c < d PROVE End(g, c) <= d
      <4>1. c \in DOMAIN h /\ d \in DOMAIN h /\ d # n /\ End(h, c) <= d /\ d \in Nat
        BY <1>1, <2>5, <3>2, BlockFacts DEF Apart
      <4>2. CASE c = b
        <5>1. n < d
          BY <2>1, <4>1, <4>2
        <5>2. End(h, n) <= d
          BY <1>1, <2>1, <4>1, <5>1 DEF Apart
        <5> QED
          BY <2>10, <4>2, <5>2
      <4>3. CASE c # b
        BY <2>11, <4>1, <4>3
      <4> QED
        BY <4>2, <4>3
    <3> QED
      BY <3>1, <3>2 DEF Apart
  <2>15. Covers(g)
    <3> SUFFICES ASSUME NEW x \in 0 .. HeapSize - 1
                 PROVE  \E c \in DOMAIN g : c <= x /\ x < End(g, c)
      BY DEF Covers
    <3>1. PICK c \in DOMAIN h : c <= x /\ x < End(h, c)
      BY <1>1 DEF Covers
    <3>2. /\ b \in DOMAIN g /\ c \in Nat
          /\ End(h, n) \in Nat /\ End(h, n) > n
          /\ End(h, b) = n
      BY <1>1, <2>1, <2>5, <3>1, BlockFacts, HeapAssumption
    <3>3. CASE c = n
      <4>1. b <= x /\ x < End(g, b)
        BY <2>1, <2>10, <3>1, <3>2, <3>3
      <4> QED
        BY <3>2, <4>1
    <3>4. CASE c = b
      <4>1. b <= x /\ x < End(g, b)
        BY <2>1, <2>10, <3>1, <3>2, <3>4
      <4> QED
        BY <3>2, <4>1
    <3>5. CASE c # n /\ c # b
      BY <2>5, <2>11, <3>1, <3>5
    <3> QED
      BY <3>3, <3>4, <3>5
  <2>16. Stepped(g)
    <3> SUFFICES ASSUME NEW c \in DOMAIN g PROVE c % Unit = 0 /\ g[c].size % Unit = 0
      BY DEF Stepped
    <3>1. c % Unit = 0 /\ h[c].size % Unit = 0 /\ h[b].size % Unit = 0 /\ h[n].size % Unit = 0
      BY <1>1, <2>1, <2>5 DEF Stepped
    <3>2. CASE c = b
      <4>1. h[b].size \in Int /\ h[n].size \in Int /\ Header \in Int /\ Header % Unit = 0
        BY <1>1, <2>1, BlockFacts, HeapAssumption
      <4>2. (h[b].size + Header) % Unit = 0
        BY <3>1, <4>1, MultipleSum
      <4>3. (h[b].size + Header + h[n].size) % Unit = 0
        <5>1. h[b].size + Header \in Int
          BY <4>1
        <5> QED
          BY <3>1, <4>1, <4>2, <5>1, MultipleSum
      <4> QED
        BY <2>7, <3>1, <3>2, <4>3
    <3>3. CASE c # b
      BY <2>8, <3>1, <3>3
    <3> QED
      BY <3>2, <3>3
  <2>17. Used(g) = Used(h)
    BY <1>3, <2>1, <2>5, <2>7, <2>8 DEF Used
  <2>18. b \in DOMAIN g /\ DOMAIN g \subseteq DOMAIN h
    BY <2>1, <2>5
  <2>19. \A c \in DOMAIN g : /\ g[c].free = h[c].free
                             /\ c # b => g[c].size = h[c].size
                             /\ c # b => g[c].next = h[c].next
    BY <2>7, <2>8
  <2>20. \A c \in DOMAIN g : g[c].next # Null => g[g[c].next].free = h[g[c].next].free
    <3> SUFFICES ASSUME NEW c \in DOMAIN g, g[c].next # Null
                 PROVE  g[g[c].next].free = h[g[c].next].free
      OBVIOUS
    <3>1. g[c].next \in DOMAIN g
      BY <2>12 DEF NextOK
    <3> QED
      BY <2>19, <3>1
  <2>21. g[b].size >= h[b].size
    <3>1. h[b].size \in Nat /\ h[n].size \in Nat
      BY <1>1, <2>1, BlockFacts
    <3> QED
      BY <2>7, <3>1, HeaderIs
  <2>22. Shape(g)
    BY <2>9, <2>12, <2>13, <2>14, <2>15, <2>16 DEF Shape, Linked
  <2> HIDE DEF g
  <2> QED
    BY <2>7, <2>17, <2>18, <2>19, <2>20, <2>21, <2>22 DEF g
<1> QED
  BY <1>2, <1>3

-----------------------------------------------------------------------------
(* split_block()                                                           *)

LEMMA CutEnd ==
    ASSUME NEW x \in Int, NEW s \in Int, NEW n \in Int
    PROVE  (x + Header + n) + Header + (s - n - Header) = x + Header + s
BY HeaderIs

LEMMA SplitShape ==
    ASSUME NEW h, Shape(h), NEW b \in DOMAIN h, h[b].free,
           NEW n \in Nat \ {0}, n % Unit = 0, h[b].size >= n,
           \A c \in DOMAIN h : PairOK(h, c)
    PROVE  LET g == Split(h, b, n)
           IN  /\ Shape(g)
               /\ b \in DOMAIN g /\ DOMAIN h \subseteq DOMAIN g
               /\ Used(g) = Used(h)
               /\ \A c \in DOMAIN h : c # b => g[c].size = h[c].size
               /\ g[b].size >= n
               /\ \A c \in DOMAIN g : c = b \/ g[c].next = b \/ PairOK(g, c)
<1> DEFINE r == b + Header + n
           m == h[b].next
           g == Split(h, b, n)
<1>1. Blocks(h) /\ Linked(h) /\ Apart(h) /\ Covers(h) /\ Stepped(h)
  BY DEF Shape
<1>2. CASE h[b].size < n + Header + MinSize
  <2>1. g = h
    BY <1>2 DEF Split
  <2> QED
    BY <2>1
<1>3. CASE ~(h[b].size < n + Header + MinSize)
  <2>1. /\ b \in Nat /\ h[b].size \in Nat /\ m \in Int
        /\ End(h, b) = b + Header + h[b].size
        /\ b < r /\ r + Header < End(h, b) /\ r \in Nat
        /\ h[b].size - n - Header \in Nat \ {0}
    <3>1. /\ b \in Nat /\ h[b].size \in Nat /\ m \in Int
          /\ End(h, b) = b + Header + h[b].size
      BY <1>1, BlockFacts
    <3>2. Header \in Nat /\ Header > 0 /\ MinSize \in Nat /\ MinSize > 0
      BY HeapAssumption
    <3>3. h[b].size >= n + Header + MinSize
      BY <1>3, <3>1, <3>2
    <3> HIDE DEF m
    <3>4. b < r /\ r + Header < End(h, b) /\ r \in Nat /\ h[b].size - n - Header \in Nat \ {0}
      BY <3>1, <3>2, <3>3
    <3> QED
      BY <3>1, <3>4
  <2>2. r \notin DOMAIN h
    <3> SUFFICES ASSUME r \in DOMAIN h PROVE FALSE
      OBVIOUS
    <3>1. End(h, b) <= r
      BY <1>1, <2>1 DEF Apart
    <3>2. End(h, b) \in Nat /\ Header \in Nat
      BY <1>1, BlockFacts, HeaderIs
    <3> HIDE DEF r
    <3> QED
      BY <2>1, <3>1, <3>2
  <2>3. /\ m = Null => End(h, b) = HeapSize
        /\ m # Null => m \in DOMAIN h /\ End(h, b) = m /\ m > b /\ h[m].prev = b
        /\ m # b /\ m # r /\ r # b
    <3>1. /\ m = Null => End(h, b) = HeapSize
          /\ m # Null => m \in DOMAIN h /\ End(h, b) = m /\ m > b /\ h[m].prev = b
      BY <1>1, LinkFacts
    <3>2. m # b /\ m # r /\ r # b
      BY <2>1, <2>2, <3>1 DEF Null
    <3> QED
      BY <3>1, <3>2
  <2>4. g = [c \in DOMAIN h \cup {r} |->
                 IF c = r THEN [size |-> h[b].size - n - Header, next |-> m, prev |-> b, free |-> TRUE]
                 ELSE IF c = b THEN [h[b] EXCEPT !.size = n, !.next = r]
                 ELSE IF c = m THEN [h[c] EXCEPT !.prev = r]
                 ELSE h[c]]
    BY <1>3 DEF Split
  <2>5. DOMAIN g = DOMAIN h \cup {r}
    BY <2>4
  <2>6. /\ g[r].size = h[b].size - n - Header /\ g[r].next = m /\ g[r].prev = b /\ g[r].free = TRUE
        /\ g[r] \in BlockSet
    <3>1. g[r] = [size |-> h[b].size - n - Header, next |-> m, prev |-> b, free |-> TRUE]
      BY <2>4
    <3> HIDE DEF g, r, m
    <3> QED
      BY <2>1, <3>1 DEF BlockSet
  <2>7. /\ g[b].size = n /\ g[b].next = r /\ g[b].prev = h[b].prev /\ g[b].free = h[b].free
        /\ g[b] \in BlockSet
    <3>1. g[b] = [h[b] EXCEPT !.size = n, !.next = r]
      BY <2>3, <2>4
    <3>2. h[b] \in BlockSet
      BY <1>1 DEF Blocks
    <3>3. r \in Int /\ n \in Nat \ {0}
      BY <2>1
    <3> HIDE DEF g, r
    <3> QED
      BY <3>1, <3>2, <3>3 DEF BlockSet
  <2>8. ASSUME NEW c \in DOMAIN g, c # b, c # r
        PROVE  /\ c \in DOMAIN h
               /\ g[c].size = h[c].size /\ g[c].next = h[c].next /\ g[c].free = h[c].free
               /\ g[c].prev = IF c = m THEN r ELSE h[c].prev
               /\ g[c] \in BlockSet
    <3>1. c \in DOMAIN h /\ h[c] \in BlockSet
      BY <1>1, <2>5, <2>8 DEF Blocks
    <3>2. g[c] = IF c = m THEN [h[c] EXCEPT !.prev = r] ELSE h[c]
      BY <2>4, <2>5, <2>8
    <3> HIDE DEF g, r, m
    <3> QED
      BY <2>1, <3>1, <3>2 DEF BlockSet
  <2>9. Blocks(g)
    <3>1. \A c \in DOMAIN g : g[c] \in BlockSet
      BY <2>6, <2>7, <2>8
    <3>2. g \in [DOMAIN g -> BlockSet]
      <4>1. g = [c \in DOMAIN g |-> g[c]]
        BY <2>4, <2>5
      <4> HIDE DEF g
      <4> QED
        BY <3>1, <4>1
    <3> QED
      BY <1>1, <2>1, <2>5, <3>2 DEF Blocks
  <2>10. End(g, r) = End(h, b) /\ End(g, b) = r
    <3> HIDE DEF g
    <3>1. End(g, r) = r + Header + g[r].size /\ End(g, b) = b + Header + g[b].size
      BY DEF End
    <3>2. (b + Header + n) + Header + (h[b].size - n - Header) = b + Header + h[b].size
      BY <2>1, CutEnd
    <3>3. End(g, r) = End(h, b)
      <4>1. r + Header + g[r].size = (b + Header + n) + Header + (h[b].size - n - Header)
        BY <2>6
      <4> QED
        BY <2>1, <3>1, <3>2, <4>1
    <3>4. End(g, b) = r
      BY <2>7, <3>1
    <3> QED
      BY <3>3, <3>4
  <2>11. \A c \in DOMAIN g : c # b /\ c # r => End(g, c) = End(h, c)
    BY <2>8 DEF End
  <2>12. ASSUME NEW c \in DOMAIN g PROVE NextOK(g, c)
    <3>1. CASE c = r
      <4>1. CASE m = Null
        BY <2>3, <2>6, <2>10, <3>1, <4>1 DEF NextOK
      <4>2. CASE m # Null
        <5>1. m \in DOMAIN g /\ g[m].prev = r
          BY <2>3, <2>5, <2>8, <4>2
        <5> QED
          BY <2>3, <2>6, <2>10, <3>1, <4>2, <5>1 DEF NextOK
      <4> QED
        BY <4>1, <4>2
    <3>2. CASE c = b
      <4>1. r # Null /\ r \in DOMAIN g
        BY <2>1, <2>5 DEF Null
      <4> QED
        BY <2>6, <2>7, <2>10, <3>2, <4>1 DEF NextOK
    <3>3. CASE c # b /\ c # r
      <4>1. c \in DOMAIN h /\ g[c].next = h[c].next /\ End(g, c) = End(h, c)
        BY <2>8, <2>11, <3>3
      <4> DEFINE x == h[c].next
      <4>2. CASE x = Null
        <5>1. End(h, c) = HeapSize
          BY <1>1, <4>1, <4>2, LinkFacts
        <5> QED
          BY <4>1, <4>2, <5>1 DEF NextOK
      <4>3. CASE x # Null
        <5>1. x \in DOMAIN h /\ End(h, c) = x /\ h[x].prev = c
          BY <1>1, <4>1, <4>3, LinkFacts
        <5>2. x # r /\ x # m
          BY <2>2, <2>3, <3>3, <4>3, <5>1
        <5>3. x \in DOMAIN g /\ g[x].prev = c
          BY <2>5, <2>7, <2>8, <5>1, <5>2
        <5> QED
          BY <4>1, <4>3, <5>1, <5>3 DEF NextOK
      <4> QED
        BY <4>2, <4>3
    <3> QED
      BY <3>1, <3>2, <3>3
  <2>13. ASSUME NEW c \in DOMAIN g PROVE PrevOK(g, c)
    <3>1. CASE c = 0
      <4>1. c # m /\ c # r
        BY <2>1, <2>3, <3>1 DEF Null
      <4>2. c \in DOMAIN h /\ h[c].prev = Null
        <5>1. c \in DOMAIN h
          BY <2>5, <4>1
        <5> QED
          BY <1>1, <3>1, <5>1, LinkFacts
      <4> QED
        BY <2>7, <2>8, <3>1, <4>1, <4>2 DEF PrevOK
    <3>2. CASE c # 0 /\ c = r
      <4>1. b \in DOMAIN g /\ g[b].next = c /\ g[c].prev = b
        BY <2>5, <2>6, <2>7, <3>2
      <4> QED
        BY <3>2, <4>1 DEF PrevOK
    <3>3. CASE c # 0 /\ c = m
      <4>1. c # b /\ c # r /\ r \in DOMAIN g /\ g[r].next = c
        BY <2>3, <2>5, <2>6, <3>3
      <4>2. g[c].prev = r
        BY <2>8, <3>3, <4>1
      <4> QED
        BY <3>3, <4>1, <4>2 DEF PrevOK
    <3>4. CASE c # 0 /\ c # r /\ c # m
      <4> DEFINE p == h[c].prev
      <4>1. c \in DOMAIN h /\ g[c].prev = p
        BY <2>5, <2>7, <2>8, <3>4
      <4>2. p \in DOMAIN h /\ h[p].next = c
        BY <1>1, <3>4, <4>1, LinkFacts
      <4>3. p # b /\ p # r
        BY <2>2, <3>4, <4>2
      <4>4. p \in DOMAIN g /\ g[p].next = c
        BY <2>5, <2>8, <4>2, <4>3
      <4> QED
        BY <3>4, <4>1, <4>4 DEF PrevOK
    <3> QED
      BY <3>1, <3>2, <3>3, <3>4
  <2>14. \A c \in DOMAIN h : c \in Nat /\ End(h, c) \in Nat /\ End(h, c) > c
    BY <1>1, BlockFacts, HeaderIs
  <2>15. Apart(g)
    <3>1. ASSUME NEW c \in DOMAIN g PROVE End(g, c) <= HeapSize
      <4>1. CASE c = b
        <5>1. End(h, b) <= HeapSize /\ End(h, b) \in Nat /\ Header \in Nat /\ HeapSize \in Nat
          BY <1>1, <2>14, HeapAssumption DEF Apart
        <5> HIDE DEF g, r
        <5> QED
          BY <2>1, <2>10, <4>1, <5>1
      <4>2. CASE c = r
        BY <1>1, <2>10, <4>2 DEF Apart
      <4>3. CASE c # b /\ c # r
        BY <1>1, <2>8, <2>11, <4>3 DEF Apart
      <4> QED
        BY <4>1, <4>2, <4>3
    <3>2. ASSUME NEW c \in DOMAIN g, NEW d \in DOMAIN g, c < d PROVE End(g, c) <= d
      <4>1. CASE c # b /\ c # r /\ d # r
        BY <1>1, <2>5, <2>11, <3>2, <4>1 DEF Apart
      <4>2. CASE c # b /\ c # r /\ d = r
        <5>1. c \in DOMAIN h /\ c \in Nat /\ End(h, c) \in Nat /\ End(h, c) > c
          BY <2>5, <2>14, <4>2
        <5>2. b < c => End(h, b) <= c
          BY <1>1, <5>1 DEF Apart
        <5>3. c < b => End(h, c) <= b
          BY <1>1, <5>1 DEF Apart
        <5>4. End(g, c) = End(h, c) /\ Header \in Nat /\ End(h, b) \in Nat
          BY <2>11, <2>14, <4>2, HeaderIs
        <5> HIDE DEF g, r
        <5> QED
          BY <2>1, <3>2, <4>2, <5>1, <5>2, <5>3, <5>4
      <4>3. CASE c = b /\ d = r
        <5> HIDE DEF g, r
        <5> QED
          BY <2>1, <2>10, <4>3
      <4>4. CASE (c = b \/ c = r) /\ d # r
        <5>1. d \in DOMAIN h /\ d \in Nat
          BY <2>5, <2>14, <4>4
        <5>2. b < d
          <6> HIDE DEF g, r
          <6> QED
            BY <2>1, <3>2, <4>4, <5>1
        <5>3. End(h, b) <= d
          BY <1>1, <5>1, <5>2 DEF Apart
        <5>4. End(h, b) \in Nat /\ Header \in Nat
          BY <2>14, HeaderIs
        <5> HIDE DEF g, r
        <5> QED
          BY <2>1, <2>10, <4>4, <5>1, <5>3, <5>4
      <4>5. ~(c = r /\ d = r)
        BY <2>1, <3>2
      <4> QED
        BY <4>1, <4>2, <4>3, <4>4, <4>5
    <3> QED
      BY <3>1, <3>2 DEF Apart
  <2>16. Covers(g)
    <3> SUFFICES ASSUME NEW x \in 0 .. HeapSize - 1
                 PROVE  \E c \in DOMAIN g : c <= x /\ x < End(g, c)
      BY DEF Covers
    <3>1. PICK c \in DOMAIN h : c <= x /\ x < End(h, c)
      BY <1>1 DEF Covers
    <3>2. b \in DOMAIN g /\ r \in DOMAIN g
      BY <2>5
    <3>3. CASE c = b /\ x < r
      BY <2>10, <3>1, <3>2, <3>3
    <3>4. CASE c = b /\ ~(x < r)
      <4>1. r <= x
        BY <2>1, <3>4
      <4> QED
        BY <2>10, <3>1, <3>2, <3>4, <4>1
    <3>5. CASE c # b
      <4>1. c \in DOMAIN g /\ c # r
        BY <2>2, <2>5
      <4> QED
        BY <2>11, <3>1, <3>5, <4>1
    <3> QED
      BY <3>3, <3>4, <3>5
  <2>17. Stepped(g)
    <3> SUFFICES ASSUME NEW c \in DOMAIN g PROVE c % Unit = 0 /\ g[c].size % Unit = 0
      BY DEF Stepped
    <3>1. b % Unit = 0 /\ h[b].size % Unit = 0 /\ Header % Unit = 0 /\ Header \in Nat
      BY <1>1, HeapAssumption DEF Stepped
    <3>2. CASE c = r
      <4>1. b + Header \in Int /\ (b + Header) % Unit = 0
        BY <2>1, <3>1, MultipleSum
      <4>2. (b + Header + n) % Unit = 0
        BY <4>1, MultipleSum
      <4>3. h[b].size - n \in Int /\ (h[b].size - n) % Unit = 0
        BY <2>1, <3>1, MultipleDifference
      <4>4. (h[b].size - n - Header) % Unit = 0
        BY <3>1, <4>3, MultipleDifference
      <4> QED
        BY <2>6, <3>2, <4>2, <4>4
    <3>3. CASE c = b
      BY <2>7, <3>1, <3>3
    <3>4. CASE c # b /\ c # r
      BY <1>1, <2>8, <3>4 DEF Stepped
    <3> QED
      BY <3>2, <3>3, <3>4
  <2>18. Shape(g)
    BY <2>9, <2>12, <2>13, <2>15, <2>16, <2>17 DEF Shape, Linked
  <2>19. Used(g) = Used(h)
    BY <2>2, <2>5, <2>6, <2>7, <2>8 DEF Used
  <2>20. \A c \in DOMAIN h : c # b => g[c].size = h[c].size
    BY <2>2, <2>5, <2>8
  <2>21. g[b].size >= n
    BY <2>7
  <2>22. ASSUME NEW c \in DOMAIN g, c # b, g[c].next # b PROVE PairOK(g, c)
    <3>1. CASE c = r
      <4>1. CASE m = Null
        BY <2>6, <3>1, <4>1 DEF PairOK
      <4>2. CASE m # Null
        <5>1. ~h[m].free
          BY <4>2 DEF PairOK
        <5>2. g[m].free = h[m].free
          BY <2>3, <2>5, <2>8, <4>2
        <5> QED
          BY <2>6, <3>1, <5>1, <5>2 DEF PairOK
      <4> QED
        BY <4>1, <4>2
    <3>2. CASE c # r
      <4>1. c \in DOMAIN h /\ g[c].next = h[c].next /\ g[c].free = h[c].free
        BY <2>8, <2>22, <3>2
      <4>2. CASE h[c].next = Null
        BY <4>1, <4>2 DEF PairOK
      <4>3. CASE h[c].next # Null
        <5> DEFINE x == h[c].next
        <5>1. x \in DOMAIN h /\ x # b /\ x # r
          BY <1>1, <2>2, <2>22, <4>1, <4>3, LinkFacts
        <5>2. g[x].free = h[x].free
          BY <2>5, <2>8, <5>1
        <5>3. PairOK(h, c)
          BY <4>1
        <5> QED
          BY <4>1, <5>2, <5>3 DEF PairOK
      <4> QED
        BY <4>2, <4>3
    <3> QED
      BY <3>1, <3>2
  <2>23. b \in DOMAIN g /\ DOMAIN h \subseteq DOMAIN g
    BY <2>5
  <2> HIDE DEF g
  <2> QED
    BY <2>18, <2>19, <2>20, <2>21, <2>22, <2>23 DEF g
<1> QED
  BY <1>2, <1>3

-----------------------------------------------------------------------------
(* kfree()                                                                 *)

(* A merge at b mends the pair that starts at b, and harms only the one    *)
(* that ends there.                                                        *)
LEMMA MergePairs ==
    ASSUME NEW h, Shape(h), NEW b \in DOMAIN h,
           \A c \in DOMAIN h : c # b /\ h[c].next # b => PairOK(h, c)
    PROVE  \A c \in DOMAIN Merge(h, b) : Merge(h, b)[c].next # b => PairOK(Merge(h, b), c)
<1> DEFINE n == h[b].next
           g == Merge(h, b)
<1> SUFFICES ASSUME NEW c \in DOMAIN g, g[c].next # b PROVE PairOK(g, c)
  OBVIOUS
<1>1. Blocks(h) /\ Linked(h)
  BY DEF Shape
<1>2. CASE n = Null \/ ~h[n].free
  <2>1. g = h
    BY <1>2, MergeIdle
  <2>2. CASE c = b
    BY <1>2, <2>1, <2>2 DEF PairOK
  <2>3. CASE c # b
    BY <2>1, <2>3
  <2> QED
    BY <2>2, <2>3
<1>3. CASE n # Null /\ h[n].free
  <2>1. c \in DOMAIN h /\ g[c].free = h[c].free
    BY MergeShape
  <2>2. g[c].next # Null => g[g[c].next].free = h[g[c].next].free
    BY MergeShape
  <2>3. CASE c = b
    <3>1. /\ n \in DOMAIN h /\ n > b /\ b \in Nat /\ n \in Nat
          /\ h[n].next # Null => h[n].next > n /\ h[n].next \in DOMAIN h
      BY <1>1, <1>3, LinkFacts, BlockFacts
    <3>2. n # b /\ h[n].next # b
      <4>1. h[n].next = Null \/ h[n].next \in Nat
        BY <1>1, <3>1, BlockFacts
      <4> HIDE DEF n
      <4> QED
        BY <3>1, <4>1 DEF Null
    <3>3. PairOK(h, n)
      BY <3>1, <3>2
    <3>4. g[b].next = h[n].next
      <4>1. h[b] \in BlockSet
        BY <1>1 DEF Blocks
      <4>2. g[b] = [h[b] EXCEPT !.size = @ + Header + h[n].size, !.next = h[n].next]
        BY <1>3, <3>2 DEF Merge
      <4> HIDE DEF g, n
      <4> QED
        BY <4>1, <4>2 DEF BlockSet
    <3> QED
      BY <1>3, <2>2, <2>3, <3>3, <3>4 DEF PairOK
  <2>4. CASE c # b
    <3>1. g[c].next = h[c].next
      BY <2>4, MergeShape
    <3>2. PairOK(h, c)
      BY <2>1, <2>4, <3>1
    <3> QED
      BY <2>1, <2>2, <3>1, <3>2 DEF PairOK
  <2> QED
    BY <2>3, <2>4
<1> QED
  BY <1>2, <1>3

(* After kfree() the list is whole, no two neighbours are free, and of the *)
(* used blocks only the one that was freed is gone.                        *)
LEMMA FreedShape ==
    ASSUME NEW h, Shape(h), NEW b \in DOMAIN h, ~h[b].free,
           \A c \in DOMAIN h : PairOK(h, c)
    PROVE  LET k == Freed(h, b)
           IN  /\ Shape(k)
               /\ \A c \in DOMAIN k : PairOK(k, c)
               /\ Used(k) = Used(h) \ {b}
               /\ \A c \in Used(k) : k[c].size = h[c].size
<1> DEFINE f == [h EXCEPT ![b].free = TRUE]
           g == Merge(f, b)
           p == g[b].prev
<1>1. /\ Shape(f) /\ DOMAIN f = DOMAIN h
      /\ \A c \in DOMAIN h : /\ f[c].next = h[c].next /\ f[c].size = h[c].size
                             /\ f[c].free = IF c = b THEN TRUE ELSE h[c].free
  BY ZenonT(30), FlagShape
<1>2. Blocks(h) /\ Linked(h)
  BY DEF Shape
<1>3. \A c \in DOMAIN f : c # b /\ f[c].next # b => PairOK(f, c)
  <2> SUFFICES ASSUME NEW c \in DOMAIN h, c # b, h[c].next # b PROVE PairOK(f, c)
    BY <1>1
  <2>1. h[c].next # Null => h[c].next \in DOMAIN h
    BY <1>2, LinkFacts
  <2>2. PairOK(h, c)
    OBVIOUS
  <2> HIDE DEF f
  <2> QED
    BY <1>1, <2>1, <2>2 DEF PairOK
<1>4. /\ Shape(g) /\ b \in DOMAIN g /\ Used(g) = Used(f)
      /\ \A c \in DOMAIN g : c # b => g[c].size = f[c].size
  <2>1. b \in DOMAIN f
    BY <1>1
  <2> HIDE DEF f
  <2> QED
    BY <1>1, <2>1, MergeShape
<1>5. \A c \in DOMAIN g : g[c].next # b => PairOK(g, c)
  BY <1>1, <1>3, MergePairs
<1>6. Used(f) = Used(h) \ {b}
  BY <1>1 DEF Used
<1> HIDE DEF f
<1>7. \A c \in Used(g) : c \in DOMAIN g /\ g[c].size = h[c].size
  <2> SUFFICES ASSUME NEW c \in Used(g) PROVE c \in DOMAIN g /\ g[c].size = h[c].size
    OBVIOUS
  <2>1. c \in DOMAIN g /\ c # b /\ c \in DOMAIN h
    BY <1>4, <1>6 DEF Used
  <2> QED
    BY <1>1, <1>4, <2>1
<1> HIDE DEF g
<1>8. Blocks(g) /\ Linked(g)
  BY <1>4 DEF Shape
<1>9. \A c \in DOMAIN g : g[c].next = b => c = p /\ p # Null
  <2> SUFFICES ASSUME NEW c \in DOMAIN g, g[c].next = b PROVE c = p /\ p # Null
    OBVIOUS
  <2>1. b \in Nat /\ c \in Nat
    BY <1>4, <1>8, BlockFacts
  <2>2. g[g[c].next].prev = c
    BY <1>8, <2>1, LinkFacts DEF Null
  <2> QED
    BY <2>1, <2>2 DEF Null
<1>10. Freed(h, b) = IF p = Null THEN g ELSE IF g[p].free THEN Merge(g, p) ELSE g
  BY DEF Freed, f, g
<1>11. CASE p = Null \/ ~g[p].free
  <2>1. Freed(h, b) = g
    BY <1>10, <1>11
  <2>2. ASSUME NEW c \in DOMAIN g PROVE PairOK(g, c)
    <3>1. CASE g[c].next = b
      BY <1>9, <1>11, <3>1 DEF PairOK
    <3> QED
      BY <1>5, <3>1
  <2> QED
    BY <1>4, <1>6, <1>7, <2>1, <2>2
<1>12. CASE p # Null /\ g[p].free
  <2> DEFINE k == Merge(g, p)
  <2>1. Freed(h, b) = k
    BY <1>10, <1>12
  <2>2. p \in DOMAIN g /\ g[p].next = b /\ p < b /\ b \in Nat
    BY <1>4, <1>8, <1>12, LinkFacts, BlockFacts
  <2>3. \A c \in DOMAIN g : c # p => PairOK(g, c)
    BY <1>5, <1>9
  <2>4. \A c \in DOMAIN k : k[c].next # p => PairOK(k, c)
    BY <1>4, <2>2, <2>3, MergePairs
  <2>5. /\ Shape(k) /\ p \in DOMAIN k /\ Used(k) = Used(g) /\ DOMAIN k \subseteq DOMAIN g
        /\ \A c \in DOMAIN k : /\ k[c].free = g[c].free
                               /\ c # p => k[c].size = g[c].size
                               /\ c # p => k[c].next = g[c].next
    BY <1>4, <2>2, MergeShape
  <2> HIDE DEF k
  <2>6. ASSUME NEW c \in DOMAIN k PROVE PairOK(k, c)
    <3>1. CASE k[c].next = p
      <4>1. Blocks(k) /\ Linked(k)
        BY <2>5 DEF Shape
      <4>2. k[c].next > c /\ c \in Nat
        BY <1>12, <3>1, <4>1, LinkFacts, BlockFacts
      <4>3. c # p
        <5>1. p \in Nat
          BY <2>5, <4>1, BlockFacts
        <5> QED
          BY <3>1, <4>2, <5>1
      <4>4. PairOK(g, c) /\ g[c].next = p
        BY <2>3, <2>5, <3>1, <4>3
      <4> QED
        BY <2>5, <3>1, <4>4 DEF PairOK
    <3> QED
      BY <2>4, <3>1
  <2>7. \A c \in Used(k) : k[c].size = h[c].size
    <3> SUFFICES ASSUME NEW c \in Used(k) PROVE k[c].size = h[c].size
      OBVIOUS
    <3>1. c \in DOMAIN k /\ c \in Used(g) /\ c # p
      BY <1>12, <2>5 DEF Used
    <3> QED
      BY <1>7, <2>5, <3>1
  <2> QED
    BY <1>4, <1>6, <2>1, <2>5, <2>6, <2>7
<1> QED
  BY <1>11, <1>12

-----------------------------------------------------------------------------
(* The invariant.                                                          *)

LEMMA InitInvariant == Init => IInv
<1> SUFFICES ASSUME Init PROVE IInv
  OBVIOUS
<1>1. HeapSize - Header \in Nat \ {0} /\ HeapSize \in Nat /\ Header \in Nat
  BY HeapAssumption
<1>2. /\ block = [b \in {0} |-> [size |-> HeapSize - Header, next |-> Null, prev |-> Null, free |-> TRUE]]
      /\ held = [p \in {} |-> 0] /\ wanted = 0
  BY DEF Init
<1>3. /\ DOMAIN block = {0}
      /\ block[0] = [size |-> HeapSize - Header, next |-> Null, prev |-> Null, free |-> TRUE]
  BY <1>2
<1>4. Blocks(block)
  <2>1. block[0] \in BlockSet
    BY <1>1, <1>3 DEF BlockSet, Null
  <2>2. block \in [DOMAIN block -> BlockSet]
    <3>1. block = [b \in DOMAIN block |-> block[b]]
      BY <1>2, <1>3
    <3> QED
      BY <1>3, <2>1, <3>1
  <2> QED
    BY <1>3, <2>2 DEF Blocks
<1>5. End(block, 0) = HeapSize
  BY <1>1, <1>3 DEF End
<1>6. Linked(block)
  BY <1>3, <1>5 DEF Linked, NextOK, PrevOK
<1>7. Apart(block) /\ Covers(block)
  BY <1>1, <1>3, <1>5 DEF Apart, Covers
<1>8. Stepped(block)
  <2>1. (HeapSize - Header) % Unit = 0
    <3>1. HeapSize \in Int /\ Header \in Int /\ HeapSize % Unit = 0 /\ Header % Unit = 0
      BY HeapAssumption
    <3> QED
      BY <3>1, MultipleDifference
  <2>2. 0 % Unit = 0
    BY UnitIs
  <2> QED
    BY <1>3, <2>1, <2>2 DEF Stepped
<1>9. \A b \in DOMAIN block : PairOK(block, b)
  BY <1>3 DEF PairOK
<1>10. Holding(block, held)
  <2>1. Used(block) = {} /\ DOMAIN held = {}
    BY <1>2, <1>3 DEF Used
  <2> QED
    BY <1>2, <2>1 DEF Holding
<1> QED
  BY <1>2, <1>4, <1>6, <1>7, <1>8, <1>9, <1>10 DEF IInv, Shape

LEMMA KmallocKeeps ==
    ASSUME IInv, NEW n \in Requests, Kmalloc(n)
    PROVE  /\ IInv'
           /\ \E b \in DOMAIN block :
                 /\ block[b].free /\ b \in DOMAIN block' /\ block'[b].size >= n
                 /\ b + Header \notin DOMAIN held
                 /\ held' = [p \in DOMAIN held \cup {b + Header} |-> IF p = b + Header THEN n ELSE held[p]]
<1> DEFINE s == SizeFor(n)
<1>1. n \in Nat /\ s \in Nat \ {0} /\ s >= n /\ s % Unit = 0
  BY HeapAssumption, SizeForFacts
<1>2. PICK b \in FirstFit(s) :
        /\ wanted = 0
        /\ block' = [Split(block, b, s) EXCEPT ![b].free = FALSE]
        /\ held' = [p \in DOMAIN held \cup {b + Header} |-> IF p = b + Header THEN n ELSE held[p]]
        /\ wanted' = wanted
  BY DEF Kmalloc
<1> DEFINE h == Split(block, b, s)
<1> HIDE DEF s
<1>3. b \in DOMAIN block /\ block[b].free /\ block[b].size >= s
  BY <1>2 DEF FirstFit, Fitting
<1>4. Shape(block) /\ Blocks(block) /\ \A c \in DOMAIN block : PairOK(block, c)
  BY DEF IInv, Shape
<1>5. /\ Shape(h) /\ b \in DOMAIN h /\ DOMAIN block \subseteq DOMAIN h
      /\ Used(h) = Used(block)
      /\ \A c \in DOMAIN block : c # b => h[c].size = block[c].size
      /\ h[b].size >= s
      /\ \A c \in DOMAIN h : c = b \/ h[c].next = b \/ PairOK(h, c)
  BY <1>1, <1>3, <1>4, SplitShape
<1>6. block' = [h EXCEPT ![b].free = FALSE]
  BY <1>2
<1> HIDE DEF h
<1>7. /\ Shape(block') /\ DOMAIN block' = DOMAIN h
      /\ \A c \in DOMAIN h : /\ block'[c].next = h[c].next /\ block'[c].size = h[c].size
                             /\ block'[c].free = IF c = b THEN FALSE ELSE h[c].free
  <2>1. PICK f \in BOOLEAN : f = FALSE
    OBVIOUS
  <2> DEFINE g == [h EXCEPT ![b].free = f]
  <2>2. /\ Shape(g) /\ DOMAIN g = DOMAIN h
        /\ \A c \in DOMAIN h : /\ g[c].next = h[c].next /\ g[c].size = h[c].size
                               /\ g[c].free = IF c = b THEN f ELSE h[c].free
    BY <1>5, FlagShape
  <2>3. block' = g
    BY <1>6, <2>1
  <2> HIDE DEF g
  <2> QED
    BY <2>1, <2>2, <2>3
<1>8. ASSUME NEW c \in DOMAIN block' PROVE PairOK(block', c)
  <2>1. c \in DOMAIN h /\ Linked(h) /\ Blocks(h)
    BY <1>5, <1>7 DEF Shape
  <2>2. h[c].next # Null => h[c].next \in DOMAIN h
    BY <2>1, LinkFacts
  <2>3. CASE c = b
    BY <1>7, <2>1, <2>3 DEF PairOK
  <2>4. CASE c # b /\ h[c].next = b
    BY <1>5, <1>7, <2>1, <2>4 DEF PairOK
  <2>5. CASE c # b /\ h[c].next # b
    <3>1. PairOK(h, c)
      BY <1>5, <2>1, <2>5
    <3> QED
      BY <1>7, <2>1, <2>2, <2>5, <3>1 DEF PairOK
  <2> QED
    BY <2>3, <2>4, <2>5
<1>9. Used(block') = Used(block) \cup {b}
  <2>1. Used(block') = Used(h) \cup {b}
    BY <1>5, <1>7 DEF Used
  <2> QED
    BY <1>5, <2>1
<1>10. block'[b].size >= n
  <2>1. h[b].size \in Nat
    BY <1>5, BlockFacts DEF Shape
  <2>2. block'[b].size = h[b].size
    BY <1>5, <1>7
  <2>3. n \in Nat /\ s \in Nat /\ s >= n /\ h[b].size >= s
    BY <1>1, <1>5
  <2> QED
    BY <2>1, <2>2, <2>3
<1>11. b \in Nat /\ Header \in Nat
  BY <1>3, <1>4, BlockFacts, HeaderIs
<1>12. b + Header \notin DOMAIN held
  <2> SUFFICES ASSUME b + Header \in DOMAIN held PROVE FALSE
    OBVIOUS
  <2>1. (b + Header) - Header = b
    BY <1>11
  <2>2. b \in Used(block)
    BY <2>1 DEF IInv, Holding
  <2> QED
    BY <1>3, <2>2 DEF Used
<1>13. Holding(block', held')
  <2>1. /\ DOMAIN held \subseteq Nat /\ held \in [DOMAIN held -> Nat]
        /\ Used(block) = {p - Header : p \in DOMAIN held}
        /\ \A p \in DOMAIN held : block[p - Header].size >= held[p]
    BY DEF IInv, Holding
  <2>2. DOMAIN held' = DOMAIN held \cup {b + Header} /\ b + Header \in Nat /\ (b + Header) - Header = b
    BY <1>2, <1>11
  <2>3. held'[b + Header] = n /\ \A p \in DOMAIN held : held'[p] = held[p]
    BY <1>2, <1>12
  <2>4. held' \in [DOMAIN held' -> Nat]
    BY <1>1, <1>2, <2>1
  <2>5. Used(block') = {p - Header : p \in DOMAIN held'}
    BY <1>9, <2>1, <2>2
  <2>6. ASSUME NEW p \in DOMAIN held' PROVE block'[p - Header].size >= held'[p]
    <3>1. CASE p = b + Header
      BY <1>10, <2>2, <2>3, <3>1
    <3>2. CASE p # b + Header
      <4>1. p \in DOMAIN held /\ p - Header \in Used(block)
        BY <2>1, <2>2, <3>2
      <4>2. p - Header \in DOMAIN block /\ p - Header # b
        BY <1>3, <4>1 DEF Used
      <4>3. block'[p - Header].size = block[p - Header].size
        BY <1>5, <1>7, <4>2
      <4> QED
        BY <2>1, <2>3, <4>1, <4>3
    <3> QED
      BY <3>1, <3>2
  <2> QED
    BY <2>1, <2>2, <2>4, <2>5, <2>6 DEF Holding
<1>14. IInv'
  BY <1>2, <1>7, <1>8, <1>13 DEF IInv
<1> QED
  BY <1>2, <1>3, <1>5, <1>7, <1>10, <1>12, <1>14

LEMMA KfreeKeeps ==
    ASSUME IInv, NEW p \in DOMAIN held, Kfree(p)
    PROVE  IInv'
<1> DEFINE b == p - Header
<1>1. /\ wanted = 0 /\ wanted' = wanted
      /\ block' = Freed(block, b)
      /\ held' = [q \in DOMAIN held \ {p} |-> held[q]]
  BY DEF Kfree
<1>2. /\ Shape(block) /\ \A c \in DOMAIN block : PairOK(block, c)
      /\ DOMAIN held \subseteq Nat /\ held \in [DOMAIN held -> Nat]
      /\ Used(block) = {q - Header : q \in DOMAIN held}
      /\ \A q \in DOMAIN held : block[q - Header].size >= held[q]
  BY DEF IInv, Holding
<1>3. b \in DOMAIN block /\ ~block[b].free
  BY <1>2 DEF Used
<1>4. /\ Shape(block')
      /\ \A c \in DOMAIN block' : PairOK(block', c)
      /\ Used(block') = Used(block) \ {b}
      /\ \A c \in Used(block') : block'[c].size = block[c].size
  BY <1>1, <1>2, <1>3, FreedShape
<1>5. DOMAIN held' = DOMAIN held \ {p} /\ \A q \in DOMAIN held' : held'[q] = held[q]
  BY <1>1
<1>6. held' \in [DOMAIN held' -> Nat]
  BY <1>1, <1>2
<1>7. \A q \in DOMAIN held : q # p => q - Header # b
  BY <1>2, HeaderIs
<1>8. Used(block') = {q - Header : q \in DOMAIN held'}
  <2> HIDE DEF b
  <2>1. \A c \in Used(block') : \E q \in DOMAIN held' : c = q - Header
    BY <1>2, <1>4, <1>5 DEF b
  <2>2. \A q \in DOMAIN held' : q - Header \in Used(block')
    BY <1>2, <1>4, <1>5, <1>7
  <2> QED
    BY <2>1, <2>2
<1>9. \A q \in DOMAIN held' : block'[q - Header].size >= held'[q]
  <2> SUFFICES ASSUME NEW q \in DOMAIN held' PROVE block'[q - Header].size >= held'[q]
    OBVIOUS
  <2>1. q - Header \in Used(block')
    BY <1>8
  <2> QED
    BY <1>2, <1>4, <1>5, <2>1
<1>10. Holding(block', held')
  BY <1>2, <1>5, <1>6, <1>8, <1>9 DEF Holding
<1> QED
  BY <1>1, <1>4, <1>10 DEF IInv

LEMMA StepInvariant == IInv /\ [Next]_vars => IInv'
<1> SUFFICES ASSUME IInv, [Next]_vars PROVE IInv'
  OBVIOUS
<1>1. ASSUME NEW n \in Requests, Kmalloc(n) PROVE IInv'
  BY <1>1, KmallocKeeps
<1>2. ASSUME NEW n \in Requests, OutOfMemory(n) PROVE IInv'
  <2>1. SizeFor(n) \in Nat
    BY HeapAssumption, SizeForFacts
  <2> QED
    BY <1>2, <2>1 DEF OutOfMemory, IInv, Fitting
<1>3. ASSUME NEW p \in DOMAIN held, Kfree(p) PROVE IInv'
  BY <1>3, KfreeKeeps
<1>4. CASE Halted \/ UNCHANGED vars
  BY <1>4 DEF Halted, vars, IInv, Fitting
<1> QED
  BY <1>1, <1>2, <1>3, <1>4 DEF Next

(* In every reachable state the list is whole, no two free blocks are      *)
(* neighbours, and the used blocks are what the callers hold.              *)
THEOREM Invariant == Spec => []IInv
BY InitInvariant, StepInvariant, PTL DEF Spec

-----------------------------------------------------------------------------
(* What follows from it.                                                   *)

\* The list tiles the heap in every reachable state (split_block,
\* merge_with_next, kfree).
THEOREM HeapTiled == Spec => []Tiled
<1>1. IInv => Tiled
  <2> SUFFICES ASSUME IInv PROVE Tiled
    OBVIOUS
  <2>1. Blocks(block) /\ Linked(block)
    BY DEF IInv, Shape
  <2>2. ASSUME NEW b \in DOMAIN block
        PROVE  block[b].size \in Nat \ {0} /\ NextOK(block, b) /\ PrevOK(block, b)
    BY <2>1, BlockFacts DEF Linked
  <2> QED
    BY <2>1, <2>2 DEF Tiled, Blocks, NextOK, PrevOK
<1> QED
  BY <1>1, Invariant, PTL

\* Every pointer that is held has a used block with the room that was asked
\* for, at a multiple of the alignment (kmalloc, kfree).
THEOREM HeapHeldFits == Spec => []HeldFits
<1>1. IInv => HeldFits
  <2> SUFFICES ASSUME IInv PROVE HeldFits
    OBVIOUS
  <2>1. /\ DOMAIN held \subseteq Nat
        /\ Used(block) = {p - Header : p \in DOMAIN held}
        /\ \A p \in DOMAIN held : block[p - Header].size >= held[p]
    BY DEF IInv, Holding
  <2>2. ASSUME NEW p \in DOMAIN held PROVE p % Unit = 0
    <3>1. p - Header \in DOMAIN block
      BY <2>1 DEF Used
    <3>2. (p - Header) % Unit = 0
      BY <3>1 DEF IInv, Shape, Stepped
    <3>3. p \in Int /\ Header \in Int /\ Header % Unit = 0
      BY <2>1, HeapAssumption
    <3>4. p - Header \in Int /\ (p - Header) + Header = p
      BY <3>3
    <3>5. ((p - Header) + Header) % Unit = 0
      BY <3>2, <3>3, <3>4, MultipleSum
    <3> QED
      BY <3>4, <3>5
  <2> QED
    BY <2>1, <2>2 DEF HeldFits, Used
<1> QED
  BY <1>1, Invariant, PTL

\* The list of blocks and the pointers handed out agree in every reachable
\* state, for every sequence of requests (kmalloc, kfree).
THEOREM HeapStaysSound == Spec => []HeapSound
BY HeapTiled, HeapHeldFits, PTL DEF HeapSound

\* The kernel gives up for want of memory only when no gap between the used
\* blocks has the room (kmalloc, kfree).
THEOREM HeapPanicJustified == Spec => []PanicJustified
<1>1. IInv => PanicJustified
  <2> SUFFICES ASSUME IInv, wanted # 0,
                      NEW a \in 0 .. HeapSize - Header - wanted,
                      \A b \in DOMAIN block :
                          block[b].free \/ End(block, b) <= a \/ a + Header + wanted <= b
               PROVE  FALSE
    BY DEF PanicJustified
  <2>1. /\ Blocks(block) /\ Linked(block) /\ Covers(block)
        /\ \A b \in DOMAIN block : PairOK(block, b)
        /\ wanted \in Nat /\ Fitting(wanted) = {}
    BY DEF IInv, Shape
  <2>2. /\ HeapSize \in Nat /\ Header \in Nat /\ Header > 0 /\ wanted > 0
        /\ a \in Nat /\ a <= HeapSize - 1 /\ a + Header + wanted <= HeapSize
    BY <2>1, HeapAssumption
  <2>3. PICK b \in DOMAIN block : b <= a /\ a < End(block, b)
    BY <2>1, <2>2 DEF Covers
  <2>4. /\ b \in Nat /\ block[b].size \in Nat
        /\ End(block, b) = b + Header + block[b].size /\ End(block, b) \in Nat
    BY <2>1, BlockFacts
  <2>5. block[b].free
    BY <2>1, <2>2, <2>3, <2>4
  <2>6. CASE End(block, b) >= a + Header + wanted
    <3>1. block[b].size >= wanted
      BY <2>1, <2>2, <2>3, <2>4, <2>6
    <3> QED
      BY <2>1, <2>5, <3>1 DEF Fitting
  <2>7. CASE End(block, b) < a + Header + wanted
    <3> DEFINE c == block[b].next
    <3>1. c # Null
      <4>1. c = Null => End(block, b) = HeapSize
        BY <2>1, LinkFacts
      <4> QED
        BY <2>1, <2>2, <2>4, <2>7, <4>1
    <3>2. c \in DOMAIN block /\ End(block, b) = c
      BY <2>1, <3>1, LinkFacts
    <3>3. ~block[c].free
      BY <2>1, <2>5, <3>1 DEF PairOK
    <3>4. c \in Nat /\ End(block, c) \in Nat /\ End(block, c) > c + Header
      BY <2>1, <3>2, BlockFacts
    <3>5. End(block, c) <= a \/ a + Header + wanted <= c
      BY <3>2, <3>3
    <3> HIDE DEF c
    <3> QED
      BY <2>1, <2>2, <2>3, <2>4, <2>7, <3>2, <3>4, <3>5
  <2> QED
    BY <2>1, <2>2, <2>4, <2>6, <2>7
<1> QED
  BY <1>1, Invariant, PTL

LEMMA KmallocAllocates ==
    ASSUME IInv, NEW n \in Requests, Kmalloc(n)
    PROVE  Promise!Alloc(n)
<1>1. IInv'
  BY KmallocKeeps
<1>2. PICK b \in DOMAIN block :
         /\ block[b].free /\ b \in DOMAIN block' /\ block'[b].size >= n
         /\ b + Header \notin DOMAIN held
         /\ held' = [p \in DOMAIN held \cup {b + Header} |-> IF p = b + Header THEN n ELSE held[p]]
  BY KmallocKeeps
<1> DEFINE p == b + Header
<1>3. Blocks(block') /\ Apart(block')
  BY <1>1 DEF IInv, Shape
<1>4. /\ DOMAIN held \subseteq Nat /\ held \in [DOMAIN held -> Nat]
      /\ Used(block) = {q - Header : q \in DOMAIN held}
  BY DEF IInv, Holding
<1>5. /\ Used(block') = {q - Header : q \in DOMAIN held'}
      /\ \A q \in DOMAIN held' : block'[q - Header].size >= held'[q]
  BY <1>1 DEF IInv, Holding
<1>6. /\ b \in Nat /\ block'[b].size \in Nat /\ End(block', b) = b + Header + block'[b].size
  BY <1>2, <1>3, BlockFacts
<1>7. n \in Nat /\ Header \in Nat /\ HeapSize \in Nat
  BY HeapAssumption
<1>8. p \in (0 .. HeapSize - n) \ DOMAIN held
  <2>1. End(block', b) <= HeapSize
    BY <1>2, <1>3 DEF Apart
  <2>2. p + n <= HeapSize /\ p \in Nat
    BY <1>2, <1>6, <1>7, <2>1
  <2> HIDE DEF p
  <2>3. p \notin DOMAIN held
    BY <1>2 DEF p
  <2> QED
    BY <1>7, <2>2, <2>3
<1>9. ASSUME NEW q \in DOMAIN held PROVE p + n <= q \/ q + held[q] <= p
  <2> DEFINE c == q - Header
  <2>1. c \in Used(block) /\ c # b
    BY <1>2, <1>4 DEF Used
  <2>2. q \in DOMAIN held' /\ held'[q] = held[q]
    BY <1>2
  <2>3. c \in DOMAIN block' /\ block'[c].size >= held[q]
    BY <1>5, <2>2 DEF Used
  <2>4. c \in Nat /\ block'[c].size \in Nat /\ End(block', c) = c + Header + block'[c].size
    BY <1>3, <2>3, BlockFacts
  <2>5. q \in Nat /\ held[q] \in Nat /\ q = c + Header
    BY <1>4, <1>7
  <2>6. b < c => End(block', b) <= c
    BY <1>2, <1>3, <2>3 DEF Apart
  <2>7. c < b => End(block', c) <= b
    BY <1>2, <1>3, <2>3 DEF Apart
  <2> HIDE DEF c
  <2> QED
    BY <1>2, <1>6, <1>7, <2>1, <2>3, <2>4, <2>5, <2>6, <2>7
<1>10. held' = [q \in DOMAIN held \cup {p} |-> IF q = p THEN n ELSE held[q]]
  BY <1>2
<1> HIDE DEF p
<1> QED
  BY <1>8, <1>9, <1>10 DEF Promise!Alloc

\* Every step of the heap is an allocation, a release or nothing to those who
\* use it: what is handed out overlaps nothing that is held (kmalloc, kfree).
THEOREM HeapIsArena == Spec => IsArena
<1>1. Init => Promise!Init
  BY DEF Init, Promise!Init
<1>2. IInv /\ [Next]_vars => [Promise!Next]_held
  <2> SUFFICES ASSUME IInv, [Next]_vars PROVE [Promise!Next]_held
    OBVIOUS
  <2>1. ASSUME NEW n \in Requests, Kmalloc(n) PROVE Promise!Next
    BY <2>1, KmallocAllocates DEF Promise!Next
  <2>2. ASSUME NEW n \in Requests, OutOfMemory(n) PROVE UNCHANGED held
    BY <2>2 DEF OutOfMemory
  <2>3. ASSUME NEW p \in DOMAIN held, Kfree(p) PROVE Promise!Next
    BY <2>3 DEF Kfree, Promise!Next, Promise!Release
  <2>4. CASE Halted \/ UNCHANGED vars
    BY <2>4 DEF Halted, vars
  <2> QED
    BY <2>1, <2>2, <2>3, <2>4 DEF Next
<1> QED
  BY <1>1, <1>2, Invariant, PTL DEF Spec, IsArena, Promise!Spec

-----------------------------------------------------------------------------
(* The sum over the list.                                                  *)

LEMMA LeastElement ==
    ASSUME NEW T, T \subseteq Nat, T # {}
    PROVE  \E x \in T : \A y \in T : x <= y
<1> DEFINE R == {p \in Nat \X Nat : p[1] < p[2]}
<1>1. R = OpToRel(<, Nat)
  BY DEF OpToRel
<1>2. IsWellFoundedOn(R, Nat)
  BY <1>1, NatLessThanWellFounded
<1>3. PICK x \in T : \A y \in T : ~(<<y, x>> \in R)
  <2> HIDE DEF R
  <2> QED
    BY <1>2, WFMin
<1>4. \A y \in T : ~(y < x)
  <2> TAKE y \in T
  <2>1. <<y, x>> \in Nat \X Nat
    OBVIOUS
  <2> QED
    BY <1>3, <2>1
<1> QED
  BY <1>4

\* s[b] is the size of the used blocks of h from b on.
Share(h, b) == IF h[b].free THEN 0 ELSE h[b].size
Counts(h, s) == /\ s \in [DOMAIN h \cup {Null} -> Int]
                /\ s[Null] = 0
                /\ \A b \in DOMAIN h : s[b] = Share(h, b) + s[h[b].next]

(* A walk along the list comes to its end, so that there is one sum.       *)
LEMMA CountsUnique ==
    ASSUME NEW h, Shape(h), NEW s, Counts(h, s), NEW r,
           r = [b \in DOMAIN h \cup {Null} |-> IF b = Null THEN 0 ELSE Share(h, b) + r[h[b].next]]
    PROVE  r = s
<1> DEFINE T == {n \in 0 .. HeapSize : HeapSize - n \in DOMAIN h /\ r[HeapSize - n] # s[HeapSize - n]}
<1>1. Blocks(h) /\ Linked(h) /\ Apart(h) /\ HeapSize \in Nat /\ Header \in Nat
  BY HeapAssumption DEF Shape
<1>2. T = {}
  <2> SUFFICES ASSUME T # {} PROVE FALSE
    OBVIOUS
  <2>1. PICK n \in T : \A m \in T : n <= m
    <3>1. T \subseteq Nat
      OBVIOUS
    <3> HIDE DEF T
    <3> QED
      BY <3>1, LeastElement
  <2> DEFINE b == HeapSize - n
             c == h[b].next
  <2>2. b \in DOMAIN h /\ r[b] # s[b]
    OBVIOUS
  <2>3. c = Null \/ (c \in DOMAIN h /\ c > b /\ c <= HeapSize /\ c \in Nat)
    <3>1. c # Null => c \in DOMAIN h /\ c > b
      BY <1>1, <2>2, LinkFacts
    <3>2. c \in DOMAIN h => End(h, c) <= HeapSize /\ c \in Nat /\ End(h, c) > c + Header /\ End(h, c) \in Nat
      BY <1>1, BlockFacts DEF Apart
    <3> HIDE DEF b, c
    <3> QED
      BY <1>1, <3>1, <3>2
  <2>4. b \in Nat
    BY <1>1, <2>2, BlockFacts
  <2>5. r[b] = Share(h, b) + r[c] /\ s[b] = Share(h, b) + s[c]
    <3>1. b # Null
      BY <2>4 DEF Null
    <3> QED
      BY <2>2, <3>1 DEF Counts
  <2>6. r[c] # s[c]
    BY <2>2, <2>5
  <2>7. r[Null] = 0 /\ s[Null] = 0
    BY DEF Counts
  <2>8. c \in DOMAIN h /\ c > b /\ c <= HeapSize /\ c \in Nat
    BY <2>3, <2>6, <2>7
  <2> HIDE DEF c
  <2>9. HeapSize - c \in T
    <3>1. HeapSize - (HeapSize - c) = c /\ HeapSize - c \in 0 .. HeapSize
      BY <1>1, <2>8
    <3> QED
      BY <2>6, <2>8, <3>1
  <2>10. n <= HeapSize - c /\ n \in Int
    BY <2>1, <2>9
  <2> QED
    BY <1>1, <2>8, <2>10
<1>3. \A b \in DOMAIN h : r[b] = s[b]
  <2> SUFFICES ASSUME NEW b \in DOMAIN h PROVE r[b] = s[b]
    OBVIOUS
  <2>1. b \in Nat /\ End(h, b) <= HeapSize /\ End(h, b) \in Nat /\ End(h, b) > b + Header
    BY <1>1, BlockFacts DEF Apart
  <2>2. HeapSize - b \in 0 .. HeapSize /\ HeapSize - (HeapSize - b) = b
    BY <1>1, <2>1
  <2> QED
    BY <1>2, <2>2
<1>4. r[Null] = s[Null]
  BY DEF Counts
<1> QED
  BY <1>3, <1>4 DEF Counts

LEMMA UsedFromIs ==
    ASSUME Shape(block), NEW s, Counts(block, s)
    PROVE  UsedFrom = s
<1> DEFINE F(r) == [b \in DOMAIN block \cup {Null} |-> IF b = Null THEN 0 ELSE Share(block, b) + r[block[b].next]]
<1>1. s = F(s)
  <2>1. Null \notin DOMAIN block
    BY DEF Shape, Blocks, Null
  <2> QED
    BY <2>1 DEF Counts
<1>2. UsedFrom = CHOOSE r : r = F(r)
  BY DEF UsedFrom, Share
<1>3. UsedFrom = F(UsedFrom)
  BY <1>1, <1>2
<1> QED
  BY <1>3, CountsUnique

(* The sums after a change of a flag, a split and a merge.                 *)
LEMMA FlagCounts ==
    ASSUME NEW h, Shape(h), NEW s, Counts(h, s), NEW b \in DOMAIN h, NEW g, Shape(g),
           DOMAIN g = DOMAIN h,
           \A c \in DOMAIN h : /\ g[c].next = h[c].next
                               /\ c # b => Share(g, c) = Share(h, c)
    PROVE  \E r : Counts(g, r) /\ r[0] = s[0] - Share(h, b) + Share(g, b)
<1> DEFINE d == Share(g, b) - Share(h, b)
           r == [c \in DOMAIN h \cup {Null} |-> IF c # Null /\ c <= b THEN s[c] + d ELSE s[c]]
<1>1. Blocks(h) /\ Linked(h) /\ Apart(h) /\ Blocks(g)
  BY DEF Shape
<1>2. 0 \in DOMAIN h /\ DOMAIN h \subseteq Nat /\ Null \notin DOMAIN h
  BY <1>1 DEF Blocks, Null
<1>3. \A c \in DOMAIN h : Share(h, c) \in Int /\ Share(g, c) \in Int
  BY <1>1, BlockFacts DEF Share
<1>4. s \in [DOMAIN h \cup {Null} -> Int] /\ s[Null] = 0
  BY DEF Counts
<1>5. d \in Int
  BY <1>3
<1>6. r \in [DOMAIN g \cup {Null} -> Int] /\ r[Null] = 0
  <2> HIDE DEF d
  <2> QED
    BY <1>4, <1>5
<1>7. ASSUME NEW c \in DOMAIN h PROVE r[c] = Share(g, c) + r[g[c].next]
  <2> DEFINE n == h[c].next
  <2>1. s[c] = Share(h, c) + s[n] /\ n = g[c].next
    BY DEF Counts
  <2>2. n = Null \/ (n \in DOMAIN h /\ n > c /\ n \in Nat)
    BY <1>1, <1>2, LinkFacts
  <2>3. n = Null \/ (c < b => n <= b)
    <3>1. n # Null => End(h, c) = n
      BY <1>1, LinkFacts
    <3>2. c < b => End(h, c) <= b
      BY <1>1 DEF Apart
    <3> QED
      BY <3>1, <3>2
  <2>4. n = Null => ~(c < b)
    <3>1. n = Null => End(h, c) = HeapSize
      BY <1>1, LinkFacts
    <3>2. c < b => End(h, c) <= b
      BY <1>1 DEF Apart
    <3>3. End(h, b) <= HeapSize /\ End(h, b) > b + Header /\ End(h, b) \in Nat
      BY <1>1, BlockFacts DEF Apart
    <3> QED
      BY <1>2, <3>1, <3>2, <3>3, HeapAssumption
  <2>5. c \in Nat /\ b \in Nat /\ c # Null
    BY <1>2
  <2>6. s[n] \in Int /\ Share(h, c) \in Int /\ Share(g, c) \in Int
    BY <1>3, <1>4, <2>2
  <2>7. r[c] = IF c <= b THEN s[c] + d ELSE s[c]
    BY <2>5
  <2>8. r[n] = IF n # Null /\ n <= b THEN s[n] + d ELSE s[n]
    BY <2>2
  <2> HIDE DEF n, r
  <2>9. CASE c = b
    BY <1>3, <2>1, <2>2, <2>5, <2>6, <2>7, <2>8, <2>9
  <2>10. CASE c < b
    <3>1. n \in DOMAIN h /\ n <= b /\ n \in Nat /\ n # Null
      BY <2>2, <2>3, <2>4, <2>10 DEF Null
    <3>2. Share(g, c) = Share(h, c) /\ c <= b
      BY <2>5, <2>10
    <3> HIDE DEF d
    <3> QED
      BY <1>5, <2>1, <2>6, <2>7, <2>8, <3>1, <3>2
  <2>11. CASE c > b
    <3>1. n = Null \/ ~(n <= b)
      BY <2>2, <2>5, <2>11
    <3>2. Share(g, c) = Share(h, c) /\ ~(c <= b)
      BY <2>5, <2>11
    <3> QED
      BY <2>1, <2>7, <2>8, <3>1, <3>2
  <2> QED
    BY <2>5, <2>9, <2>10, <2>11
<1>8. r[0] = s[0] + d
  BY <1>2 DEF Null
<1>9. s[0] + d = s[0] - Share(h, b) + Share(g, b)
  BY <1>2, <1>3, <1>4
<1> HIDE DEF r, d
<1> QED
  BY <1>6, <1>7, <1>8, <1>9 DEF Counts

LEMMA SplitCounts ==
    ASSUME NEW h, Shape(h), NEW s, Counts(h, s), NEW b \in DOMAIN h, h[b].free, NEW n \in Nat
    PROVE  \E r : Counts(Split(h, b, n), r) /\ r[0] = s[0]
<1> DEFINE e == b + Header + n
           g == Split(h, b, n)
           r == [c \in DOMAIN g \cup {Null} |-> IF c \in DOMAIN h \cup {Null} THEN s[c] ELSE s[h[b].next]]
<1>1. Blocks(h) /\ Linked(h) /\ Apart(h)
  BY DEF Shape
<1>2. 0 \in DOMAIN h /\ DOMAIN h \subseteq Nat /\ Null \notin DOMAIN h
  BY <1>1 DEF Blocks, Null
<1>3. CASE h[b].size < n + Header + MinSize
  BY <1>3 DEF Split
<1>4. CASE ~(h[b].size < n + Header + MinSize)
  <2>1. g = [c \in DOMAIN h \cup {e} |->
                 IF c = e THEN [size |-> h[b].size - n - Header, next |-> h[b].next, prev |-> b, free |-> TRUE]
                 ELSE IF c = b THEN [h[b] EXCEPT !.size = n, !.next = e]
                 ELSE IF c = h[b].next THEN [h[c] EXCEPT !.prev = e]
                 ELSE h[c]]
    BY <1>4 DEF Split
  <2>2. e \notin DOMAIN h /\ e \in Nat /\ e # b
    <3>1. b \in Nat /\ h[b].size \in Nat /\ End(h, b) = b + Header + h[b].size
      BY <1>1, BlockFacts
    <3>2. h[b].size >= n + Header + MinSize /\ Header > 0 /\ Header \in Nat /\ MinSize \in Nat /\ MinSize > 0
      BY <1>4, <3>1, HeapAssumption
    <3>3. e \in Nat /\ b < e /\ e < End(h, b)
      BY <3>1, <3>2
    <3>4. e \in DOMAIN h => End(h, b) <= e
      BY <1>1, <3>3 DEF Apart
    <3> HIDE DEF e
    <3> QED
      BY <3>1, <3>2, <3>3, <3>4
  <2>3. /\ DOMAIN g = DOMAIN h \cup {e}
        /\ g[e].free /\ g[e].next = h[b].next
        /\ g[b].free /\ g[b].next = e
    <3>1. h[b] \in BlockSet
      BY <1>1 DEF Blocks
    <3> QED
      BY <2>1, <2>2, <3>1 DEF BlockSet
  <2>4. \A c \in DOMAIN h : c # b => g[c].free = h[c].free /\ g[c].size = h[c].size /\ g[c].next = h[c].next
    <3> SUFFICES ASSUME NEW c \in DOMAIN h, c # b
                 PROVE  g[c].free = h[c].free /\ g[c].size = h[c].size /\ g[c].next = h[c].next
      OBVIOUS
    <3>1. h[c] \in BlockSet
      BY <1>1 DEF Blocks
    <3> QED
      BY <2>1, <2>2, <3>1 DEF BlockSet
  <2>5. \A c \in DOMAIN h : h[c].next \in DOMAIN h \cup {Null}
    BY <1>1, LinkFacts
  <2>6. s \in [DOMAIN h \cup {Null} -> Int] /\ s[Null] = 0 /\ \A c \in DOMAIN h : s[c] = Share(h, c) + s[h[c].next]
    BY DEF Counts
  <2> HIDE DEF g
  <2>7. r \in [DOMAIN g \cup {Null} -> Int] /\ r[Null] = 0
    BY <2>3, <2>5, <2>6
  <2>8. r[e] = s[h[b].next] /\ \A c \in DOMAIN h \cup {Null} : r[c] = s[c]
    BY <2>2, <2>3 DEF Null
  <2> HIDE DEF r, e
  <2>9. ASSUME NEW c \in DOMAIN g PROVE r[c] = Share(g, c) + r[g[c].next]
    <3>1. CASE c = e
      BY <2>3, <2>5, <2>6, <2>8, <3>1 DEF Share
    <3>2. CASE c = b
      BY <2>3, <2>5, <2>6, <2>8, <3>2 DEF Share
    <3>3. CASE c \in DOMAIN h /\ c # b
      BY <2>4, <2>5, <2>6, <2>8, <3>3 DEF Share
    <3> QED
      BY <2>3, <3>1, <3>2, <3>3
  <2> QED
    BY <1>2, <2>7, <2>8, <2>9 DEF Counts, g
<1> QED
  BY <1>3, <1>4

LEMMA MergeCounts ==
    ASSUME NEW h, Shape(h), NEW s, Counts(h, s), NEW b \in DOMAIN h, h[b].free
    PROVE  \E r : Counts(Merge(h, b), r) /\ r[0] = s[0]
<1> DEFINE n == h[b].next
           g == Merge(h, b)
<1>1. Blocks(h) /\ Linked(h)
  BY DEF Shape
<1>2. 0 \in DOMAIN h /\ DOMAIN h \subseteq Nat /\ Null \notin DOMAIN h
  BY <1>1 DEF Blocks, Null
<1>3. CASE n = Null \/ ~h[n].free
  BY <1>3, MergeIdle
<1>4. CASE n # Null /\ h[n].free
  <2>1. g = [c \in DOMAIN h \ {n} |->
                 IF c = b THEN [h[b] EXCEPT !.size = @ + Header + h[n].size, !.next = h[n].next]
                 ELSE IF c = h[n].next THEN [h[c] EXCEPT !.prev = b]
                 ELSE h[c]]
    BY <1>4 DEF Merge
  <2>2. n \in DOMAIN h /\ n # b /\ n # 0 /\ h[n].prev = b
    BY <1>1, <1>2, <1>4, LinkFacts
  <2>3. h[n].next # n
    <3>1. h[n].next # Null => h[n].next > n /\ n \in Nat
      BY <1>1, <1>2, <2>2, LinkFacts
    <3> QED
      BY <1>2, <2>2, <3>1
  <2>4. \A c \in DOMAIN h : c # b => h[c].next # n
    <3> SUFFICES ASSUME NEW c \in DOMAIN h, h[c].next = n PROVE c = b
      OBVIOUS
    <3>1. h[h[c].next].prev = c
      BY <1>1, <1>4, LinkFacts
    <3> QED
      BY <2>2, <3>1
  <2>5. DOMAIN g = DOMAIN h \ {n} /\ g[b].free /\ g[b].next = h[n].next
    <3>1. h[b] \in BlockSet
      BY <1>1 DEF Blocks
    <3> QED
      BY <2>1, <2>2, <3>1 DEF BlockSet
  <2>6. \A c \in DOMAIN g : c # b => g[c].free = h[c].free /\ g[c].size = h[c].size /\ g[c].next = h[c].next
    <3> SUFFICES ASSUME NEW c \in DOMAIN g, c # b
                 PROVE  g[c].free = h[c].free /\ g[c].size = h[c].size /\ g[c].next = h[c].next
      OBVIOUS
    <3>1. h[c] \in BlockSet /\ c \in DOMAIN h \ {n}
      BY <1>1, <2>5 DEF Blocks
    <3> QED
      BY <2>1, <3>1 DEF BlockSet
  <2>7. \A c \in DOMAIN h : h[c].next \in DOMAIN h \cup {Null}
    BY <1>1, LinkFacts
  <2>8. s \in [DOMAIN h \cup {Null} -> Int] /\ s[Null] = 0 /\ \A c \in DOMAIN h : s[c] = Share(h, c) + s[h[c].next]
    BY DEF Counts
  <2>9. s[b] = s[h[n].next]
    <3>1. s[b] = 0 + s[n] /\ s[n] = 0 + s[h[n].next]
      BY <1>4, <2>2, <2>8 DEF Share
    <3> QED
      BY <2>2, <2>7, <2>8, <3>1
  <2> DEFINE r == [c \in DOMAIN g \cup {Null} |-> s[c]]
  <2> HIDE DEF g
  <2>10. r \in [DOMAIN g \cup {Null} -> Int] /\ r[Null] = 0 /\ r[0] = s[0]
    BY <1>2, <2>2, <2>5, <2>8
  <2>11. \A c \in DOMAIN g \cup {Null} : r[c] = s[c]
    OBVIOUS
  <2> HIDE DEF r
  <2>12. ASSUME NEW c \in DOMAIN g PROVE r[c] = Share(g, c) + r[g[c].next]
    <3>1. CASE c = b
      <4>1. h[n].next \in DOMAIN g \cup {Null} /\ s[h[n].next] \in Int
        BY <2>2, <2>3, <2>5, <2>7, <2>8
      <4> QED
        BY <2>5, <2>9, <2>11, <3>1, <4>1 DEF Share
    <3>2. CASE c # b
      <4>1. c \in DOMAIN h /\ g[c].next \in DOMAIN g \cup {Null}
        BY <2>4, <2>5, <2>6, <2>7, <3>2
      <4> QED
        BY <2>6, <2>8, <2>11, <3>2, <4>1 DEF Share
    <3> QED
      BY <3>1, <3>2
  <2> QED
    BY <2>10, <2>12 DEF Counts, g
<1> QED
  BY <1>3, <1>4

LEMMA FreedCounts ==
    ASSUME NEW h, Shape(h), NEW s, Counts(h, s), NEW b \in DOMAIN h, ~h[b].free
    PROVE  \E r : Counts(Freed(h, b), r) /\ r[0] = s[0] - h[b].size
<1> DEFINE f == [h EXCEPT ![b].free = TRUE]
           g == Merge(f, b)
           p == g[b].prev
<1>1. /\ Shape(f) /\ DOMAIN f = DOMAIN h
      /\ \A c \in DOMAIN h : /\ f[c].next = h[c].next /\ f[c].size = h[c].size
                             /\ f[c].free = IF c = b THEN TRUE ELSE h[c].free
  BY ZenonT(30), FlagShape
<1>2. Freed(h, b) = IF p = Null THEN g ELSE IF g[p].free THEN Merge(g, p) ELSE g
  BY DEF Freed, f, g
<1> HIDE DEF f
<1>3. PICK u : Counts(f, u) /\ u[0] = s[0] - h[b].size
  <2>1. /\ Share(f, b) = 0 /\ Share(h, b) = h[b].size
        /\ \A c \in DOMAIN h : /\ f[c].next = h[c].next
                               /\ c # b => Share(f, c) = Share(h, c)
    BY <1>1 DEF Share
  <2>2. PICK u : Counts(f, u) /\ u[0] = s[0] - Share(h, b) + Share(f, b)
    BY <1>1, <2>1, FlagCounts
  <2>3. s[0] \in Int /\ h[b].size \in Int
    BY BlockFacts DEF Counts, Shape, Blocks
  <2> QED
    BY <2>1, <2>2, <2>3
<1>4. PICK v : Counts(g, v) /\ v[0] = u[0]
  <2>1. b \in DOMAIN f /\ f[b].free
    BY <1>1
  <2> QED
    BY <1>1, <1>3, <2>1, MergeCounts
<1>5. Shape(g) /\ b \in DOMAIN g
  BY <1>1, MergeShape
<1> HIDE DEF g
<1>6. CASE p = Null \/ ~g[p].free
  BY <1>2, <1>3, <1>4, <1>6
<1>7. CASE p # Null /\ g[p].free
  <2>1. p \in DOMAIN g
    BY <1>5, <1>7, LinkFacts DEF Shape
  <2>2. PICK r : Counts(Merge(g, p), r) /\ r[0] = v[0]
    BY <1>4, <1>5, <1>7, <2>1, MergeCounts
  <2> QED
    BY <1>2, <1>3, <1>4, <1>7, <2>2
<1> QED
  BY <1>6, <1>7

(* live_bytes is the sum over the list, and the peak was never below it.   *)
LiveInv == /\ \E s : Counts(block, s) /\ s[0] = live_bytes
           /\ peak_live_bytes \in Int /\ live_bytes <= peak_live_bytes

LEMMA InitLive == Init => LiveInv
<1> SUFFICES ASSUME Init PROVE LiveInv
  OBVIOUS
<1> DEFINE s == [b \in {0, Null} |-> 0]
<1>1. DOMAIN block = {0} /\ block[0].free /\ block[0].next = Null
  BY DEF Init
<1>2. Counts(block, s)
  BY <1>1 DEF Counts, Share
<1>3. s[0] = 0
  OBVIOUS
<1> HIDE DEF s
<1> QED
  BY <1>2, <1>3 DEF Init, LiveInv

LEMMA KmallocLive ==
    ASSUME IInv, LiveInv, NEW n \in Requests, Kmalloc(n)
    PROVE  LiveInv'
<1> DEFINE m == SizeFor(n)
<1>1. PICK b \in FirstFit(m) :
        /\ block' = [Split(block, b, m) EXCEPT ![b].free = FALSE]
        /\ live_bytes' = live_bytes + Split(block, b, m)[b].size
        /\ peak_live_bytes' = IF live_bytes' > peak_live_bytes THEN live_bytes' ELSE peak_live_bytes
  BY DEF Kmalloc
<1>2. m \in Nat \ {0} /\ m % Unit = 0
  BY HeapAssumption, SizeForFacts
<1> DEFINE h == Split(block, b, m)
<1> HIDE DEF m
<1>3. b \in DOMAIN block /\ block[b].free /\ block[b].size >= m
  BY <1>1 DEF FirstFit, Fitting
<1>4. Shape(h) /\ b \in DOMAIN h /\ Used(h) = Used(block)
  BY <1>2, <1>3, SplitShape DEF IInv
<1>5. PICK s : Counts(h, s) /\ s[0] = live_bytes
  <2>1. PICK r : Counts(block, r) /\ r[0] = live_bytes
    BY DEF LiveInv
  <2>2. \E s : Counts(h, s) /\ s[0] = r[0]
    BY <1>2, <1>3, <2>1, SplitCounts DEF IInv
  <2> QED
    BY <2>1, <2>2
<1>6. h[b].free
  BY <1>3, <1>4 DEF Used
<1> HIDE DEF h
<1>7. /\ Shape(block') /\ DOMAIN block' = DOMAIN h
      /\ \A c \in DOMAIN h : /\ block'[c].next = h[c].next /\ block'[c].size = h[c].size
                             /\ block'[c].free = IF c = b THEN FALSE ELSE h[c].free
  <2>1. PICK f \in BOOLEAN : f = FALSE
    OBVIOUS
  <2> DEFINE g == [h EXCEPT ![b].free = f]
  <2>2. /\ Shape(g) /\ DOMAIN g = DOMAIN h
        /\ \A c \in DOMAIN h : /\ g[c].next = h[c].next /\ g[c].size = h[c].size
                               /\ g[c].free = IF c = b THEN f ELSE h[c].free
    BY <1>4, FlagShape
  <2>3. block' = g
    BY <1>1, <2>1 DEF h
  <2> HIDE DEF g
  <2> QED
    BY <2>1, <2>2, <2>3
<1>8. /\ Share(block', b) = h[b].size /\ Share(h, b) = 0
      /\ \A c \in DOMAIN h : /\ block'[c].next = h[c].next
                             /\ c # b => Share(block', c) = Share(h, c)
  BY <1>4, <1>6, <1>7 DEF Share
<1>9. PICK r : Counts(block', r) /\ r[0] = s[0] - Share(h, b) + Share(block', b)
  BY <1>4, <1>5, <1>7, <1>8, FlagCounts
<1>10. s[0] \in Int /\ h[b].size \in Nat
  BY <1>4, <1>5, BlockFacts DEF Counts, Shape, Blocks
<1>11. r[0] = live_bytes' /\ live_bytes' \in Int
  BY <1>1, <1>5, <1>8, <1>9, <1>10 DEF h
<1> QED
  BY <1>1, <1>9, <1>11 DEF LiveInv

LEMMA KfreeLive ==
    ASSUME IInv, LiveInv, NEW p \in DOMAIN held, Kfree(p)
    PROVE  LiveInv'
<1> DEFINE b == p - Header
<1>1. /\ live_bytes' = live_bytes - block[b].size /\ block' = Freed(block, b)
      /\ peak_live_bytes' = peak_live_bytes
  BY DEF Kfree
<1>2. b \in DOMAIN block /\ ~block[b].free
  BY DEF IInv, Holding, Used
<1> HIDE DEF b
<1>3. PICK s : Counts(block, s) /\ s[0] = live_bytes
  BY DEF LiveInv
<1>4. PICK r : Counts(block', r) /\ r[0] = s[0] - block[b].size
  BY <1>1, <1>2, <1>3, FreedCounts DEF IInv
<1>5. s[0] \in Int /\ block[b].size \in Nat
  BY <1>2, <1>3, BlockFacts DEF Counts, IInv, Shape, Blocks
<1>6. live_bytes' <= peak_live_bytes'
  BY <1>1, <1>3, <1>5 DEF LiveInv
<1> QED
  BY <1>1, <1>3, <1>4, <1>6 DEF LiveInv

\* The counter of live bytes is the sum of the used blocks on the list, after
\* every sequence of splits and merges, and never above the peak (kmalloc, kfree).
THEOREM HeapLiveExact == Spec => []LiveExact
<1>1. IInv /\ LiveInv /\ [Next]_vars => LiveInv'
  <2> SUFFICES ASSUME IInv, LiveInv, [Next]_vars PROVE LiveInv'
    OBVIOUS
  <2>1. ASSUME NEW n \in Requests, OutOfMemory(n) PROVE LiveInv'
    BY <2>1 DEF OutOfMemory, LiveInv
  <2>2. CASE Halted \/ UNCHANGED vars
    BY <2>2 DEF Halted, vars, LiveInv
  <2> QED
    BY <2>1, <2>2, KmallocLive, KfreeLive DEF Next
<1>2. IInv /\ LiveInv => LiveExact
  <2> SUFFICES ASSUME IInv, LiveInv PROVE LiveExact
    OBVIOUS
  <2>1. PICK s : Counts(block, s) /\ s[0] = live_bytes
    BY DEF LiveInv
  <2>2. UsedFrom = s
    BY <2>1, UsedFromIs DEF IInv
  <2> QED
    BY <2>1, <2>2 DEF LiveExact, LiveInv
<1> QED
  BY <1>1, <1>2, InitLive, Invariant, PTL DEF Spec
=============================================================================
