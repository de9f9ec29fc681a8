-------------------------------- MODULE Heap --------------------------------
(***************************************************************************)
(* The kernel heap of mm/mm.c: a list of blocks that tiles one range of    *)
(* memory, searched first fit, split at kmalloc and merged at kfree.       *)
(* Addresses and sizes are bytes from the start of the heap.  Both calls   *)
(* run with interrupts off and never sleep, so each is one step.           *)
(*                                                                         *)
(* The headers that can be reached from head are the domain of block; what *)
(* a merge takes off the list leaves the domain.  The checks of the magic  *)
(* number and of a second kfree are left out: the callers here give back   *)
(* what they were given, once, or nothing: kfree(NULL) does nothing.       *)
(***************************************************************************)
EXTENDS Integers

CONSTANTS HeapSize,    \* HEAP_SIZE pages, in bytes
          Header,      \* sizeof(struct mm_block)
          Unit,        \* MM_ALIGNMENT
          MinSize,     \* MM_MIN_SIZE
          Requests     \* bound: the sizes callers ask for

Null == -1

ASSUME HeapAssumption ==
    /\ HeapSize \in Nat /\ Header \in Nat \ {0} /\ Unit \in Nat \ {0} /\ MinSize \in Nat \ {0}
    /\ HeapSize > Header
    /\ HeapSize % Unit = 0 /\ Header % Unit = 0
    /\ Requests \subseteq Nat

VARIABLES block,       \* the list: header at an address -> size, next, prev, free
          live_bytes, peak_live_bytes,
          held,        \* what the callers hold: pointer -> bytes asked for
          wanted       \* the size in "Kernel Heap out of memory", 0 before the panic

vars == <<block, live_bytes, peak_live_bytes, held, wanted>>

(* mm_init(): one free block.                                              *)
Init == /\ block = [b \in {0} |-> [size |-> HeapSize - Header, next |-> Null, prev |-> Null, free |-> TRUE]]
        /\ live_bytes = 0 /\ peak_live_bytes = 0
        /\ held = [p \in {} |-> 0]
        /\ wanted = 0

----------------------------------------------------------------------------
(* Lists.  h is a list of blocks.                                          *)

End(h, b) == b + Header + h[b].size

(* The smallest multiple of Unit that is not below n, of at least MinSize. *)
Align(n) == ((n + Unit - 1) \div Unit) * Unit

SizeFor(n) == Align(IF n < MinSize THEN MinSize ELSE n)

\* Mutant: the next block goes on pointing back at the block that was split.
SplitMutant(h, b, n) ==
    LET r == b + Header + n
    IN  IF h[b].size < n + Header + MinSize THEN h
        ELSE [c \in DOMAIN h \cup {r} |->
                 IF c = r THEN [size |-> h[b].size - n - Header, next |-> h[b].next, prev |-> b, free |-> TRUE]
                 ELSE IF c = b THEN [h[b] EXCEPT !.size = n, !.next = r]
                 ELSE h[c]]

(* split_block(): what is too small for a block of its own is not cut off. *)
Split(h, b, n) ==
    LET r == b + Header + n
    IN  IF h[b].size < n + Header + MinSize THEN h
        ELSE [c \in DOMAIN h \cup {r} |->
                 IF c = r THEN [size |-> h[b].size - n - Header, next |-> h[b].next, prev |-> b, free |-> TRUE]
                 ELSE IF c = b THEN [h[b] EXCEPT !.size = n, !.next = r]
                 ELSE IF c = h[b].next THEN [h[c] EXCEPT !.prev = r]
                 ELSE h[c]]

\* Mutant: the next block is taken in whether it is free or not.
MergeMutant(h, b) ==
    LET n == h[b].next
    IN  IF n = Null THEN h
        ELSE [c \in DOMAIN h \ {n} |->
                 IF c = b THEN [h[b] EXCEPT !.size = @ + Header + h[n].size, !.next = h[n].next]
                 ELSE IF c = h[n].next THEN [h[c] EXCEPT !.prev = b]
                 ELSE h[c]]

(* merge_with_next()                                                       *)
Merge(h, b) ==
    LET n == h[b].next
    IN  IF n = Null THEN h ELSE IF ~h[n].free THEN h
        ELSE [c \in DOMAIN h \ {n} |->
                 IF c = b THEN [h[b] EXCEPT !.size = @ + Header + h[n].size, !.next = h[n].next]
                 ELSE IF c = h[n].next THEN [h[c] EXCEPT !.prev = b]
                 ELSE h[c]]

\* Mutant: kfree merges with the block behind only.
FreedMutant(h, b) == Merge([h EXCEPT ![b].free = TRUE], b)

(* kfree(): the block behind is taken in, then the block itself by the one *)
(* before it.                                                              *)
Freed(h, b) ==
    LET g == Merge([h EXCEPT ![b].free = TRUE], b)
        p == g[b].prev
    IN  IF p = Null THEN g ELSE IF g[p].free THEN Merge(g, p) ELSE g

----------------------------------------------------------------------------
(* The calls.                                                              *)

Fitting(n) == {b \in DOMAIN block : block[b].free /\ block[b].size >= n}

(* The search goes along the list, which is in the order of addresses.     *)
FirstFit(n) == {b \in Fitting(n) : \A c \in Fitting(n) : b <= c}

Kmalloc(n) ==
    \E b \in FirstFit(SizeFor(n)) :
        LET h == Split(block, b, SizeFor(n))
        IN  /\ wanted = 0
            /\ block' = [h EXCEPT ![b].free = FALSE]
            /\ live_bytes' = live_bytes + h[b].size
            /\ peak_live_bytes' = IF live_bytes' > peak_live_bytes THEN live_bytes' ELSE peak_live_bytes
            /\ held' = [p \in DOMAIN held \cup {b + Header} |-> IF p = b + Header THEN n ELSE held[p]]
            /\ UNCHANGED wanted

(* panic("Kernel Heap out of memory")                                      *)
OutOfMemory(n) ==
    /\ wanted = 0 /\ Fitting(SizeFor(n)) = {}
    /\ wanted' = SizeFor(n)
    /\ UNCHANGED <<block, live_bytes, peak_live_bytes, held>>

\* Mutant: the size is taken off after the merge.
KfreeMutant(p) ==
    LET b == p - Header
    IN  /\ wanted = 0
        /\ block' = Freed(block, b)
        /\ live_bytes' = live_bytes - (IF b \in DOMAIN block' THEN block'[b].size ELSE block[b].size)
        /\ held' = [q \in DOMAIN held \ {p} |-> held[q]]
        /\ UNCHANGED <<peak_live_bytes, wanted>>

Kfree(p) ==
    LET b == p - Header
    IN  /\ wanted = 0
        /\ live_bytes' = live_bytes - block[b].size
        /\ block' = Freed(block, b)
        /\ held' = [q \in DOMAIN held \ {p} |-> held[q]]
        /\ UNCHANGED <<peak_live_bytes, wanted>>

Halted == wanted # 0 /\ UNCHANGED vars

Next == \/ \E n \in Requests : Kmalloc(n) \/ OutOfMemory(n)
        \/ \E p \in DOMAIN held : Kfree(p)
        \/ Halted

Spec == Init /\ [][Next]_vars

----------------------------------------------------------------------------
(* Properties.                                                             *)

\* The list tiles the heap: a block ends where the next one starts, the last
\* one at the end of the heap, the back pointers are the inverse of the next
\* pointers, and no block is cut too small (split_block, merge_with_next).
Tiled ==
    /\ 0 \in DOMAIN block
    /\ \A b \in DOMAIN block :
        /\ block[b].size \in Nat \ {0}
        /\ IF block[b].next = Null THEN End(block, b) = HeapSize
           ELSE /\ block[b].next \in DOMAIN block
                /\ End(block, b) = block[b].next
                /\ block[block[b].next].prev = b
        /\ IF b = 0 THEN block[b].prev = Null
           ELSE block[b].prev \in DOMAIN block /\ block[block[b].prev].next = b

\* A pointer is held exactly while its block is used, the block has the room
\* that was asked for, and it starts at a multiple of the alignment (kmalloc).
HeldFits ==
    /\ {b \in DOMAIN block : ~block[b].free} = {p - Header : p \in DOMAIN held}
    /\ \A p \in DOMAIN held : block[p - Header].size >= held[p] /\ p % Unit = 0

\* The list and what the callers hold agree after every split and merge
\* (kmalloc, kfree).
HeapSound == Tiled /\ HeldFits

\* The kernel panics for want of memory only when no gap between the blocks in
\* use has room for the block: freed neighbours are always one (kfree).
PanicJustified ==
    wanted # 0 =>
        ~\E a \in 0 .. HeapSize - Header - wanted :
            \A b \in DOMAIN block :
                block[b].free \/ End(block, b) <= a \/ a + Header + wanted <= b

(* What a walk over the list finds in use: all but the free blocks, which  *)
(* mm_print_stats() counts beside live_bytes.                              *)
UsedFrom[b \in DOMAIN block \cup {Null}] ==
    IF b = Null THEN 0
    ELSE (IF block[b].free THEN 0 ELSE block[b].size) + UsedFrom[block[b].next]

\* live_bytes is the size of the used blocks on the list, whatever was split
\* and merged in between, and never above the peak (kmalloc, kfree).
LiveExact == live_bytes = UsedFrom[0] /\ live_bytes <= peak_live_bytes

\* The heap is the allocator that Arena promises (kmalloc, kfree).
Promise == INSTANCE Arena WITH ArenaSize <- HeapSize, Lengths <- Requests
IsArena == Promise!Spec
=============================================================================
