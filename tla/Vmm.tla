-------------------------------- MODULE Vmm --------------------------------
(***************************************************************************)
(* User memory: frames and their reference counts (mm/pmem.c), page tables *)
(* and copy on write (mm/paging.c), address spaces with demand paging      *)
(* (mm/vmm.c), and what fork, exec, exit and sbrk do to them.              *)
(*                                                                         *)
(* A process is represented by its struct vmm_map.  Kernel code is not     *)
(* interrupted: while job.op is not "none" only the handler that job       *)
(* describes goes on, one allocation, mapping or page at a time.  The one  *)
(* place where a handler lets other processes run is the disk: a fault on  *)
(* a page of the executable, and exec() reading program headers (io).      *)
(*                                                                         *)
(* The bitmap and page_refs of pmem.c always change together, so a frame   *)
(* is free when its count is 0.  Each address space lies under one entry   *)
(* of the top-level table, as the code's fixed addresses do, and the copy  *)
(* of that entry in kernel_pml4 is not distinguished from it.              *)
(***************************************************************************)
EXTENDS Integers, Sequences, FiniteSets

CONSTANTS
    Space,      \* struct vmm_map objects
    None,       \* no address space
    First,      \* the address space of init
    NFrames,    \* physical frames for user memory and its tables
    MaxRefs,    \* the largest reference count, 0xffff in the code
    Page,       \* user pages, a set of numbers in address order
    Table,      \* tables below the top-level one
    Path,       \* the tables on the way to each page, top-most first
    Image,      \* blocks of a new program: stack, file segments, first heap page
    Grow,       \* the blocks that successive calls of sbrk() add
    StackTop,   \* the stack page that exec() fills
    Val, Zero,  \* contents of a page as the properties tell them apart
    FileVal,    \* contents of the pages of the executable
    Stale,      \* stands for whatever is left in a frame that nobody holds
    Gone        \* the contents of a page that a process does not have

Frame == 1 .. NFrames
NoFrame == 0
Block == [pages : SUBSET Page, write : BOOLEAN, file : BOOLEAN]
Null == [pages |-> {}, write |-> FALSE, file |-> FALSE]   \* a NULL list entry
Pte == [frame : Frame, rw : BOOLEAN, cow : BOOLEAN]
NoPte == [frame |-> NoFrame, rw |-> FALSE, cow |-> FALSE]
Blocks == Image \o Grow
Pages == UNION {Blocks[i].pages : i \in DOMAIN Blocks}

ASSUME VmmAssumption ==
    /\ IsFiniteSet(Space) /\ First \in Space /\ None \notin Space
    /\ NFrames \in Nat \ {0} /\ MaxRefs \in Nat \ {0}
    /\ Page \subseteq Nat /\ IsFiniteSet(Page) /\ Pages = Page
    /\ IsFiniteSet(Table) /\ Path \in [Page -> Seq(Table)]
    /\ Image \in Seq(Block) /\ Grow \in Seq(Block)
    /\ \A i, j \in DOMAIN Blocks :
           i # j => Blocks[i].pages \cap Blocks[j].pages = {}
    /\ Null \notin {Blocks[i] : i \in DOMAIN Blocks}
    /\ \E i \in DOMAIN Image : /\ StackTop \in Image[i].pages
                               /\ Image[i].write /\ ~Image[i].file
    /\ \A i \in DOMAIN Grow : ~Grow[i].file
    /\ {Zero, FileVal, Stale} \subseteq Val /\ Gone \notin Val

VARIABLES
    page_refs,  \* reference count of every frame
    data,       \* contents of every frame, as user data
    root,       \* pagetable.pml4 of each space
    tables,     \* the tables below it
    pte,        \* the last-level entries; a table that is absent has none
    areas,      \* vmm_areas: the lists STACK, TEXT, DATA in search order
    status,     \* "free", "loading" until the space runs, "live"
    cur,        \* the space that is on the CPU
    tlb,        \* the translation that the CPU has cached; entries are
                \* independent, so one at a time shows what several would
    io,         \* what each space waits for the disk for
    job,        \* the handler at work
    lost        \* history: references no mapping stands for any more

spaceVars == <<root, tables, pte, areas, status>>
vars == <<page_refs, data, spaceVars, cur, tlb, io, job, lost>>

NoJob == [op |-> "none", to |-> None, page |-> 0, frame |-> NoFrame,
          rw |-> FALSE, cow |-> FALSE, why |-> "none", todo |-> {}]
NoIo == [op |-> "none", page |-> 0, frame |-> NoFrame, rw |-> FALSE,
         why |-> "none", next |-> None]
Halts == {"panic_oom", "panic_fault", "panic_free", "panic_retain", "wild"}
Flushed == [v \in Page |-> NoPte]

\* pmem_addr_find_first_free_block
FirstFree(f) == /\ page_refs[f] = 0
                /\ \A g \in Frame : page_refs[g] = 0 => f <= g
Exhausted == \A f \in Frame : page_refs[f] # 0

\* boot has exec'd init: its space exists, its first stack page is to be made
Init ==
    /\ page_refs = [f \in Frame |-> IF f = 1 THEN 1 ELSE 0]
    /\ data = [f \in Frame |-> IF f = 1 THEN Zero ELSE Stale]
    /\ root = [m \in Space |-> IF m = First THEN 1 ELSE NoFrame]
    /\ tables = [m \in Space |-> [t \in Table |-> NoFrame]]
    /\ pte = [m \in Space |-> Flushed]
    /\ areas = [m \in Space |-> IF m = First THEN Image ELSE <<>>]
    /\ status = [m \in Space |-> IF m = First THEN "loading" ELSE "free"]
    /\ cur = None
    /\ tlb = Flushed
    /\ io = [m \in Space |-> NoIo]
    /\ job = [NoJob EXCEPT !.op = "demand", !.to = First, !.page = StackTop,
                           !.rw = TRUE, !.why = "exec"]
    /\ lost = [f \in Frame |-> 0]

\* Mutant: sharing a page is not counted.
RetainedMutant(f) == page_refs

\* pmem_retain_page
Retained(f) == [page_refs EXCEPT ![f] = @ + 1]

\* pmem_free_block for the frame of a mapping that came to nothing
Dropped(f) == [page_refs EXCEPT ![f] = @ - 1]

\* Mutant: nothing is flushed.
InvlpgMutant(v) == tlb

\* invlpg
Invlpg(v) == [tlb EXCEPT ![v] = NoPte]

\* After a free: the frames without a holder keep what they happen to contain.
Leftover == data' = [f \in Frame |-> IF page_refs'[f] = 0 THEN Stale ELSE data[f]]

-----------------------------------------------------------------------------
(* Running in user mode, or in a system call that touches user memory      *)

InUser(m) == cur = m /\ m # None /\ job.op = "none" /\ io[m] = NoIo

\* What the CPU finds: a cached translation if there is one.
Translation(m, v) == IF tlb[v] # NoPte THEN tlb[v] ELSE pte[m][v]
Allowed(e, write) == e # NoPte /\ (write => e.rw)

Access(m) ==
    /\ InUser(m)
    /\ \E v \in Page, write \in BOOLEAN :
          LET e == Translation(m, v)
          IN /\ Allowed(e, write)
             /\ tlb' = [Flushed EXCEPT ![v] = e]
             /\ IF write THEN \E x \in Val : data' = [data EXCEPT ![e.frame] = x]
                ELSE UNCHANGED data
    /\ UNCHANGED <<page_refs, spaceVars, cur, io, job, lost>>

\* pagefault in user mode and inside system calls, whose buffers are the
\* program's.  vmm_populate_page for the frame of a signal handler does what a
\* write to the stack in user mode does, also when it fails.
Fault(m) ==
    /\ InUser(m)
    /\ \E v \in Page, write \in BOOLEAN, why \in {"user", "kernel"} :
          LET e == Translation(m, v)
          IN /\ ~Allowed(e, write)
             /\ why = "kernel" => \E i \in DOMAIN areas[m] :
                   v \in areas[m][i].pages /\ (write => areas[m][i].write)
             /\ job' = [NoJob EXCEPT !.op = IF e # NoPte THEN "cow" ELSE "demand",
                            !.to = m, !.page = v, !.rw = write, !.why = why]
    /\ UNCHANGED <<page_refs, data, spaceVars, cur, tlb, io, lost>>

Sbrk(m) ==
    /\ InUser(m)
    /\ Len(areas[m]) < Len(Blocks)
    /\ areas' = [areas EXCEPT ![m] = Append(@, Blocks[Len(areas[m]) + 1])]
    /\ UNCHANGED <<page_refs, data, root, tables, pte, status, cur, tlb, io,
                   job, lost>>

\* schedule() with user_switch_paging, which flushes the TLB.
Switch(m) ==
    /\ job.op = "none" /\ status[m] = "live" /\ m # cur
    /\ cur' = m
    /\ tlb' = Flushed
    /\ UNCHANGED <<page_refs, data, spaceVars, io, job, lost>>

-----------------------------------------------------------------------------
(* The page-fault handlers                                                 *)

Fail == job' = [job EXCEPT !.op = "fail"]

\* Mutant: two holders pass for one.
SharedMutant(f) == page_refs[f] > 2

\* The page has other holders: pmem_page_refs(old) > 1.
Shared(f) == page_refs[f] > 1

\* paging_resolve_cow_fault; a present page is not given a second chance.
CowStep ==
    LET m == job.to
        v == job.page
        old == pte[m][v].frame
        Make(f) == /\ pte' = [pte EXCEPT ![m][v] =
                                  [frame |-> f, rw |-> TRUE, cow |-> FALSE]]
                   /\ tlb' = Invlpg(v)
                   /\ job' = NoJob
    IN /\ job.op = "cow"
       /\ \/ /\ ~pte[m][v].cow \/ (Shared(old) /\ Exhausted)
             /\ Fail
             /\ UNCHANGED <<page_refs, data, pte, tlb>>
          \/ /\ pte[m][v].cow /\ Shared(old)
             /\ \E f \in Frame :
                   /\ FirstFree(f)
                   /\ page_refs' = [page_refs EXCEPT ![f] = 1, ![old] = @ - 1]
                   /\ data' = [data EXCEPT ![f] = data[old]]
                   /\ Make(f)
          \/ /\ pte[m][v].cow /\ ~Shared(old)
             /\ Make(old)
             /\ UNCHANGED <<page_refs, data>>
       /\ UNCHANGED <<root, tables, areas, status, cur, io, lost>>

\* vmm_find_block: it follows a NULL entry that it meets on its way.
Hits(m, v) == {i \in DOMAIN areas[m] : areas[m][i] = Null \/ v \in areas[m][i].pages}
FirstHit(m, v, i) == i \in Hits(m, v) /\ \A j \in Hits(m, v) : i <= j

\* vmm_handle_page_fault up to the mapping; a page of the executable is read
\* from disk, during which other processes run.
DemandStep ==
    LET m == job.to
        v == job.page
    IN /\ job.op = "demand"
       /\ \/ /\ \/ Hits(m, v) = {}
                \/ \E i \in Hits(m, v) : /\ FirstHit(m, v, i) /\ areas[m][i] # Null
                                         /\ \/ job.rw /\ ~areas[m][i].write
                                            \/ pte[m][v] # NoPte
                                            \/ Exhausted
             /\ Fail
             /\ UNCHANGED <<page_refs, data, cur, io>>
          \/ /\ \E i \in Hits(m, v) : FirstHit(m, v, i) /\ areas[m][i] = Null
             /\ job' = [job EXCEPT !.op = "wild"]
             /\ UNCHANGED <<page_refs, data, cur, io>>
          \/ \E i \in Hits(m, v), f \in Frame :
             /\ FirstHit(m, v, i) /\ areas[m][i] # Null
             /\ job.rw => areas[m][i].write
             /\ pte[m][v] = NoPte
             /\ FirstFree(f)
             /\ page_refs' = [page_refs EXCEPT ![f] = 1]
             /\ data' = [data EXCEPT ![f] = Zero]
             /\ IF areas[m][i].file
                THEN /\ io' = [io EXCEPT ![m] = [NoIo EXCEPT !.op = "read",
                                   !.page = v, !.frame = f,
                                   !.rw = areas[m][i].write, !.why = job.why]]
                     /\ job' = NoJob
                     /\ cur' = None
                ELSE /\ job' = [job EXCEPT !.op = "map", !.frame = f,
                                           !.rw = areas[m][i].write]
                     /\ UNCHANGED <<cur, io>>
       /\ UNCHANGED <<spaceVars, tlb, lost>>

\* The read is over, with or without success.
ReadDone(m) ==
    /\ cur = m /\ job.op = "none" /\ io[m].op = "read"
    /\ io' = [io EXCEPT ![m] = NoIo]
    /\ LET j == [NoJob EXCEPT !.to = m, !.page = io[m].page, !.why = io[m].why]
           f == io[m].frame
       IN \/ /\ data' = [data EXCEPT ![f] = FileVal]
             /\ job' = [j EXCEPT !.op = "map", !.frame = f, !.rw = io[m].rw]
             /\ UNCHANGED page_refs
          \/ /\ page_refs' = Dropped(f)
             /\ Leftover
             /\ job' = [j EXCEPT !.op = "fail"]
    /\ UNCHANGED <<spaceVars, cur, tlb, lost>>

PagesOf(m, i) == IF i \in DOMAIN areas[m] THEN areas[m][i].pages ELSE {}
Missing(m, v) == {i \in DOMAIN Path[v] : tables[m][Path[v][i]] = NoFrame}

\* One round of paging_map_range: allocate the next table that is missing, or
\* write the entry.  Tables that were added stay when a later one fails.
MapStep ==
    LET m == job.to
        v == job.page
        e == [frame |-> job.frame, rw |-> job.rw, cow |-> job.cow]
    IN /\ job.op = "map"
       /\ \/ \E i \in Missing(m, v), f \in Frame :
             /\ \A j \in Missing(m, v) : i <= j
             /\ FirstFree(f)
             /\ page_refs' = [page_refs EXCEPT ![f] = 1]
             /\ data' = [data EXCEPT ![f] = Zero]
             /\ tables' = [tables EXCEPT ![m][Path[v][i]] = f]
             /\ UNCHANGED <<pte, areas, status, cur, tlb, job, lost>>
          \/ /\ Missing(m, v) # {} /\ Exhausted
             /\ IF job.why = "fork"
                THEN \* vmm_share_block returns NULL, and llist_copy appends it
                     /\ lost' = [lost EXCEPT ![job.frame] = @ + 1]
                     /\ areas' = [areas EXCEPT ![m] = Append(@, Null)]
                     /\ job' = [job EXCEPT !.op = "share", !.frame = NoFrame,
                                    !.cow = FALSE,
                                    !.todo = PagesOf(cur, Len(areas[m]) + 2)]
                     /\ UNCHANGED <<page_refs, data>>
                ELSE /\ page_refs' = Dropped(job.frame)
                     /\ Leftover
                     /\ Fail
                     /\ UNCHANGED <<areas, lost>>
             /\ UNCHANGED <<tables, pte, status, cur, tlb>>
          \/ /\ Missing(m, v) = {}
             /\ pte' = [pte EXCEPT ![m][v] = e]
             /\ CASE job.why = "fork" ->
                       /\ job' = [job EXCEPT !.op = "share", !.frame = NoFrame,
                                             !.cow = FALSE]
                       /\ UNCHANGED <<status, cur, tlb>>
                  [] job.why = "exec" ->
                       /\ status' = [status EXCEPT ![m] = "live"]
                       /\ cur' = m /\ tlb' = Flushed /\ job' = NoJob
                  [] OTHER ->
                       /\ tlb' = Invlpg(v)
                       /\ job' = NoJob
                       /\ UNCHANGED <<status, cur>>
             /\ UNCHANGED <<page_refs, data, tables, areas, lost>>
       /\ UNCHANGED <<root, io>>

-----------------------------------------------------------------------------
(* Life and death of address spaces                                        *)

\* Mutant: the top-level table is freed twice.
HeldMutant(m, f) == Cardinality({v \in Page : pte[m][v].frame = f})
                    + Cardinality({t \in Table : tables[m][t] = f})
                    + (IF root[m] = f THEN 2 ELSE 0)

\* The references that the mappings and tables of a space hold on a frame.
Held(m, f) == Cardinality({v \in Page : pte[m][v].frame = f})
              + Cardinality({t \in Table : tables[m][t] = f})
              + (IF root[m] = f THEN 1 ELSE 0)

\* vmm_free: paging_free_pml4 frees every page, every table and the top-level
\* table once.  pmem_free_block panics on a frame that nobody holds.
VmmFree(m) ==
    /\ page_refs' = [f \in Frame |-> page_refs[f] - Held(m, f)]
    /\ Leftover
    /\ root' = [root EXCEPT ![m] = NoFrame]
    /\ tables' = [tables EXCEPT ![m] = [t \in Table |-> NoFrame]]
    /\ pte' = [pte EXCEPT ![m] = Flushed]
FreeOk(m) == \A f \in Frame : page_refs[f] >= Held(m, f)
BadFree == /\ job' = [NoJob EXCEPT !.op = "panic_free"]
           /\ UNCHANGED <<page_refs, data, spaceVars, cur, tlb, io, lost>>

\* sched_process_kill for the process on the CPU.
End(m) == IF FreeOk(m)
          THEN /\ VmmFree(m)
               /\ areas' = [areas EXCEPT ![m] = <<>>]
               /\ status' = [status EXCEPT ![m] = "free"]
               /\ cur' = None /\ job' = NoJob
               /\ UNCHANGED <<tlb, io, lost>>
          ELSE BadFree

Exit(m) == InUser(m) /\ End(m)

\* A fault that cannot be served kills the process in user mode, and panics
\* in a system call and in exec().
FailStep ==
    /\ job.op = "fail"
    /\ \/ job.why = "user" /\ End(job.to)
       \/ /\ job.why \in {"kernel", "exec"}
          /\ job' = [job EXCEPT !.op = IF job.why = "exec" THEN "panic_oom"
                                       ELSE "panic_fault"]
          /\ UNCHANGED <<page_refs, data, spaceVars, cur, tlb, io, lost>>

\* vmm_map_new; pmem_alloc_zero_page panics when there is no frame.
NewSpace(n, f) == /\ FirstFree(f)
                  /\ page_refs' = [page_refs EXCEPT ![f] = 1]
                  /\ data' = [data EXCEPT ![f] = Zero]
                  /\ root' = [root EXCEPT ![n] = f]
                  /\ status' = [status EXCEPT ![n] = "loading"]
                  /\ UNCHANGED <<tables, pte, areas>>
NoSpace == /\ Exhausted
           /\ job' = [NoJob EXCEPT !.op = "panic_oom"]
           /\ UNCHANGED <<page_refs, data, spaceVars, io>>

\* user_process_fork
Fork(m, n) ==
    /\ InUser(m) /\ status[n] = "free"
    /\ \/ /\ \E f \in Frame : NewSpace(n, f)
          /\ job' = [NoJob EXCEPT !.op = "share", !.to = n, !.why = "fork",
                                  !.todo = PagesOf(m, 1)]
          /\ UNCHANGED io
       \/ NoSpace
    /\ UNCHANGED <<cur, tlb, lost>>

\* A round of the loops of vmm_share_block: the next page of the block.
NextPage(v) == v \in job.todo /\ \A w \in job.todo : v <= w

\* Mutant: the parent goes on writing to the page that it now shares.
DowngradedMutant(e) == e

\* The entry of both sides: read-only, and copied when a writable page is written.
Downgraded(e) == [e EXCEPT !.rw = FALSE, !.cow = e.rw \/ e.cow]

SharePage ==
    /\ job.op = "share"
    /\ \E v \in Page :
       LET e == pte[cur][v]
       IN /\ NextPage(v)
          /\ \/ /\ e = NoPte
                /\ job' = [job EXCEPT !.todo = @ \ {v}]
                /\ UNCHANGED <<page_refs, pte, tlb>>
             \/ /\ e # NoPte /\ page_refs[e.frame] < MaxRefs
                /\ page_refs' = Retained(e.frame)
                /\ pte' = [pte EXCEPT ![cur][v] = Downgraded(e)]
                /\ tlb' = IF e.rw THEN Invlpg(v) ELSE tlb
                /\ job' = [job EXCEPT !.op = "map", !.page = v, !.rw = FALSE,
                              !.frame = e.frame, !.cow = e.rw \/ e.cow, !.todo = @ \ {v}]
             \/ /\ e # NoPte /\ page_refs[e.frame] = MaxRefs
                /\ job' = [job EXCEPT !.op = "panic_retain"]
                /\ UNCHANGED <<page_refs, pte, tlb>>
    /\ UNCHANGED <<data, root, tables, areas, status, cur, io, lost>>

\* The loop of llist_copy: the next block, or the end of the fork.
ShareBlock ==
    LET n == job.to
        i == Len(areas[n]) + 1
    IN /\ job.op = "share" /\ job.todo = {}
       /\ \/ /\ i \in DOMAIN areas[cur] /\ areas[cur][i] # Null
             /\ areas' = [areas EXCEPT ![n] = Append(@, areas[cur][i])]
             /\ job' = [job EXCEPT !.todo = PagesOf(cur, i + 1)]
             /\ UNCHANGED status
          \/ /\ i \in DOMAIN areas[cur] /\ areas[cur][i] = Null
             /\ job' = [job EXCEPT !.op = "wild"]
             /\ UNCHANGED <<areas, status>>
          \/ /\ i \notin DOMAIN areas[cur]
             /\ status' = [status EXCEPT ![n] = "live"]
             /\ job' = NoJob
             /\ UNCHANGED areas
       /\ UNCHANGED <<page_refs, data, root, tables, pte, cur, tlb, io, lost>>

\* exec_from_inode: a new space; the program headers are read from disk, with
\* exec_spinlock held.  Another caller spins with interrupts off for ever, and
\* no further step is left to model.
Exec(m, n) ==
    /\ InUser(m) /\ status[n] = "free"
    /\ \A k \in Space : io[k].op # "exec"
    /\ \/ /\ \E f \in Frame : NewSpace(n, f)
          /\ io' = [io EXCEPT ![m] = [NoIo EXCEPT !.op = "exec", !.next = n]]
          /\ UNCHANGED job
       \/ NoSpace
    /\ UNCHANGED <<cur, tlb, lost>>

\* The file is no program: vmm_free of the new space.
ExecFails(m) ==
    LET n == io[m].next
    IN /\ cur = m /\ job.op = "none" /\ io[m].op = "exec"
       /\ IF FreeOk(n)
          THEN /\ VmmFree(n)
               /\ status' = [status EXCEPT ![n] = "free"]
               /\ io' = [io EXCEPT ![m] = NoIo]
               /\ UNCHANGED <<areas, cur, tlb, job, lost>>
          ELSE BadFree

\* user_process_replace_exec: the old space goes, then the new one gets its
\* stack and heap, and vmm_populate_page makes its first stack page.
ExecCommits(m) ==
    LET n == io[m].next
    IN /\ cur = m /\ job.op = "none" /\ io[m].op = "exec"
       /\ IF FreeOk(m)
          THEN /\ VmmFree(m)
               /\ areas' = [areas EXCEPT ![m] = <<>>, ![n] = Image]
               /\ status' = [status EXCEPT ![m] = "free"]
               /\ io' = [io EXCEPT ![m] = NoIo]
               /\ cur' = None
               /\ job' = [NoJob EXCEPT !.op = "demand", !.to = n, !.rw = TRUE,
                                       !.page = StackTop, !.why = "exec"]
               /\ UNCHANGED <<tlb, lost>>
          ELSE BadFree

Halted == job.op \in Halts /\ UNCHANGED vars

Next ==
    \/ \E m \in Space : \/ Access(m) \/ Fault(m) \/ Sbrk(m) \/ Switch(m)
                        \/ ReadDone(m) \/ Exit(m) \/ ExecFails(m) \/ ExecCommits(m)
    \/ \E m, n \in Space : Fork(m, n) \/ Exec(m, n)
    \/ CowStep \/ DemandStep \/ MapStep \/ FailStep \/ SharePage \/ ShareBlock
    \/ Halted

Spec == Init /\ [][Next]_vars

-----------------------------------------------------------------------------

\* Every variable has its type.
TypeOK ==
    /\ page_refs \in [Frame -> Nat] /\ lost \in [Frame -> Nat]
    /\ data \in [Frame -> Val]
    /\ root \in [Space -> Frame \cup {NoFrame}]
    /\ tables \in [Space -> [Table -> Frame \cup {NoFrame}]]
    /\ pte \in [Space -> [Page -> Pte \cup {NoPte}]]
    /\ areas \in [Space -> Seq(Block)]
    /\ status \in [Space -> {"free", "loading", "live"}]
    /\ cur \in Space \cup {None}
    /\ tlb \in [Page -> Pte \cup {NoPte}]
    /\ io \in [Space -> [op : {"none", "read", "exec"}, page : Page \cup {0},
                         frame : Frame \cup {NoFrame}, rw : BOOLEAN,
                         why : {"none", "user", "kernel", "exec"},
                         next : Space \cup {None}]]
    /\ job \in [op : {"none", "cow", "demand", "map", "fail", "share"} \cup Halts,
                to : Space \cup {None}, page : Page \cup {0},
                frame : Frame \cup {NoFrame}, rw : BOOLEAN, cow : BOOLEAN,
                why : {"none", "user", "kernel", "exec", "fork"},
                todo : SUBSET Page]

\* A page that some process can write has no other holder: nobody else sees
\* what is written to it (paging_resolve_cow_fault, vmm_share_block).
WritableExclusive ==
    \A m \in Space, v \in Page : pte[m][v].rw => page_refs[pte[m][v].frame] = 1

\* A frame that serves as a page table is never also the table of another
\* process or a page that somebody can read or write, whatever was shared,
\* freed and allocated again before (paging_free_pml4, pmem_free_block).
TableFrames(m) == ({root[m]} \cup {tables[m][t] : t \in Table}) \ {NoFrame}
TablesPrivate ==
    \A m, n \in Space :
        /\ m # n => TableFrames(m) \cap TableFrames(n) = {}
        /\ \A v \in Page : pte[n][v].frame \notin TableFrames(m)

\* The count of a frame is the number of mappings, tables, handlers in
\* progress and leaked references that hold it: no frame is freed under
\* anybody, none is kept but by a fork that ran out of memory, and the panic
\* "pmem free of unreferenced page" is out of reach.
Mapped(f) == Cardinality({x \in Space \X Page : pte[x[1]][x[2]].frame = f})
Tabled(f) == Cardinality({x \in Space \X Table : tables[x[1]][x[2]] = f})
Rooted(f) == Cardinality({m \in Space : root[m] = f})
Reading(f) == Cardinality({m \in Space : io[m].frame = f})
Mapping(f) == IF job.op = "map" /\ job.frame = f THEN 1 ELSE 0
Holders(f) == Mapped(f) + Tabled(f) + Rooted(f) + Reading(f) + Mapping(f)
RefsExact == /\ \A f \in Frame : page_refs[f] = Holders(f) + lost[f]
             /\ job.op # "panic_free"

\* Whatever the TLB holds for the process on the CPU is what its page tables
\* say: every change of an entry that could be cached is followed by invlpg.
TlbCoherent ==
    cur # None => \A v \in Page : tlb[v] # NoPte => tlb[v] = pte[cur][v]

\* What the process sees, whether its pages are present or not.
Fresh(v) == IF \E i \in DOMAIN Blocks : v \in Blocks[i].pages /\ Blocks[i].file
            THEN FileVal ELSE Zero
View(m) == [v \in Page |->
              IF status[m] # "live" THEN Gone
              ELSE IF pte[m][v] # NoPte THEN data[pte[m][v].frame]
              ELSE IF \E i \in DOMAIN areas[m] : v \in areas[m][i].pages
              THEN Fresh(v) ELSE Gone]
Loaded == [v \in Page |-> IF \E i \in DOMAIN Image : v \in Image[i].pages
                          THEN Fresh(v) ELSE Gone]


\* What a space is at, as PrivateMemory names it.
At(op) == [op |-> op, page |-> 0]
FaultAt(v) == [op |-> "fault", page |-> v]
Serves(m) == job.op \in {"cow", "demand", "map", "fail"} /\ job.to = m /\ job.why # "fork"
Forks(m) == job.op \in {"share", "map"} /\ cur = m /\ job.why = "fork"
Doing(m) ==
    CASE status[m] # "live"   -> At(IF Serves(m) THEN "load" ELSE "none")
      [] status[m] = "live" /\ io[m].op = "exec" -> At("exec")
      [] status[m] = "live" /\ io[m].op = "read" -> FaultAt(io[m].page)
      [] status[m] = "live" /\ io[m].op = "none" ->
             IF Forks(m) THEN At("fork")
             ELSE IF ~Serves(m) THEN At("user")
             ELSE IF job.op = "fail" THEN At("fail") ELSE FaultAt(job.page)

\* The kinds of pages.
Growth == {Grow[i].pages : i \in DOMAIN Grow}
Writable == UNION {Blocks[i].pages : i \in {j \in DOMAIN Blocks : Blocks[j].write}}
OnDisk == UNION {Blocks[i].pages : i \in {j \in DOMAIN Blocks : Blocks[j].file}}

Memory == INSTANCE PrivateMemory
              WITH mem <- [m \in Space |-> View(m)],
                   doing <- [m \in Space |-> Doing(m)],
                   full <- Exhausted,
                   up <- job.op \notin Halts

\* Copy on write, demand paging and page-table sharing are invisible: no byte
\* of any program changes but by a store of the program that runs, to a page
\* that it may write, whatever frames are shared, copied, freed and filled
\* again behind it; a fork loses pages only when no frame was left, and a fault
\* ends a program only for a reason.  Every step of this module is a step of
\* private memories, or no step at all.
IsPrivateMemory == Memory!Spec
=============================================================================
