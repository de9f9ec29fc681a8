------------------------------- MODULE MCVmm -------------------------------
(* Small instances of Vmm for TLC. *)
EXTENDS Vmm, TLC

CONSTANTS m1, m2, dir, ts, th

\* A stack page, a page of the executable and a heap page.  The first two share
\* the table they are in, as neighbouring pages do, the heap is far from them.
\* Levels of the page table that would hold one entry only are left out.
MCPage == 1 .. 3
MCPath == << <<ts>>, <<ts>>, <<dir, th>> >>
MCImage == << [pages |-> {1}, write |-> TRUE, file |-> FALSE],
              [pages |-> {2}, write |-> FALSE, file |-> TRUE] >>
MCGrow == << [pages |-> {3}, write |-> TRUE, file |-> FALSE] >>
=============================================================================
