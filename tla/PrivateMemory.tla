--------------------------- MODULE PrivateMemory ---------------------------
(***************************************************************************)
(* What the memory system promises to user programs: every address space   *)
(* has its own memory, fork() copies it, fresh memory has its initial      *)
(* contents, and a byte changes only where the program on the CPU, running *)
(* in user mode or copying for a system call, stores to a page that it may *)
(* write.  A space goes when its program exits, when exec() replaces it,   *)
(* or when a fault cannot be served, and for a fault there is a reason;    *)
(* the copy of a fork lacks pages only when memory had run out.            *)
(* Frames, page tables, sharing and the service of faults are not          *)
(* mentioned: while the kernel works, nothing of a memory changes.         *)
(***************************************************************************)
CONSTANTS Space, None, Page, Val,
          Gone,       \* the contents of a page that is not there
          Loaded,     \* the contents of a space when its program starts
          Zero,       \* the contents of memory that sbrk() adds
          Growth,     \* the sets of pages that sbrk() adds at a time
          Writable,   \* the pages that a program may write
          OnDisk      \* the pages that are read from the executable

VARIABLES mem,        \* contents of every page of every space
          cur,        \* the space on the CPU
          doing,      \* what each space is at, and a fault at which page
          full,       \* no frame is left
          up          \* the kernel has not stopped

vars == <<mem, cur, doing, full, up>>

Empty == [v \in Page |-> Gone]
At(op) == [op |-> op, page |-> 0]
FaultAt(v) == [op |-> "fault", page |-> v]

Init == /\ mem = [m \in Space |-> Empty]
        /\ cur = None
        /\ up = TRUE
        /\ \E m \in Space :
               doing = [n \in Space |-> At(IF n = m THEN "load" ELSE "none")]

\* The space on the CPU turns from one thing to another.
Turns(m, from, to) == /\ cur = m /\ doing[m] = from
                      /\ doing' = [doing EXCEPT ![m] = to]

Calls(m) == \/ Turns(m, At("user"), At("fork"))
            \/ Turns(m, At("user"), At("exec"))
            \/ \E v \in Page : Turns(m, At("user"), FaultAt(v))

Returns(m) == \/ Turns(m, At("exec"), At("user"))
              \/ \E v \in Page : Turns(m, FaultAt(v), At("user"))

\* A fault is fatal at a page that is not the program's, at a page that is not
\* to be written, when memory has run out, or when the disk does not answer.
GivesUp(m) == \E v \in Page : /\ Turns(m, FaultAt(v), At("fail"))
                              /\ \/ mem[m][v] = Gone
                                 \/ v \notin Writable
                                 \/ v \in OnDisk
                                 \/ full

\* What the kernel does for the space on the CPU changes no memory.
Kernel(m) == /\ Calls(m) \/ Returns(m) \/ GivesUp(m)
             /\ UNCHANGED <<mem, cur>>

Sleep(m) == /\ cur = m /\ doing[m].op = "fault"
            /\ cur' = None
            /\ UNCHANGED <<mem, doing>>

Switch(m) == /\ m # cur /\ doing[m].op \in {"user", "fault", "exec"}
             /\ \A n \in Space : doing[n].op \notin {"fork", "load", "fail"}
             /\ cur' = m
             /\ UNCHANGED <<mem, doing>>

Store(m) == /\ cur = m /\ doing[m] = At("user")
            /\ \E v \in Writable, x \in Val :
                   mem[m][v] # Gone /\ mem' = [mem EXCEPT ![m][v] = x]
            /\ UNCHANGED <<cur, doing>>

Extend(m) == /\ cur = m /\ doing[m] = At("user")
             /\ \E V \in Growth :
                    /\ \A v \in V : mem[m][v] = Gone
                    /\ mem' = [mem EXCEPT ![m] = [v \in Page |->
                                   IF v \in V THEN Zero ELSE mem[m][v]]]
             /\ UNCHANGED <<cur, doing>>

\* The child has a copy, and both run.
Forked(m, n) == /\ cur = m /\ doing[m] = At("fork")
                /\ mem[n] = Empty /\ doing[n] = At("none")
                /\ \E L \in SUBSET Page :
                       /\ L # {} => full
                       /\ mem' = [mem EXCEPT ![n] = [v \in Page |->
                                      IF v \in L THEN Gone ELSE mem[m][v]]]
                /\ doing' = [doing EXCEPT ![m] = At("user"), ![n] = At("user")]
                /\ UNCHANGED cur

Discard(m) == /\ cur = m /\ cur' = None
              /\ mem' = [mem EXCEPT ![m] = Empty]

\* exit, or the end of a program whose fault was fatal
Ends(m) == /\ doing[m] \in {At("user"), At("fail")}
           /\ Discard(m)
           /\ doing' = [doing EXCEPT ![m] = At("none")]

\* exec: the old program's memory goes, the new one's is made.
Replaced(m, n) == /\ doing[m] = At("exec") /\ doing[n] = At("none")
                  /\ Discard(m)
                  /\ doing' = [doing EXCEPT ![m] = At("none"), ![n] = At("load")]

Load(m) == /\ cur = None /\ doing[m] = At("load") /\ mem[m] = Empty
           /\ mem' = [mem EXCEPT ![m] = Loaded]
           /\ cur' = m
           /\ doing' = [doing EXCEPT ![m] = At("user")]

\* A panic; nothing is promised of a kernel that has stopped.
Stop == up' = FALSE /\ UNCHANGED mem

Runs == /\ \/ \E m \in Space : \/ Kernel(m) \/ Sleep(m) \/ Switch(m) \/ Store(m)
                               \/ Extend(m) \/ Ends(m) \/ Load(m)
           \/ \E m, n \in Space : Forked(m, n) \/ Replaced(m, n)
        /\ up' = up

\* Frames are taken and given back at any time.
Next == up = TRUE /\ (Runs \/ Stop \/ UNCHANGED <<mem, cur, doing, up>>)

Spec == Init /\ [][Next]_vars
=============================================================================
