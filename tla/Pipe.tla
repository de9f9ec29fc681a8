-------------------------------- MODULE Pipe --------------------------------
(***************************************************************************)
(* One pipe (fs/pipe.c), the two open-file entries of its ends (fs/vfs.c), *)
(* the descriptors that processes hold on them, and poll (sched/ps.c).     *)
(*                                                                         *)
(* The kernel is not preempted: an action is the stretch of a system call  *)
(* up to its return, or up to the point where it sleeps.  Any process that *)
(* is not asleep may take the next step, which includes every order that   *)
(* the round-robin scheduler can produce.                                  *)
(***************************************************************************)
EXTENDS Integers, Sequences, FiniteSets

CONSTANTS
    Proc,       \* processes
    First,      \* the process that calls pipe()
    Size,       \* PIPE_BUFFER_SIZE
    MaxCount,   \* bound: the largest count passed to read() and write()
    MaxBytes,   \* bound: no write is started that would take the total past it
    MaxFds      \* MAX_TASK_OPEN_FILES

ASSUME PipeAssumption ==
    /\ First \in Proc
    /\ Size \in Nat \ {0}
    /\ MaxCount \in Nat \ {0}
    /\ MaxBytes \in Nat
    /\ MaxFds \in Nat /\ MaxFds >= 2
    /\ IsFiniteSet(Proc)

Ends == {"r", "w"}
Places == 0 .. Size - 1
Fds == 0 .. MaxFds - 1

VARIABLES
    \* struct pipe_data; byte number k of the stream has the value k
    buffer, read_pos, write_pos, used, readers, writers, read_wait, write_wait,
    freed,
    refcount,   \* of the open-file entry of each end
    open_fds,   \* the end that each descriptor of each process refers to
    pc,         \* "none", "user", "ret", or asleep in "read", "write", "poll"
    asleep,     \* TASK_BLOCKED on the wait channel of the call in pc
    todo,       \* bytes a read or write asks for, the end a poll looks at
    signalled,  \* a signal is pending that is neither masked nor ignored
    put, got,   \* bytes ever copied into and out of the pipe
    eof         \* some read has returned 0

pipeVars == <<buffer, read_pos, write_pos, used, readers, writers,
              read_wait, write_wait, freed>>
fileVars == <<refcount, open_fds>>
procVars == <<pc, asleep, todo, signalled>>
vars == <<pipeVars, fileVars, procVars, put, got, eof>>

\* vfs_create_pipe and user_process_pipe
Init ==
    /\ buffer = [i \in Places |-> 0]
    /\ read_pos = 0 /\ write_pos = 0 /\ used = 0
    /\ readers = 1 /\ writers = 1
    /\ read_wait = 0 /\ write_wait = 0
    /\ freed = FALSE
    /\ refcount = [e \in Ends |-> 1]
    /\ open_fds = [p \in Proc |-> [d \in Fds |->
                      IF p # First THEN "none"
                      ELSE IF d = 0 THEN "r" ELSE IF d = 1 THEN "w" ELSE "none"]]
    /\ pc = [p \in Proc |-> IF p = First THEN "user" ELSE "none"]
    /\ asleep = [p \in Proc |-> FALSE]
    /\ todo = [p \in Proc |-> 0]
    /\ signalled = [p \in Proc |-> FALSE]
    /\ put = 0 /\ got = 0 /\ eof = FALSE

MinOf(a, b) == IF a < b THEN a ELSE b

\* sched_wakeup on the channels named; a poller sleeps on sched_io_generation.
Woken(channels) ==
    [p \in Proc |-> IF pc[p] \in channels THEN FALSE ELSE asleep[p]]

-----------------------------------------------------------------------------
\* The call returns, through signal_deliver, with the tasks in aw awake.
Return(p, aw) ==
    /\ pc' = [pc EXCEPT ![p] = "ret"]
    /\ asleep' = [aw EXCEPT ![p] = FALSE]
    /\ todo' = [todo EXCEPT ![p] = 0]

\* sched_sleep_on_if, sched_io_wait: sleep in the call c.
Block(p, c, n, aw) ==
    /\ pc' = [pc EXCEPT ![p] = c]
    /\ asleep' = [aw EXCEPT ![p] = TRUE]
    /\ todo' = [todo EXCEPT ![p] = n]

\* The ring position d places after pos.
After(pos, d) == (pos + d) % Size

\* Mutant: an empty ring is taken for the end.
AtEndMutant == used = 0

\* pipe_read returns 0 on an empty ring that nobody can write to any more.
AtEnd == used = 0 /\ writers = 0

\* One round of the loop of pipe_read, for n bytes.
ReadRound(p, n) ==
    /\ LET k == MinOf(n, used)
       IN \/ /\ k > 0
             /\ read_pos' = After(read_pos, k)
             /\ used' = used - k
             /\ write_wait' = 0
             /\ got' = got + k
             /\ Return(p, Woken({"write", "poll"}))
             /\ UNCHANGED <<read_wait, eof>>
          \/ /\ AtEnd
             /\ eof' = TRUE
             /\ Return(p, asleep)
             /\ UNCHANGED <<read_pos, used, read_wait, write_wait, got>>
          \/ /\ k = 0 /\ ~AtEnd
             /\ IF signalled[p]
                THEN Return(p, asleep) /\ UNCHANGED read_wait
                ELSE Block(p, "read", n, asleep) /\ read_wait' = 1
             /\ UNCHANGED <<read_pos, used, write_wait, got, eof>>
    /\ UNCHANGED <<buffer, write_pos, readers, writers, freed, fileVars,
                   signalled, put>>

\* Mutant: the ring is not wrapped around.
CopiedInMutant(k) ==
    [i \in Places |-> IF i \in write_pos .. write_pos + k - 1
                      THEN put + 1 + i - write_pos ELSE buffer[i]]

\* The ring after k more bytes
CopiedIn(k) ==
    [i \in Places |-> IF \E d \in 0 .. k - 1 : i = After(write_pos, d)
                      THEN put + 1 + (CHOOSE d \in 0 .. k - 1 : i = After(write_pos, d))
                      ELSE buffer[i]]

\* One round of the loop of pipe_write, with n bytes left to write.
WriteRound(p, n) ==
    /\ \/ /\ readers = 0
          /\ signalled' = [signalled EXCEPT ![p] = TRUE]      \* SIGPIPE
          /\ Return(p, asleep)
          /\ UNCHANGED <<buffer, write_pos, used, read_wait, write_wait, put>>
       \/ /\ readers > 0
          /\ LET k == MinOf(n, Size - used)
                 aw == IF k > 0 THEN Woken({"read", "poll"}) ELSE asleep
             IN /\ buffer' = CopiedIn(k)
                /\ write_pos' = After(write_pos, k)
                /\ used' = used + k
                /\ put' = put + k
                /\ read_wait' = IF k > 0 THEN 0 ELSE read_wait
                /\ write_wait' = IF k < n THEN 1 ELSE write_wait
                /\ IF k = n \/ signalled[p] THEN Return(p, aw)
                   ELSE Block(p, "write", n - k, aw)
          /\ UNCHANGED signalled
    /\ UNCHANGED <<read_pos, readers, writers, freed, fileVars, got, eof>>

\* vfs_file_poll and pipe_status on one end, for the event of that end.
Ready(e) == IF e = "r" THEN used > 0 \/ writers = 0
            ELSE (readers > 0 /\ used < Size) \/ readers = 0

\* One round of the loop of user_process_poll, on one descriptor, no timeout.
\* Nothing runs between the scan and sched_io_wait, so that the generation
\* it compares is always the one of the scan.
PollRound(p, e) ==
    /\ IF Ready(e) \/ signalled[p]
       THEN Return(p, asleep)
       ELSE Block(p, "poll", IF e = "r" THEN 0 ELSE 1, asleep)
    /\ UNCHANGED <<pipeVars, fileVars, signalled, put, got, eof>>

-----------------------------------------------------------------------------
(* System calls *)

Holds(p, e) == \E d \in Fds : open_fds[p][d] = e

Read(p, n) == pc[p] = "user" /\ Holds(p, "r") /\ ReadRound(p, n)
Write(p, n) == /\ pc[p] = "user" /\ Holds(p, "w")
               /\ put + n <= MaxBytes
               /\ WriteRound(p, n)
Poll(p, e) == pc[p] = "user" /\ Holds(p, e) /\ PollRound(p, e)

\* A task that was woken goes on with the loop it slept in.
Resume(p) ==
    /\ ~asleep[p]
    /\ \/ pc[p] = "read" /\ ReadRound(p, todo[p])
       \/ pc[p] = "write" /\ WriteRound(p, todo[p])
       \/ pc[p] = "poll" /\ PollRound(p, IF todo[p] = 0 THEN "r" ELSE "w")

\* Mutant: an entry loses one reference however many descriptors go.
ReleasedMutant(p, D) ==
    [e \in Ends |-> refcount[e] - IF \E d \in D : open_fds[p][d] = e THEN 1 ELSE 0]

\* vfs_close_file on the descriptors D of p: what is left of the reference counts.
Released(p, D) ==
    [e \in Ends |-> refcount[e] - Cardinality({d \in D : open_fds[p][d] = e})]

\* Mutant: the closed end's own sleepers are woken.
ClosingWakesMutant(shutR, shutW) ==
    (IF shutR THEN {"read", "poll"} ELSE {}) \cup (IF shutW THEN {"write", "poll"} ELSE {})

\* The channels pipe_close wakes: those of the other end, and poll.
ClosingWakes(shutR, shutW) ==
    (IF shutW THEN {"read", "poll"} ELSE {}) \cup (IF shutR THEN {"write", "poll"} ELSE {})

\* pipe_close for an entry that lost its last reference; the last end that
\* closes frees the pipe.
CloseEnds(count) ==
    LET shutR == refcount["r"] > 0 /\ count["r"] = 0
        shutW == refcount["w"] > 0 /\ count["w"] = 0
    IN /\ readers' = IF shutR THEN readers - 1 ELSE readers
       /\ writers' = IF shutW THEN writers - 1 ELSE writers
       /\ read_wait' = IF shutW THEN 0 ELSE read_wait
       /\ write_wait' = IF shutR THEN 0 ELSE write_wait
       /\ freed' = (freed \/ ((shutR \/ shutW) /\ count["r"] = 0 /\ count["w"] = 0))
       /\ asleep' = Woken(ClosingWakes(shutR, shutW))
    /\ UNCHANGED <<buffer, read_pos, write_pos, used>>

Close(p, d) ==
    /\ pc[p] = "user" /\ open_fds[p][d] # "none"
    /\ refcount' = Released(p, {d})
    /\ CloseEnds(Released(p, {d}))
    /\ open_fds' = [open_fds EXCEPT ![p][d] = "none"]
    /\ pc' = [pc EXCEPT ![p] = "ret"]
    /\ UNCHANGED <<todo, signalled, put, got, eof>>

\* dup2, which closes the descriptor it replaces; dup and dupfd choose a
\* free one.
Dup2(p, old, new) ==
    /\ pc[p] = "user" /\ open_fds[p][old] # "none" /\ old # new
    /\ CloseEnds(Released(p, {new}))
    /\ refcount' = [Released(p, {new}) EXCEPT ![open_fds[p][old]] = @ + 1]
    /\ open_fds' = [open_fds EXCEPT ![p][new] = open_fds[p][old]]
    /\ pc' = [pc EXCEPT ![p] = "ret"]
    /\ UNCHANGED <<todo, signalled, put, got, eof>>

\* Mutant: the child's descriptors are not counted.
ClonedMutant(p) == refcount

\* user_process_fork: vfs_clone_file on every descriptor
Cloned(p) == [e \in Ends |-> refcount[e] + Cardinality({d \in Fds : open_fds[p][d] = e})]

Fork(p, q) ==
    /\ pc[p] = "user" /\ pc[q] = "none"
    /\ open_fds' = [open_fds EXCEPT ![q] = open_fds[p]]
    /\ refcount' = Cloned(p)
    /\ pc' = [pc EXCEPT ![q] = "user"]
    /\ UNCHANGED <<pipeVars, asleep, todo, signalled, put, got, eof>>

\* exit() or a fatal fault or signal: sched_process_kill closes every descriptor.
End(p) ==
    /\ refcount' = Released(p, Fds)
    /\ CloseEnds(Released(p, Fds))
    /\ open_fds' = [open_fds EXCEPT ![p] = [d \in Fds |-> "none"]]
    /\ pc' = [pc EXCEPT ![p] = "none"]
    /\ todo' = [todo EXCEPT ![p] = 0]
    /\ signalled' = [signalled EXCEPT ![p] = FALSE]
    /\ UNCHANGED <<put, got, eof>>

Exit(p) == pc[p] = "user" /\ End(p)

\* signal_send from another process or an interrupt
Signal(p) ==
    /\ pc[p] # "none"
    /\ signalled' = [signalled EXCEPT ![p] = TRUE]
    /\ asleep' = [asleep EXCEPT ![p] = FALSE]
    /\ UNCHANGED <<pipeVars, fileVars, pc, todo, put, got, eof>>

\* signal_deliver: a fatal signal ends the process, a handler or nothing
\* pending lets it go on.
Deliver(p) ==
    /\ pc[p] = "ret"
    /\ \/ /\ pc' = [pc EXCEPT ![p] = "user"]
          /\ signalled' = [signalled EXCEPT ![p] = FALSE]
          /\ UNCHANGED <<pipeVars, fileVars, asleep, todo, put, got, eof>>
       \/ signalled[p] /\ End(p)

-----------------------------------------------------------------------------
Next ==
    \E p \in Proc :
        \/ \E n \in 1 .. MaxCount : Read(p, n) \/ Write(p, n)
        \/ \E e \in Ends : Poll(p, e)
        \/ \E d \in Fds : Close(p, d) \/ \E new \in Fds : Dup2(p, d, new)
        \/ \E q \in Proc : Fork(p, q)
        \/ Resume(p) \/ Exit(p) \/ Signal(p) \/ Deliver(p)

Spec == Init /\ [][Next]_vars

\* A task that is awake gets the CPU; the kernel returns from its calls.
Fairness == \A p \in Proc : WF_vars(Resume(p)) /\ WF_vars(Deliver(p))
FairSpec == Spec /\ Fairness

-----------------------------------------------------------------------------
(* Properties *)

\* The bytes in the ring, oldest first.
Contents == [i \in 1 .. used |-> buffer[After(read_pos, i - 1)]]

\* Type invariant.
TypeOK ==
    /\ buffer \in [Places -> Nat]
    /\ read_pos \in Places /\ write_pos \in Places /\ used \in 0 .. Size
    /\ readers \in {0, 1} /\ writers \in {0, 1}
    /\ read_wait \in {0, 1} /\ write_wait \in {0, 1}
    /\ freed \in BOOLEAN
    /\ refcount \in [Ends -> Nat]
    /\ open_fds \in [Proc -> [Fds -> Ends \cup {"none"}]]
    /\ pc \in [Proc -> {"none", "user", "ret", "read", "write", "poll"}]
    /\ asleep \in [Proc -> BOOLEAN]
    /\ todo \in [Proc -> Nat]
    /\ signalled \in [Proc -> BOOLEAN]
    /\ put \in Nat /\ got \in Nat /\ eof \in BOOLEAN

\* Through dup2, fork, close and exit in any order, an open-file entry counts
\* exactly the descriptors that refer to it, an end is open as long as there
\* is one, and the memory of the pipe is freed when there is none.
RefcountsExact ==
    /\ \A e \in Ends :
           refcount[e] = Cardinality({x \in Proc \X Fds : open_fds[x[1]][x[2]] = e})
    /\ readers = (IF refcount["r"] > 0 THEN 1 ELSE 0)
    /\ writers = (IF refcount["w"] > 0 THEN 1 ELSE 0)
    /\ freed <=> (readers = 0 /\ writers = 0)

\* The pipe a task will look at when it wakes up inside read, write or poll
\* has not been freed meanwhile by whatever the other processes closed.
SleeperNotFreed == \A p \in Proc : pc[p] \in {"read", "write", "poll"} => ~freed

\* No wakeup is lost: a task that sleeps in read, write or poll has no byte to
\* read, no room to write, no closed other end and no signal to act on.
NoLostWakeup ==
    \A p \in Proc : asleep[p] =>
        /\ ~signalled[p]
        /\ pc[p] = "read" => used = 0 /\ writers > 0
        /\ pc[p] = "write" => used = Size /\ readers > 0
        /\ pc[p] = "poll" => ~Ready(IF todo[p] = 0 THEN "r" ELSE "w")

\* The bytes in the ring are those written and not yet read, in order: none
\* is lost, repeated or overtaken when positions wrap around.
InOrder ==
    /\ put = got + used
    /\ write_pos = After(read_pos, used)
    /\ \A i \in 1 .. used : Contents[i] = got + i

\* Once the last writer is gone every reader gets out of its read, and once
\* the last reader is gone every writer out of its write.
SleepersSeeEnd ==
    \A p \in Proc :
        /\ (pc[p] = "read" /\ writers = 0) ~> pc[p] # "read"
        /\ (pc[p] = "write" /\ readers = 0) ~> pc[p] # "write"

\* The ring, its counters and flags implement an ordered stream of bytes.
Stream == INSTANCE ByteStream WITH
    stream <- Contents, readEnd <- readers > 0, writeEnd <- writers > 0,
    eofSeen <- eof
IsByteStream == Stream!Spec
=============================================================================
