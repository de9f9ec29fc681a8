-------------------------------- MODULE Pty --------------------------------
(***************************************************************************)
(* A pseudo terminal (fs/pty.c): the terminal emulator writes what is      *)
(* typed to the master and reads what is shown; a shell and its jobs read  *)
(* and write the slave.  In between is the line discipline.                *)
(*                                                                         *)
(* As in Pipe, an action is the stretch of a system call up to its return  *)
(* or its sleep.  A queue is the number of bytes in it: the ring is that   *)
(* of Pipe, and nothing depends on which ordinary byte is where.  The      *)
(* flags read_wait and write_wait are always 1 where a task decides to     *)
(* sleep on them, since nothing runs in between, and are left out.         *)
(***************************************************************************)
EXTENDS Naturals, FiniteSets, Sequences

CONSTANTS Terminal,  \* processes that hold the master
          Job,       \* processes that hold the slave, each a process group
          None,
          Ignoring,  \* the processes among them that ignore signals
          Size,      \* PTY_BUFFER_SIZE
          Byte,      \* kinds of byte that are typed, see Typed
          Inputs,    \* bound: what one write() to the master may contain
          MaxCount,  \* bound: the count of other reads and writes
          Modes,     \* settings of struct termios in use
          Default    \* the first of them

ASSUME PtyAssumption ==
    /\ Terminal \cap Job = {} /\ None \notin Terminal \cup Job
    /\ IsFiniteSet(Terminal \cup Job) /\ Ignoring \subseteq Terminal \cup Job
    /\ Size \in Nat \ {0} /\ MaxCount \in Nat \ {0}
    /\ Byte \subseteq {"char", "newline", "intr", "erase", "kill", "eof"}
    /\ Inputs \subseteq Seq(Byte) /\ Default \in Modes
    /\ Modes \subseteq [icanon : BOOLEAN, echo : BOOLEAN, isig : BOOLEAN, noflsh : BOOLEAN, tostop : BOOLEAN]

Proc == Terminal \cup Job

VARIABLES
    slave_input, master_input,  \* bytes in the two queues
    canonical_length,           \* bytes of the line being edited
    slave_eof_pending,
    termios, foreground_group,
    pc,        \* "user", "gone" (its end closed), or asleep in "read", "write", "pollin", "pollout"
    asleep,    \* TASK_BLOCKED on the channel of the call in pc
    todo,      \* bytes that a read asks for or that a write has left
    signalled, \* a signal is pending that is neither masked nor ignored
    skipped,   \* history: writers asleep when room was made without a wakeup
    stranded   \* history: ICANON was switched off in the middle of a line

queues == <<slave_input, master_input, canonical_length, slave_eof_pending>>
settings == <<termios, foreground_group>>
history == <<skipped, stranded>>
vars == <<queues, settings, pc, asleep, todo, signalled, history>>

Init == /\ slave_input = 0 /\ master_input = 0 /\ canonical_length = 0
        /\ slave_eof_pending = FALSE
        /\ termios = Default /\ foreground_group = None
        /\ pc = [p \in Proc |-> "user"] /\ asleep = [p \in Proc |-> FALSE]
        /\ todo = [p \in Proc |-> <<>>] /\ signalled = [p \in Proc |-> FALSE]
        /\ skipped = {} /\ stranded = FALSE

Least(a, b) == IF a < b THEN a ELSE b
Bytes(n) == [i \in 1 .. n |-> "char"]
Holders(E) == {p \in E : pc[p] # "gone"}
Own(p) == IF p \in Terminal THEN Terminal ELSE Job
Peers(p) == Holders(Proc \ Own(p))
Polls == {"pollin", "pollout"}

\* The sleepers among the processes P in the calls C.
In(P, C) == {p \in P : asleep[p] /\ pc[p] \in C}

----------------------------------------------------------------------------
\* signal_send() to the tasks G: those it reaches.
Reached(G) == {q \in G : q \notin Ignoring /\ pc[q] # "gone"}

\* p returns from its call, signal_deliver() included: what is pending ends
\* it (then Close follows) or is handled; or p sleeps in the call c, with
\* the bytes s left.  The tasks W are made ready and G signalled; writers in
\* S are passed over.
Return(p, W, G, S) ==
    /\ asleep' = [q \in Proc |-> asleep[q] /\ q \notin W \cup Reached(G) \cup {p}]
    /\ skipped' = (skipped \cup S) \ (W \cup Reached(G) \cup {p})
    /\ pc' = [pc EXCEPT ![p] = "user"] /\ todo' = [todo EXCEPT ![p] = <<>>]
    /\ signalled' = [q \in Proc |-> q # p /\ (signalled[q] \/ q \in Reached(G))]

Block(p, c, s, W, G, S) ==
    /\ asleep' = [q \in Proc |-> q = p \/ (asleep[q] /\ q \notin W \cup Reached(G))]
    /\ skipped' = (skipped \cup S) \ (W \cup Reached(G) \cup {p})
    /\ pc' = [pc EXCEPT ![p] = c] /\ todo' = [todo EXCEPT ![p] = s]
    /\ signalled' = [q \in Proc |-> signalled[q] \/ q \in Reached(G)]

\* Mutant: a read does not tell the writers of the room it made.
ReadWakesMutant(p) == In(Proc, Polls)

\* The tasks that a read which got something wakes: the writers of its
\* queue, and everybody in poll.
ReadWakes(p) == In(Proc \ Own(p), {"write"}) \cup In(Proc, Polls)

\* One round of the loop of pty_read(), for n bytes.
ReadRound(p, n) ==
    LET queue == IF p \in Terminal THEN master_input ELSE slave_input
        k == Least(n, queue)
    IN  /\ IF p \in Terminal THEN master_input' = queue - k /\ UNCHANGED slave_input
                             ELSE slave_input' = queue - k /\ UNCHANGED master_input
        /\ slave_eof_pending' = (slave_eof_pending /\ ~(p \in Job /\ k = 0))
        /\ IF k > 0 THEN Return(p, ReadWakes(p), {}, {})
           ELSE IF \/ p \in Job /\ slave_eof_pending
                   \/ Peers(p) = {} \/ signalled[p]
                THEN Return(p, {}, {}, {})
                ELSE Block(p, "read", Bytes(n), {}, {}, {})
        /\ UNCHANGED <<canonical_length, settings, stranded>>

----------------------------------------------------------------------------
(* The line discipline: pty_write() to the master.                         *)

Echoed(st, n) == IF termios.echo THEN [st EXCEPT !.out = Least(Size, @ + n), !.echoed = TRUE] ELSE st

\* flush_canonical(); queue_byte() drops what does not fit.
Flushed(st) == [st EXCEPT !.in = Least(Size, @ + st.line), !.line = 0]

\* Mutant: only the line itself is held against the size of the queue.
LineFullMutant(st) == st.line >= Size

LineFull(st) == st.line + st.in >= Size

\* What becomes of the byte b; once one is refused, all that follow are.
Typed(st, b) ==
    IF st.left # <<>> \/ st.in >= Size THEN [st EXCEPT !.left = Append(@, b)]
    ELSE IF b = "intr" /\ termios.isig THEN
        Echoed(IF termios.noflsh THEN [st EXCEPT !.sig = TRUE]
               ELSE [st EXCEPT !.sig = TRUE, !.in = 0, !.out = 0, !.line = 0, !.cleared = TRUE],
               3)
    ELSE IF ~termios.icanon THEN [st EXCEPT !.in = @ + 1]
    ELSE CASE b = "erase" -> IF st.line = 0 THEN st ELSE Echoed([st EXCEPT !.line = @ - 1], 3)
           [] b = "kill" -> Echoed([st EXCEPT !.line = 0], 1)
           [] b = "eof" -> IF st.line = 0 THEN [st EXCEPT !.eof = TRUE] ELSE Flushed(st)
           [] OTHER -> IF LineFull(st) THEN [st EXCEPT !.left = <<b>>]
                       ELSE LET longer == Echoed([st EXCEPT !.line = @ + 1], 1)
                            IN  IF b = "newline" THEN Flushed(longer) ELSE longer

\* After the bytes s, one by one.
Discipline(s) ==
    LET start == [in |-> slave_input, out |-> master_input, line |-> canonical_length,
                  eof |-> slave_eof_pending, left |-> <<>>,
                  sig |-> FALSE, echoed |-> FALSE, cleared |-> FALSE]
        after[i \in 0 .. Len(s)] == IF i = 0 THEN start ELSE Typed(after[i - 1], s[i])
    IN  after[Len(s)]

\* Nobody holds the other end: SIGPIPE, dealt with as the call returns.
Broken(p) ==
    /\ Peers(p) = {}
    /\ Return(p, {}, {}, {})
    /\ UNCHANGED <<queues, settings, stranded>>

\* The rounds of the loop of pty_write() up to its return or its sleep.
TypeRound(p, s) ==
    \/ Broken(p)
    \/ /\ Peers(p) # {}
       /\ LET st == Discipline(s)
              some == Len(st.left) < Len(s)
              group == IF st.sig THEN {foreground_group} \cap Job ELSE {}
              wakes == (IF some THEN In(Job, {"read"}) \cup In(Proc, Polls) ELSE {})
                       \cup (IF st.echoed THEN In(Terminal, {"read"}) ELSE {})
              passed == (IF st.cleared THEN In(Job, {"write"}) ELSE {})
                        \cup (IF st.in + st.line < slave_input + canonical_length
                              THEN In(Terminal, {"write"}) ELSE {})
          IN  /\ slave_input' = st.in /\ master_input' = st.out
              /\ canonical_length' = st.line /\ slave_eof_pending' = st.eof
              /\ stranded' = (stranded /\ st.line > 0)
              /\ IF st.left = <<>> \/ signalled[p] THEN Return(p, wakes, group, passed)
                 ELSE Block(p, "write", st.left, wakes, group, passed)
       /\ UNCHANGED <<settings>>

\* The same for a write to the slave, of n bytes.
ShowRound(p, n) ==
    \/ Broken(p)
    \/ /\ Peers(p) # {}
       /\ LET k == Least(n, Size - master_input)
              wakes == IF k > 0 THEN In(Terminal, {"read"}) \cup In(Proc, Polls) ELSE {}
          IN  /\ master_input' = master_input + k
              /\ IF k = n \/ signalled[p] THEN Return(p, wakes, {}, {})
                 ELSE Block(p, "write", Bytes(n - k), wakes, {}, {})
       /\ UNCHANGED <<slave_input, canonical_length, slave_eof_pending,
                      settings, stranded>>

\* pty_status() and vfs_file_poll() for the event in c.
Ready(p, c) ==
    \/ Peers(p) = {}
    \/ c = "pollin" /\ IF p \in Terminal THEN master_input > 0
                       ELSE slave_input > 0 \/ slave_eof_pending
    \/ c = "pollout" /\ IF p \in Terminal
                        THEN slave_input + (IF termios.icanon THEN canonical_length ELSE 0) < Size
                        ELSE master_input < Size

\* One round of user_process_poll() on the one descriptor, without a timeout.
PollRound(p, c) ==
    /\ IF Ready(p, c) \/ signalled[p] THEN Return(p, {}, {}, {})
       ELSE Block(p, c, <<>>, {}, {}, {})
    /\ UNCHANGED <<queues, settings, stranded>>

----------------------------------------------------------------------------
(* System calls                                                            *)

Calls(p) == pc[p] = "user"

\* A job that is not in the foreground group fails, with a signal.
Refused(p) ==
    /\ Return(p, {}, {}, {})
    /\ UNCHANGED <<queues, settings, stranded>>

Background(p) == p \in Job /\ foreground_group # None /\ foreground_group # p

Read(p, n) ==
    /\ Calls(p)
    /\ IF Background(p) THEN Refused(p) ELSE ReadRound(p, n)

Type(p, s) == Calls(p) /\ p \in Terminal /\ TypeRound(p, s)

Show(p, n) ==
    /\ Calls(p) /\ p \in Job
    /\ IF Background(p) /\ termios.tostop THEN Refused(p) ELSE ShowRound(p, n)

Poll(p, c) == Calls(p) /\ PollRound(p, c)

\* pty_set_termios(), with TCSAFLUSH or without.  It wakes nobody but poll.
SetTermios(p, mode, flush) ==
    LET roomier == flush \/ (termios.icanon /\ ~mode.icanon)
    IN  /\ Calls(p)
        /\ termios' = mode
        /\ slave_input' = IF flush THEN 0 ELSE slave_input
        /\ canonical_length' = IF flush THEN 0 ELSE canonical_length
        /\ slave_eof_pending' = (slave_eof_pending /\ ~flush)
        /\ stranded' = (canonical_length' > 0 /\ (stranded \/ ~mode.icanon))
        /\ Return(p, In(Proc, Polls), {}, IF roomier THEN In(Terminal, {"write"}) ELSE {})
        /\ UNCHANGED <<master_input, foreground_group>>

\* tcsetpgrp(): the jobs are one session, and the terminal is another.
SetForeground(p, q) ==
    /\ Calls(p) /\ p \in Job /\ pc[q] # "gone"
    /\ foreground_group' = q
    /\ Return(p, {}, {}, {})
    /\ UNCHANGED <<queues, termios, stranded>>

\* pty_close() for the last process of an end: the other end is woken.
CloseWakes(p) ==
    IF Holders(Own(p)) = {p}
    THEN In(Peers(p), {"read", "write"}) \cup In(Proc, Polls) ELSE {}

\* close() of the last descriptor, exit(), or a signal that ends the process
End(p) ==
    /\ pc' = [pc EXCEPT ![p] = "gone"]
    /\ asleep' = [q \in Proc |-> asleep[q] /\ q \notin CloseWakes(p)]
    /\ skipped' = skipped \ CloseWakes(p)
    /\ signalled' = [signalled EXCEPT ![p] = FALSE]
    /\ UNCHANGED <<queues, settings, todo, stranded>>

Close(p) == Calls(p) /\ End(p)

Resume(p) ==
    /\ ~asleep[p]
    /\ \/ pc[p] = "read" /\ ReadRound(p, Len(todo[p]))
       \/ pc[p] = "write" /\ p \in Terminal /\ TypeRound(p, todo[p])
       \/ pc[p] = "write" /\ p \in Job /\ ShowRound(p, Len(todo[p]))
       \/ pc[p] \in Polls /\ PollRound(p, pc[p])

\* signal_send() from elsewhere
Signal(p) ==
    /\ p \in Reached({p})
    /\ signalled' = [signalled EXCEPT ![p] = TRUE]
    /\ asleep' = [asleep EXCEPT ![p] = FALSE]
    /\ skipped' = skipped \ {p}
    /\ UNCHANGED <<queues, settings, pc, todo, stranded>>

Next ==
    \E p \in Proc :
        \/ \E n \in 1 .. MaxCount : Read(p, n) \/ Show(p, n)
        \/ \E s \in Inputs : Type(p, s)
        \/ \E c \in Polls : Poll(p, c)
        \/ \E mode \in Modes, flush \in BOOLEAN : SetTermios(p, mode, flush)
        \/ \E q \in Job : SetForeground(p, q)
        \/ Close(p) \/ Resume(p) \/ Signal(p)

Spec == Init /\ [][Next]_vars

----------------------------------------------------------------------------
(* Properties                                                              *)

\* Type invariant.  The line being edited always fits behind what is queued
\* before it, so that flush_canonical() drops nothing, unless ICANON was
\* switched off in the middle of the line.
TypeOK ==
    /\ slave_input \in 0 .. Size /\ master_input \in 0 .. Size
    /\ canonical_length \in 0 .. Size
    /\ (slave_input + canonical_length <= Size \/ stranded)
    /\ slave_eof_pending \in BOOLEAN /\ termios \in Modes
    /\ foreground_group \in Job \cup {None}
    /\ pc \in [Proc -> {"user", "gone", "read", "write"} \cup Polls]
    /\ asleep \in [Proc -> BOOLEAN] /\ signalled \in [Proc -> BOOLEAN]
    /\ \A p \in Proc : asleep[p] => pc[p] \in {"read", "write"} \cup Polls

\* No wakeup is lost: a task asleep on the terminal has no signal to act on,
\* somebody holds the other end, and there is nothing to read or no room to
\* write.  Room that a signal character, an erased byte or line, TCSAFLUSH or
\* the end of ICANON makes is not announced: a writer asleep then sleeps on.
NoLostWakeup ==
    \A p \in Proc : asleep[p] =>
        /\ ~signalled[p] /\ Peers(p) # {}
        /\ pc[p] = "read" => ~Ready(p, "pollin")
        /\ pc[p] = "write" => ~Ready(p, "pollout") \/ p \in skipped
        /\ pc[p] \in Polls => ~Ready(p, pc[p])

============================================================================
