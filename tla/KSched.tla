------------------------------- MODULE KSched -------------------------------
(***************************************************************************)
(* The process core of the kernel: the task table and the round-robin      *)
(* scheduler (sched/sched.c), process creation, replacement, exit and wait *)
(* (sched/sched.c, sched/ps.c) and signals (sched/signal.c).               *)
(*                                                                         *)
(* Every gate is an interrupt gate and the kernel runs with interrupts off *)
(* on one CPU, so a system call or interrupt runs to its end or to the     *)
(* next schedule() with nothing in between.  `phase' is the point that the *)
(* CPU has reached:                                                        *)
(*   "user"    user code (or the idle loop) runs; interrupts may arrive;   *)
(*   "kernel"  the scheduler just resumed prev_task inside a system call;  *)
(*   "deliver" signal_deliver, on the way from a system call to user mode; *)
(*   "sched"   schedule_impl;                                              *)
(*   "panic_notask", "panic_full"  the two panics of the task table;       *)
(*   "wild"    a task was resumed from a stack pointer no schedule() saved.*)
(* Each action below is one such stretch; only in "user" is there a choice *)
(* of who acts, and the other phases each have exactly one continuation.   *)
(***************************************************************************)
EXTENDS Integers, Sequences, FiniteSets

CONSTANTS
    MaxTasks,   \* SCHED_MAX_TASKS: slots of the task table
    MaxPid,     \* bound: no fork or exec is tried once the pid counter is past it
    Signals,    \* the signal numbers in use
    Sendable,   \* bound: the signals that kill() and the keyboard send
    Catchable,  \* bound: the signals whose action user code changes
    MaskSets,   \* bound: the sets user code passes as signal masks
    MaxFrames,  \* signal frames that fit on a user stack
    MaxSleep    \* bound: the longest sleep, in ticks

SIGINT == 2
SIGQUIT == 3
SIGKILL == 9
SIGSTOP == 17
SIGTSTP == 18
SIGCONT == 19
SIGCHLD == 20
SIGTTIN == 21
SIGTTOU == 22
SIGWINCH == 28

ASSUME KSchedAssumption ==
    /\ MaxTasks \in Nat /\ MaxTasks >= 2
    /\ MaxPid \in Nat /\ MaxPid >= 1
    /\ Signals \subseteq 1 .. 31
    /\ {SIGKILL, SIGSTOP, SIGCONT, SIGCHLD} \subseteq Signals
    /\ Sendable \subseteq Signals
    /\ Catchable \subseteq Signals
    /\ MaskSets \subseteq SUBSET Signals
    /\ MaxFrames \in Nat
    /\ MaxSleep \in Nat

Slots == 0 .. MaxTasks - 1
IDLE == 0           \* the idle kernel thread's slot; IDLE_PID is its pid too
INIT_PID == 1
NoPid == -1         \* pid of a free slot

UnmaskableMutant == {SIGKILL}
Unmaskable == {SIGKILL, SIGSTOP}
StopSignals == {SIGSTOP, SIGTSTP, SIGTTIN, SIGTTOU}
DefaultIgnored == {SIGCHLD, SIGCONT, SIGWINCH}
TerminalSignals == {SIGINT, SIGQUIT, SIGTSTP}

VARIABLES
    pid, parent, state, wait_channel,  \* struct ktask, one function per field
    timer, left,        \* timer.state, and the ticks until timer.end_time
    pending, mask, action, stop_reported,
    frames,     \* the signal masks saved in the frames on the user stack
    saved,      \* s_rsp is a context saved on the task's present kernel stack
    kpc,        \* where the task resumes: in user code or inside a system call
    wait_req,   \* the arguments of the wait() a task sleeps in
    holder,     \* the task whose call has the disk driver's mutex, or -1
    prev_task, next_task, next_pid, phase

taskVars == <<pid, parent, state, wait_channel, timer, left, pending, mask,
              action, stop_reported, frames, saved, kpc, wait_req>>
vars == <<taskVars, holder, prev_task, next_task, next_pid, phase>>

States == {"RUNNING", "READY", "NEW", "BLOCKED", "STOPPED", "DONE"}
Handlers == {"DFL", "IGN", "CATCH"}
Actions == [handler : Handlers, mask : SUBSET Signals]
WaitReqs == [req : {-1} \cup Nat, untraced : BOOLEAN]
DefaultAction == [handler |-> "DFL", mask |-> {}]
NoWait == [req |-> -1, untraced |-> FALSE]
Phases == {"user", "kernel", "deliver", "sched",
           "panic_notask", "panic_full", "wild"}

(***************************************************************************)
(* Boot: kernel() adds the idle thread and execs init; the next timer      *)
(* interrupt calls schedule() with no task current.                        *)
(***************************************************************************)
Init ==
    /\ pid = [s \in Slots |-> IF s <= 1 THEN s ELSE NoPid]
    /\ parent = [s \in Slots |-> IF s = IDLE THEN -1 ELSE 0]
    /\ state = [s \in Slots |-> IF s <= 1 THEN "NEW" ELSE "RUNNING"]
    /\ wait_channel = [s \in Slots |-> "none"]
    /\ timer = [s \in Slots |-> "UNUSED"]
    /\ left = [s \in Slots |-> 0]
    /\ pending = [s \in Slots |-> {}]
    /\ mask = [s \in Slots |-> {}]
    /\ action = [s \in Slots |-> [sg \in Signals |-> DefaultAction]]
    /\ stop_reported = [s \in Slots |-> FALSE]
    /\ frames = [s \in Slots |-> <<>>]
    /\ saved = [s \in Slots |-> FALSE]
    /\ kpc = [s \in Slots |-> "user"]
    /\ wait_req = [s \in Slots |-> NoWait]
    /\ holder = -1
    /\ prev_task = -1
    /\ next_task = 0
    /\ next_pid = 2
    /\ phase = "sched"

-----------------------------------------------------------------------------
(* schedule_impl *)

\* Mutant: a timer that has just run out is not seen.
AfterTimersMutant(st) ==
    [s \in Slots |-> IF st[s] # "STOPPED" /\ timer[s] = "RUNNING"
                     THEN "BLOCKED" ELSE st[s]]

\* update_timers(): what the timers make of the task states st.
AfterTimers(st) ==
    [s \in Slots |->
        IF st[s] # "STOPPED" /\ timer[s] = "RUNNING"
        THEN IF left[s] = 0 THEN "READY" ELSE "BLOCKED"
        ELSE st[s]]

\* Mutant: the task switched away from keeps its state.
YieldedMutant == state

\* prev_task gives the CPU up unless something already changed its state.
Yielded == [s \in Slots |-> IF s = prev_task /\ state[s] = "RUNNING"
                            THEN "READY" ELSE state[s]]

Startable(st) == {s \in Slots : st[s] \in {"NEW", "READY"}}
Runnable(st) == {s \in Startable(st) : pid[s] # NoPid}

\* Mutant: every search starts at slot 0.
FirstAfterMutant(i, j, R) == j \in R /\ \A k \in R : j <= k

\* find_next_task(i): j is the first runnable slot after i, cyclically.
FirstAfter(i, j, R) ==
    /\ j \in R
    /\ \A k \in R : (j - i - 1) % MaxTasks <= (k - i - 1) % MaxTasks

\* The idle slot is passed over while another task can run.
SkipIdle(i, R) == i = IDLE /\ R \ {IDLE} # {}

\* The slot at which the loop of schedule_impl stops.
Picks(c, st) ==
    LET R == Runnable(st)
    IN IF next_task \in Startable(st) /\ ~SkipIdle(next_task, R)
       THEN c = next_task
       ELSE \E m \in R : /\ FirstAfter(next_task, m, R)
                         /\ IF SkipIdle(m, R) THEN FirstAfter(m, c, R) ELSE c = m

\* Switch to slot c, whose state before the switch is st[c].
SwitchTo(c, st) ==
    /\ prev_task' = c
    /\ state' = [st EXCEPT ![c] = "RUNNING"]
    /\ phase' = IF st[c] = "NEW" \/ (saved'[c] /\ kpc[c] = "user") THEN "user"
                ELSE IF saved'[c] THEN "kernel" ELSE "wild"

Schedule ==
    /\ phase = "sched"
    /\ LET st == AfterTimers(Yielded)
           R == Runnable(st)
       IN IF R = {}
          THEN /\ phase' = "panic_notask"
               /\ UNCHANGED <<taskVars, prev_task, next_task>>
          ELSE
             /\ saved' = [s \in Slots |->
                    IF s = prev_task /\ state[s] \notin {"NEW", "DONE"}
                    THEN TRUE ELSE saved[s]]
             /\ timer' = [s \in Slots |->
                    IF state[s] # "STOPPED" /\ timer[s] = "RUNNING" /\ left[s] = 0
                    THEN "EXPIRED" ELSE timer[s]]
             /\ \E c \in Startable(st), n \in R :
                    /\ Picks(c, st)
                    /\ FirstAfter(c, n, R)
                    /\ SwitchTo(c, st)
                    /\ next_task' = n
             /\ UNCHANGED <<pid, parent, wait_channel, left, pending, mask,
                            action, stop_reported, frames, kpc, wait_req>>
    /\ UNCHANGED <<holder, next_pid>>

-----------------------------------------------------------------------------
(* Signals: sending *)

Ignored(s, sg) == \/ action[s][sg].handler = "IGN"
                  \/ action[s][sg].handler = "DFL" /\ sg \in DefaultIgnored

\* Mutant: only signals with a handler count.
HasUnmaskedPendingMutant(s) ==
    \E sg \in pending[s] \ mask[s] : action[s][sg].handler = "CATCH"

\* signal_has_unmasked_pending
HasUnmaskedPending(s) == \E sg \in pending[s] \ mask[s] : ~Ignored(s, sg)

\* Mutant: a zombie can still be signalled.
ReachesMutant(s) == s # IDLE /\ pid[s] # NoPid

\* signal_send finds a user task that is not DONE.
Reaches(s) == s # IDLE /\ pid[s] # NoPid /\ state[s] # "DONE"

\* Mutant: SIGKILL is no different from other signals.
MakesReadyMutant(sg, st) == st = "BLOCKED"

\* A signal that stays pending ends a sleep, and SIGKILL a stop too.
MakesReady(sg, st) == st = "BLOCKED" \/ sg = SIGKILL

\* signal_send(pid[s], sg)
SignalSend(s, sg) ==
    LET continued == IF sg = SIGCONT /\ state[s] = "STOPPED"
                     THEN "READY" ELSE state[s]
        unstopped == IF sg = SIGCONT THEN pending[s] \ StopSignals ELSE pending[s]
        dropped == Ignored(s, sg) /\ sg \notin Unmaskable
        wakes == ~dropped /\ MakesReady(sg, continued)
    IN /\ pending' = [pending EXCEPT ![s] = IF dropped THEN unstopped
                                            ELSE unstopped \cup {sg}]
       /\ state' = [state EXCEPT ![s] = IF wakes THEN "READY" ELSE continued]
       /\ wait_channel' = [wait_channel EXCEPT ![s] = IF wakes THEN "none" ELSE @]
       /\ timer' = [timer EXCEPT ![s] = IF wakes THEN "UNUSED" ELSE @]
       /\ stop_reported' = [stop_reported EXCEPT ![s] = IF sg = SIGCONT THEN FALSE ELSE @]

\* The parts of the state a signal leaves alone.
SignalFrame == UNCHANGED <<pid, parent, left, mask, action, frames, saved, kpc,
                           wait_req, holder, prev_task, next_task, next_pid>>

-----------------------------------------------------------------------------
(* Process end: sched_process_kill on the current task *)

\* Mutant: zombies are not handed over.
ReparentedMutant(p) ==
    [s \in Slots |-> IF pid[s] # NoPid /\ parent[s] = p /\ state[s] # "DONE"
                     THEN INIT_PID ELSE parent[s]]

\* Children of process p, dead or alive, are handed to init.
Reparented(p) == [s \in Slots |-> IF pid[s] # NoPid /\ parent[s] = p
                                  THEN INIT_PID ELSE parent[s]]

\* A change of a child's state makes SIGCHLD pending at a parent that
\* catches it, and wakes a parent that sleeps in wait().
TellParent(p, pend) ==
    /\ pending' = [s \in Slots |->
           IF pid[s] = p /\ action[s][SIGCHLD].handler = "CATCH"
           THEN pend[s] \cup {SIGCHLD} ELSE pend[s]]
    /\ wait_channel' = [s \in Slots |->
           IF pid[s] = p /\ wait_channel[s] = "self" THEN "none" ELSE wait_channel[s]]

\* Mutants: the parent is not woken; the parent is woken wherever it is.
ToldStateMutant(p, st) == st
ToldStateMutant2(p, st) == [s \in Slots |-> IF pid[s] = p THEN "READY" ELSE st[s]]

ToldState(p, st) == [s \in Slots |->
    IF pid[s] = p /\ wait_channel[s] = "self" THEN "READY" ELSE st[s]]

\* sched_process_kill(pid, false, true) and the schedule() after it: exit(),
\* a fatal signal, a segmentation fault or a general protection fault.
Terminate(c, pend) ==
    /\ parent' = Reparented(pid[c])
    /\ TellParent(parent[c], pend)
    /\ state' = ToldState(parent[c], [state EXCEPT ![c] = "DONE"])
    /\ pid' = IF parent[c] <= 0 THEN [pid EXCEPT ![c] = NoPid] ELSE pid
    /\ phase' = "sched"

-----------------------------------------------------------------------------
(* System calls of the current task and interrupts, taken from user mode *)

\* Mutant: the idle thread makes system calls too.
InUserMutant(c) == phase = "user" /\ c = prev_task

InUser(c) == phase = "user" /\ c = prev_task /\ c # IDLE

\* user_process_exit, and the fatal faults of mm/paging.c
Exit(c) ==
    /\ InUser(c)
    /\ Terminate(c, pending)
    /\ UNCHANGED <<timer, left, mask, action, stop_reported, frames, saved, kpc,
                   wait_req, holder, prev_task, next_task, next_pid>>

\* user_process_fork: the child resumes in user mode from a frame built on
\* its own kernel stack; the parent returns without passing signal_deliver.
Fork(c) ==
    /\ InUser(c)
    /\ next_pid <= MaxPid
    /\ \/ /\ \A s \in Slots : pid[s] # NoPid
          /\ phase' = "panic_full"
          /\ UNCHANGED <<taskVars, next_pid>>
       \/ \E t \in Slots :
          /\ pid[t] = NoPid
          /\ \A s \in Slots : s < t => pid[s] # NoPid
          /\ pid' = [pid EXCEPT ![t] = next_pid]
          /\ parent' = [parent EXCEPT ![t] = pid[c]]
          /\ state' = [state EXCEPT ![t] = "READY"]
          /\ wait_channel' = [wait_channel EXCEPT ![t] = "none"]
          /\ timer' = [timer EXCEPT ![t] = "UNUSED"]
          /\ pending' = [pending EXCEPT ![t] = {}]
          /\ mask' = [mask EXCEPT ![t] = mask[c]]
          /\ action' = [action EXCEPT ![t] = action[c]]
          /\ stop_reported' = [stop_reported EXCEPT ![t] = FALSE]
          /\ frames' = [frames EXCEPT ![t] = frames[c]]
          /\ saved' = [saved EXCEPT ![t] = TRUE]
          /\ kpc' = [kpc EXCEPT ![t] = "user"]
          /\ next_pid' = next_pid + 1
          /\ UNCHANGED <<left, wait_req, phase>>
    /\ UNCHANGED <<holder, prev_task, next_task>>

\* user_process_replace_exec: the task is killed, keeping its files, and set
\* up again as NEW under its old pid on a new kernel stack.
Exec(c) ==
    /\ InUser(c)
    /\ next_pid <= MaxPid
    /\ parent' = Reparented(pid[c])
    /\ TellParent(parent[c], pending)
    /\ state' = ToldState(parent[c], [state EXCEPT ![c] = "NEW"])
    /\ timer' = [timer EXCEPT ![c] = "UNUSED"]
    /\ action' = [action EXCEPT ![c] = [sg \in Signals |->
                    IF action[c][sg].handler = "IGN" THEN action[c][sg]
                    ELSE DefaultAction]]
    /\ mask' = [mask EXCEPT ![c] = @ \ Unmaskable]
    /\ frames' = [frames EXCEPT ![c] = <<>>]
    /\ saved' = [saved EXCEPT ![c] = FALSE]
    /\ next_pid' = next_pid + 1
    /\ phase' = "sched"
    /\ UNCHANGED <<pid, left, stop_reported, kpc, wait_req, holder, prev_task, next_task>>

\* The parts of the state a call that stays in the current task leaves alone.
NoSwitch == UNCHANGED <<holder, prev_task, next_task, next_pid>>

\* A child of c that wait(req) can report.
Matches(c, s, w) == /\ pid[s] # NoPid
                    /\ parent[s] = pid[c]
                    /\ w.req \in {-1, pid[s]}
Reportable(c, s, w) ==
    /\ Matches(c, s, w)
    /\ \/ state[s] = "DONE"
       \/ w.untraced /\ state[s] = "STOPPED" /\ ~stop_reported[s]

\* sched_wait_child and sched_reap_child: report the first child in the
\* table that ended or stopped, else fail, return or sleep.
WaitLoop(c, w, nohang) ==
    /\ \/ \E s \in Slots :
          /\ Reportable(c, s, w)
          /\ \A k \in Slots : k < s => ~Reportable(c, k, w)
          /\ IF state[s] = "DONE"
             THEN pid' = [pid EXCEPT ![s] = NoPid] /\ UNCHANGED stop_reported
             ELSE stop_reported' = [stop_reported EXCEPT ![s] = TRUE] /\ UNCHANGED pid
          /\ phase' = "deliver"
          /\ wait_channel' = [wait_channel EXCEPT ![c] = "none"]
          /\ kpc' = [kpc EXCEPT ![c] = "user"]
          /\ wait_req' = [wait_req EXCEPT ![c] = NoWait]
          /\ UNCHANGED state
       \/ /\ \A s \in Slots : ~Reportable(c, s, w)
          /\ \/ nohang
             \/ HasUnmaskedPending(c)
             \/ \A s \in Slots : ~Matches(c, s, w)
          /\ phase' = "deliver"
          /\ wait_channel' = [wait_channel EXCEPT ![c] = "none"]
          /\ kpc' = [kpc EXCEPT ![c] = "user"]
          /\ wait_req' = [wait_req EXCEPT ![c] = NoWait]
          /\ UNCHANGED <<pid, stop_reported, state>>
       \/ /\ \A s \in Slots : ~Reportable(c, s, w)
          /\ \E s \in Slots : Matches(c, s, w)
          /\ ~nohang
          /\ ~HasUnmaskedPending(c)
          /\ wait_channel' = [wait_channel EXCEPT ![c] = "self"]
          /\ state' = [state EXCEPT ![c] = "BLOCKED"]
          /\ kpc' = [kpc EXCEPT ![c] = "wait"]
          /\ wait_req' = [wait_req EXCEPT ![c] = w]
          /\ phase' = "sched"
          /\ UNCHANGED <<pid, stop_reported>>
    /\ UNCHANGED <<parent, timer, left, pending, mask, action, frames, saved>>
    /\ NoSwitch

Wait(c) ==
    /\ InUser(c)
    /\ \E w \in [req : {-1} \cup 1 .. MaxPid, untraced : BOOLEAN], nohang \in BOOLEAN :
           WaitLoop(c, w, nohang)

\* A task woken in sched_wait_child scans its children again.
WaitAgain(c) ==
    /\ phase = "kernel" /\ c = prev_task /\ kpc[c] = "wait"
    /\ WaitLoop(c, wait_req[c], FALSE)

\* ksleepm: arm the timer and yield, unless a signal is already there.
Sleep(c) ==
    /\ InUser(c)
    /\ \/ /\ HasUnmaskedPending(c)
          /\ phase' = "deliver"
          /\ UNCHANGED <<timer, left, kpc>>
       \/ /\ ~HasUnmaskedPending(c)
          /\ timer' = [timer EXCEPT ![c] = "RUNNING"]
          /\ \E n \in 0 .. MaxSleep : left' = [left EXCEPT ![c] = n]
          /\ kpc' = [kpc EXCEPT ![c] = "sleep"]
          /\ phase' = "sched"
    /\ UNCHANGED <<pid, parent, state, wait_channel, pending, mask, action,
                   stop_reported, frames, saved, wait_req>>
    /\ NoSwitch

\* ksleepm returns, and sleep() with it; a stopped task goes on in the loop
\* of signal_deliver.
ResumeToDeliver(c) ==
    /\ phase = "kernel" /\ c = prev_task /\ kpc[c] \in {"sleep", "stop"}
    /\ kpc' = [kpc EXCEPT ![c] = "user"]
    /\ phase' = "deliver"
    /\ UNCHANGED <<pid, parent, state, wait_channel, timer, left, pending, mask,
                   action, stop_reported, frames, saved, wait_req>>
    /\ NoSwitch

\* kill(), also to the caller itself; a call that reaches nobody just returns.
Kill(c) ==
    /\ InUser(c)
    /\ \/ \E s \in Slots, sg \in Sendable : Reaches(s) /\ SignalSend(s, sg)
       \/ UNCHANGED <<pending, state, wait_channel, timer, stop_reported>>
    /\ phase' = "deliver"
    /\ SignalFrame

\* An interrupt character from the keyboard: the terminal signals a
\* foreground process, and the interrupted task simply goes on.
KeyboardIrq ==
    /\ phase = "user"
    /\ \E s \in Slots, sg \in Sendable \cap TerminalSignals :
           Reaches(s) /\ SignalSend(s, sg)
    /\ UNCHANGED phase
    /\ SignalFrame

\* sigaction()
SignalAction(c) ==
    /\ InUser(c)
    /\ \E sg \in Catchable \ Unmaskable, h \in Handlers, m \in MaskSets :
           /\ action' = [action EXCEPT ![c][sg] =
                            [handler |-> h, mask |-> m \ Unmaskable]]
           /\ pending' = [pending EXCEPT ![c] =
                  IF h = "IGN" \/ (h = "DFL" /\ sg \in DefaultIgnored)
                  THEN @ \ {sg} ELSE @]
    /\ phase' = "deliver"
    /\ UNCHANGED <<pid, parent, state, wait_channel, timer, left, mask,
                   stop_reported, frames, saved, kpc, wait_req>>
    /\ NoSwitch

\* sigprocmask(): SIG_BLOCK, SIG_UNBLOCK, SIG_SETMASK
SignalSetMask(c) ==
    /\ InUser(c)
    /\ \E m \in MaskSets :
           \E new \in {mask[c] \cup m, mask[c] \ m, m} :
               mask' = [mask EXCEPT ![c] = new \ Unmaskable]
    /\ phase' = "deliver"
    /\ UNCHANGED <<pid, parent, state, wait_channel, timer, left, pending, action,
                   stop_reported, frames, saved, kpc, wait_req>>
    /\ NoSwitch

\* signal_sigreturn: pop the newest frame; a call without one is fatal.
SignalReturn(c) ==
    /\ InUser(c)
    /\ \/ /\ frames[c] # <<>>
          /\ mask' = [mask EXCEPT ![c] = frames[c][Len(frames[c])] \ Unmaskable]
          /\ frames' = [frames EXCEPT ![c] = SubSeq(@, 1, Len(@) - 1)]
          /\ UNCHANGED <<pid, parent, state, wait_channel, pending, phase>>
       \/ /\ frames[c] = <<>>
          /\ Terminate(c, pending)
          /\ UNCHANGED <<mask, frames>>
    /\ UNCHANGED <<timer, left, action, stop_reported, saved, kpc, wait_req>>
    /\ NoSwitch

\* Any other system call that neither blocks nor touches this state: it
\* still returns through signal_deliver.
OtherSyscall(c) ==
    /\ InUser(c)
    /\ phase' = "deliver"
    /\ UNCHANGED taskVars
    /\ NoSwitch

\* A system call that reads or writes the disk has the CPU in acquire_mutex()
\* or, after that, in the driver.
InDriver(c) == \/ InUser(c)
               \/ phase = "kernel" /\ c = prev_task /\ kpc[c] \in {"mutex", "disk"}

\* acquire_mutex: sched_sleep_on_if sleeps on a mutex that another task has,
\* whatever signals are pending.
AcquireMutex(c) ==
    /\ InDriver(c)
    /\ holder \notin {-1, c}
    /\ wait_channel' = [wait_channel EXCEPT ![c] = "mutex"]
    /\ state' = [state EXCEPT ![c] = "BLOCKED"]
    /\ kpc' = [kpc EXCEPT ![c] = "mutex"]
    /\ phase' = "sched"
    /\ UNCHANGED <<pid, parent, timer, left, pending, mask, action, stop_reported,
                   frames, saved, wait_req>>
    /\ NoSwitch

\* ata_poll_relax: the owner of the mutex lets other tasks run while the
\* device is slow.
PollRelax(c) ==
    /\ InDriver(c)
    /\ holder \in {-1, c}
    /\ holder' = c
    /\ wait_channel' = [wait_channel EXCEPT ![c] = "none"]
    /\ kpc' = [kpc EXCEPT ![c] = "disk"]
    /\ phase' = "sched"
    /\ UNCHANGED <<pid, parent, state, timer, left, pending, mask, action, stop_reported,
                   frames, saved, wait_req, prev_task, next_task, next_pid>>

\* The sleeper that sched_wakeup_one finds first.
FirstAsleep(s) ==
    LET asleep == {k \in Slots : /\ pid[k] # NoPid
                                 /\ state[k] = "BLOCKED"
                                 /\ wait_channel[k] = "mutex"}
    IN s \in asleep /\ \A k \in asleep : s <= k

\* The driver is done: release_mutex wakes one sleeper and the call returns.
ReleaseMutex(c) ==
    /\ InDriver(c)
    /\ holder \in {-1, c}
    /\ holder' = -1
    /\ state' = [s \in Slots |-> IF FirstAsleep(s) THEN "READY" ELSE state[s]]
    /\ wait_channel' = [s \in Slots |-> IF s = c \/ FirstAsleep(s) THEN "none"
                                        ELSE wait_channel[s]]
    /\ timer' = [s \in Slots |-> IF FirstAsleep(s) THEN "UNUSED" ELSE timer[s]]
    /\ kpc' = [kpc EXCEPT ![c] = "user"]
    /\ phase' = "deliver"
    /\ UNCHANGED <<pid, parent, left, pending, mask, action, stop_reported, frames,
                   saved, wait_req, prev_task, next_task, next_pid>>

\* timer_irq: a tick passes; every second one calls schedule().
TimerIrq(resched) ==
    /\ phase = "user"
    /\ left' = [s \in Slots |-> IF left[s] > 0 THEN left[s] - 1 ELSE 0]
    /\ phase' = IF resched THEN "sched" ELSE "user"
    /\ UNCHANGED <<pid, parent, state, wait_channel, timer, pending, mask, action,
                   stop_reported, frames, saved, kpc, wait_req>>
    /\ NoSwitch

-----------------------------------------------------------------------------
(* signal_deliver, one iteration of its loop per step *)

Deliverable(c) == pending[c] \ mask[c]

\* Mutant: the highest numbered signal first.
SignalNextMutant(c, sg) == sg \in Deliverable(c) /\ \A k \in Deliverable(c) : sg >= k

\* signal_next: the lowest numbered deliverable signal.
SignalNext(c, sg) == sg \in Deliverable(c) /\ \A k \in Deliverable(c) : sg <= k

DeliverNothing(c) ==
    /\ phase = "deliver" /\ c = prev_task
    /\ Deliverable(c) = {}
    /\ phase' = "user"
    /\ UNCHANGED taskVars
    /\ NoSwitch

DeliverIgnored(c) ==
    /\ phase = "deliver" /\ c = prev_task
    /\ \E sg \in Signals :
           /\ SignalNext(c, sg)
           /\ Ignored(c, sg)
           /\ pending' = [pending EXCEPT ![c] = @ \ {sg}]
    /\ UNCHANGED <<pid, parent, state, wait_channel, timer, left, mask, action,
                   stop_reported, frames, saved, kpc, wait_req, phase>>
    /\ NoSwitch

\* sched_process_stopped tells the parent, then the task gives the CPU up.
DeliverStop(c) ==
    /\ phase = "deliver" /\ c = prev_task
    /\ \E sg \in StopSignals :
           /\ SignalNext(c, sg)
           /\ action[c][sg].handler = "DFL"
           /\ TellParent(parent[c], [pending EXCEPT ![c] = @ \ {sg}])
    /\ state' = ToldState(parent[c], [state EXCEPT ![c] = "STOPPED"])
    /\ stop_reported' = [stop_reported EXCEPT ![c] = FALSE]
    /\ kpc' = [kpc EXCEPT ![c] = "stop"]
    /\ phase' = "sched"
    /\ UNCHANGED <<pid, parent, timer, left, mask, action, frames, saved, wait_req>>
    /\ NoSwitch

\* The default action of every other signal, and a full user stack, are fatal.
DeliverFatal(c) ==
    /\ phase = "deliver" /\ c = prev_task
    /\ \E sg \in Signals :
           /\ SignalNext(c, sg)
           /\ ~Ignored(c, sg)
           /\ \/ action[c][sg].handler = "DFL" /\ sg \notin StopSignals
              \/ action[c][sg].handler = "CATCH" /\ Len(frames[c]) = MaxFrames
           /\ Terminate(c, [pending EXCEPT ![c] = @ \ {sg}])
    /\ UNCHANGED <<timer, left, mask, action, stop_reported, frames, saved, kpc,
                   wait_req>>
    /\ NoSwitch

\* signal_prepare_user_handler: user mode continues in the handler.
DeliverHandler(c) ==
    /\ phase = "deliver" /\ c = prev_task
    /\ Len(frames[c]) < MaxFrames
    /\ \E sg \in Signals :
           /\ SignalNext(c, sg)
           /\ action[c][sg].handler = "CATCH"
           /\ pending' = [pending EXCEPT ![c] = @ \ {sg}]
           /\ frames' = [frames EXCEPT ![c] = Append(@, mask[c])]
           /\ mask' = [mask EXCEPT ![c] =
                           (@ \cup action[c][sg].mask \cup {sg}) \ Unmaskable]
    /\ phase' = "user"
    /\ UNCHANGED <<pid, parent, state, wait_channel, timer, left, action,
                   stop_reported, saved, kpc, wait_req>>
    /\ NoSwitch

\* panic() spins with interrupts off; nothing is known of a wild CPU.
Halted ==
    /\ phase \in {"panic_notask", "panic_full", "wild"}
    /\ UNCHANGED vars

-----------------------------------------------------------------------------
Syscall(c) == \/ Exit(c) \/ Fork(c) \/ Exec(c) \/ Wait(c) \/ Sleep(c) \/ Kill(c)
              \/ SignalAction(c) \/ SignalSetMask(c) \/ SignalReturn(c)
              \/ OtherSyscall(c)
Driver(c) == AcquireMutex(c) \/ PollRelax(c) \/ ReleaseMutex(c)
Continue(c) == WaitAgain(c) \/ ResumeToDeliver(c)
Deliver(c) == \/ DeliverNothing(c) \/ DeliverIgnored(c) \/ DeliverStop(c)
              \/ DeliverFatal(c) \/ DeliverHandler(c)

Next ==
    \/ Schedule
    \/ \E c \in Slots : Syscall(c) \/ Driver(c) \/ Continue(c) \/ Deliver(c)
    \/ KeyboardIrq
    \/ \E resched \in BOOLEAN : TimerIrq(resched)
    \/ Halted

Spec == Init /\ [][Next]_vars

\* The kernel runs on to its next return to user mode, and the timer
\* interrupt, latched while interrupts are off, is taken whenever user mode
\* comes back again and again.  The polling of the driver is bounded, so that
\* its owner does not yield for ever.  User programs owe nothing.
Fairness ==
    /\ WF_vars(Schedule)
    /\ WF_vars(\E c \in Slots : \/ phase = "kernel" /\ Driver(c)
                                \/ Continue(c) \/ Deliver(c))
    /\ \A c \in Slots : SF_vars(phase = "kernel" /\ ReleaseMutex(c))
    /\ SF_vars(TimerIrq(TRUE))

FairSpec == Spec /\ Fairness

-----------------------------------------------------------------------------
(* Properties *)

Halting == phase \in {"panic_notask", "panic_full", "wild"}

\* Type invariant.  No mask in use, stored for a handler or saved in a signal
\* frame holds a signal that cannot be masked.
TypeOK ==
    /\ pid \in [Slots -> {NoPid} \cup Nat]
    /\ parent \in [Slots -> {-1} \cup Nat]
    /\ state \in [Slots -> States]
    /\ wait_channel \in [Slots -> {"none", "self", "mutex"}]
    /\ timer \in [Slots -> {"UNUSED", "RUNNING", "EXPIRED"}]
    /\ left \in [Slots -> Nat]
    /\ pending \in [Slots -> SUBSET Signals]
    /\ mask \in [Slots -> SUBSET (Signals \ {SIGKILL, SIGSTOP})]
    /\ action \in [Slots -> [Signals -> Actions]]
    /\ stop_reported \in [Slots -> BOOLEAN]
    /\ frames \in [Slots -> Seq(SUBSET (Signals \ {SIGKILL, SIGSTOP}))]
    /\ saved \in [Slots -> BOOLEAN]
    /\ kpc \in [Slots -> {"user", "wait", "sleep", "stop", "mutex", "disk"}]
    /\ wait_req \in [Slots -> WaitReqs]
    /\ holder \in {-1} \cup Slots
    /\ prev_task \in {-1} \cup Slots
    /\ next_task \in Slots
    /\ next_pid \in Nat
    /\ phase \in Phases

\* The task table never holds two running tasks, and the one that runs is
\* prev_task: schedule_impl takes the CPU from prev_task before it gives it
\* to another slot.
OneRunner ==
    \A s \in Slots : pid[s] # NoPid /\ state[s] = "RUNNING" => s = prev_task

\* find_next_task always finds a task, whatever sleeps, stops or ends: its
\* panic "Could not find a task to run!" is out of reach.
AlwaysATask == phase # "panic_notask"

\* No order of sends, handlers, stops and blocking calls leaves a task with
\* SIGKILL pending stopped, or asleep in wait() or sleep().  The one sleep such
\* a task can be in, or go back to, is that of acquire_mutex, which does not
\* look at signals and ends with release_mutex.
KilledNeverParks ==
    \A s \in Slots : SIGKILL \in pending[s] =>
        /\ state[s] # "STOPPED"
        /\ state[s] = "BLOCKED" => kpc[s] = "mutex"

\* No task sleeps in wait() or sleep() while a signal other than SIGCHLD
\* that it would have to act on is pending and not masked.
NoSleepThroughSignal ==
    \A s \in Slots :
        pid[s] # NoPid /\ state[s] = "BLOCKED" /\ kpc[s] \in {"wait", "sleep"} =>
            \A sg \in pending[s] \ (mask[s] \cup {SIGCHLD}) : Ignored(s, sg)

\* The parent of every process in the table, dead or alive, is a process
\* that can still wait for it, or init.
OrphansAdopted ==
    \A s \in Slots : pid[s] # NoPid /\ parent[s] > INIT_PID =>
        \E t \in Slots : pid[t] = parent[s] /\ state[t] # "DONE"

\* A process other than init never stays asleep in wait() with a child to
\* report: sched_process_kill and sched_process_stopped wake it.
WaiterWoken ==
    \A s \in Slots : /\ pid[s] \notin {NoPid, INIT_PID}
                     /\ state[s] = "BLOCKED"
                     /\ kpc[s] = "wait"
        => \A k \in Slots : ~Reportable(s, k, wait_req[s])

\* A zombie stays a zombie until it is reaped: no timer, signal or wakeup
\* makes an ended task schedulable again.
ZombieStays ==
    [][\A s \in Slots : state[s] = "DONE" /\ pid[s] # NoPid => state'[s] = "DONE"]_vars

\* Only signal_send(SIGCONT) and signal_send(SIGKILL) end a stop: no timer, no
\* child that ends or stops, no other signal and no mutex that comes free lets
\* a stopped task go on.  SIGCONT takes back the stop signals still pending.
StopHolds ==
    [][\A s \in Slots : pid[s] # NoPid /\ state[s] = "STOPPED" /\ state'[s] # "STOPPED" =>
          /\ state'[s] = "READY"
          /\ \/ SignalSend(s, SIGKILL)
             \/ SignalSend(s, SIGCONT) /\ pending'[s] \cap StopSignals = {}]_vars

\* Round robin starves nobody: a new or ready task gets the CPU,
\* whatever the others do (find_next_task, schedule_impl).
ReadyRuns ==
    \A s \in Slots \ {IDLE} :
        (pid[s] # NoPid /\ state[s] \in {"NEW", "READY"})
        ~> (state[s] \notin {"NEW", "READY"} \/ s = prev_task \/ Halting)

\* A task that sleeps for a time wakes up.
SleepEnds == \A s \in Slots : kpc[s] = "sleep" ~> (kpc[s] # "sleep" \/ Halting)

\* SIGKILL ends a task that is stopped, or asleep in wait() or sleep().
KilledDies ==
    \A s \in Slots : (SIGKILL \in pending[s] /\ kpc[s] \in {"wait", "sleep", "stop"})
                     ~> (state[s] = "DONE" \/ Halting)

=============================================================================
