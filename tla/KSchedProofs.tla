---------------------------- MODULE KSchedProofs ----------------------------
(***************************************************************************)
(* Theorems about KSched for every size of the task table, every pid bound *)
(* and every choice of signals, masks and stack depths.                    *)
(***************************************************************************)
EXTENDS KSched, TLAPS

\* The idle thread is always schedulable: it makes no system call, so it
\* never sleeps, stops or ends.
IdleInv ==
    /\ pid[IDLE] = 0
    /\ state[IDLE] \in {"NEW", "READY", "RUNNING"}
    /\ timer[IDLE] # "RUNNING"
    /\ kpc[IDLE] = "user"

\* Outside schedule_impl the CPU is in a live task, and kernel code is never
\* resumed or left on behalf of the idle thread.
CurrentInv ==
    phase \in {"user", "kernel", "deliver"} =>
        /\ prev_task \in Slots
        /\ state[prev_task] \in {"RUNNING", "READY"}
        /\ phase # "user" => prev_task # IDLE

\* A running timer belongs to a task asleep, or about to be, that is not
\* asleep for anything else and has no SIGKILL to act on.
TimerInv ==
    \A s \in Slots : timer[s] = "RUNNING" =>
        /\ SIGKILL \notin pending[s]
        /\ wait_channel[s] = "none"
        /\ \/ state[s] = "BLOCKED"
           \/ phase = "sched" /\ s = prev_task /\ state[s] \in {"RUNNING", "READY"}

\* Only a blocked task is on a wait channel.
WaitInv == \A s \in Slots : wait_channel[s] # "none" => state[s] = "BLOCKED"

\* SIGKILL always keeps its default action.
ActionInv == \A s \in Slots : action[s][SIGKILL] = DefaultAction

IInv ==
    /\ TypeOK
    /\ IdleInv
    /\ CurrentInv
    /\ OneRunner
    /\ TimerInv
    /\ WaitInv
    /\ ActionInv
    /\ KilledNeverParks
    /\ OrphansAdopted

LEMMA InitIInv == Init => IInv
<1> SUFFICES ASSUME Init PROVE IInv
  OBVIOUS
<1> USE KSchedAssumption DEF Init, Slots, IDLE, NoPid, INIT_PID, SIGKILL
<1>1. TypeOK
  BY DEF TypeOK, States, WaitReqs, NoWait, Phases, Actions, Handlers, DefaultAction
<1>2. IdleInv
  BY DEF IdleInv
<1>3. CurrentInv
  BY DEF CurrentInv
<1>4. OneRunner
  BY DEF OneRunner
<1>5. TimerInv /\ WaitInv /\ ActionInv /\ KilledNeverParks
  BY DEF TimerInv, WaitInv, ActionInv, KilledNeverParks
<1>6. OrphansAdopted
  BY DEF OrphansAdopted
<1> QED
  BY <1>1, <1>2, <1>3, <1>4, <1>5, <1>6 DEF IInv

-----------------------------------------------------------------------------
(* schedule_impl *)

\* What Yielded and update_timers make of the task states.
LEMMA TimersFacts ==
    ASSUME IInv, phase = "sched"
    PROVE  LET st == AfterTimers(Yielded)
           IN /\ st \in [Slots -> States]
              /\ \A s \in Slots : pid[s] # NoPid => st[s] # "RUNNING"
              /\ \A s \in Slots : st[s] = "DONE" <=> state[s] = "DONE"
              /\ \A s \in Slots : SIGKILL \in pending[s] =>
                    st[s] # "STOPPED" /\ (st[s] = "BLOCKED" => kpc[s] = "mutex")
              /\ \A s \in Slots : timer[s] = "RUNNING" =>
                    st[s] = (IF left[s] = 0 THEN "READY" ELSE "BLOCKED")
              /\ \A s \in Slots : wait_channel[s] # "none" => st[s] = "BLOCKED"
              /\ IDLE \in Runnable(st)
<1> USE KSchedAssumption DEF IInv, Yielded, AfterTimers
<1>1. AfterTimers(Yielded) \in [Slots -> States]
  BY DEF TypeOK, States
<1>2. \A s \in Slots : pid[s] # NoPid => AfterTimers(Yielded)[s] # "RUNNING"
  BY DEF TypeOK, OneRunner
<1>3. \A s \in Slots : timer[s] = "RUNNING" =>
         /\ state[s] \in {"BLOCKED", "RUNNING", "READY"}
         /\ AfterTimers(Yielded)[s] = (IF left[s] = 0 THEN "READY" ELSE "BLOCKED")
  BY DEF TypeOK, TimerInv
<1>4. \A s \in Slots : AfterTimers(Yielded)[s] = "DONE" <=> state[s] = "DONE"
  BY <1>3 DEF TypeOK
<1>5. \A s \in Slots : SIGKILL \in pending[s] =>
          /\ AfterTimers(Yielded)[s] # "STOPPED"
          /\ AfterTimers(Yielded)[s] = "BLOCKED" => kpc[s] = "mutex"
  BY DEF TypeOK, TimerInv, KilledNeverParks
<1>6. \A s \in Slots : wait_channel[s] # "none" => AfterTimers(Yielded)[s] = "BLOCKED"
  BY DEF TypeOK, TimerInv, WaitInv
<1>7. IDLE \in Runnable(AfterTimers(Yielded))
  BY DEF TypeOK, IdleInv, OneRunner, Runnable, Startable, Slots, IDLE, NoPid
<1> QED
  BY <1>1, <1>2, <1>3, <1>4, <1>5, <1>6, <1>7

\* schedule_impl preserves the invariant, and never panics.
LEMMA ScheduleStep ==
    ASSUME IInv, Schedule
    PROVE  IInv'
<1> DEFINE st == AfterTimers(Yielded)
           R == Runnable(st)
<1>0. phase = "sched"
  BY DEF Schedule
<1>1. /\ st \in [Slots -> States]
      /\ \A s \in Slots : pid[s] # NoPid => st[s] # "RUNNING"
      /\ \A s \in Slots : st[s] = "DONE" <=> state[s] = "DONE"
      /\ \A s \in Slots : SIGKILL \in pending[s] =>
                    st[s] # "STOPPED" /\ (st[s] = "BLOCKED" => kpc[s] = "mutex")
      /\ \A s \in Slots : timer[s] = "RUNNING" =>
            st[s] = (IF left[s] = 0 THEN "READY" ELSE "BLOCKED")
      /\ \A s \in Slots : wait_channel[s] # "none" => st[s] = "BLOCKED"
      /\ IDLE \in R
  BY <1>0, TimersFacts
<1>2. PICK c \in Startable(st), n \in R :
          /\ SwitchTo(c, st)
          /\ next_task' = n
  BY <1>1 DEF Schedule
<1>3. /\ saved' = [s \in Slots |->
             IF s = prev_task /\ state[s] \notin {"NEW", "DONE"} THEN TRUE ELSE saved[s]]
      /\ timer' = [s \in Slots |->
             IF state[s] # "STOPPED" /\ timer[s] = "RUNNING" /\ left[s] = 0
             THEN "EXPIRED" ELSE timer[s]]
      /\ UNCHANGED <<pid, parent, wait_channel, left, pending, mask, action,
                     stop_reported, frames, kpc, wait_req, holder, next_pid>>
  BY <1>1 DEF Schedule
<1>4. /\ c \in Slots /\ n \in Slots /\ st[c] \in {"NEW", "READY"}
      /\ prev_task' = c
      /\ state' = [st EXCEPT ![c] = "RUNNING"]
      /\ phase' \in {"user", "kernel", "wild"}
      /\ phase' = "kernel" => kpc[c] # "user"
  BY <1>2 DEF Startable, Runnable, SwitchTo
<1> HIDE DEF st, R
<1>5. TypeOK'
  BY <1>1, <1>2, <1>3, <1>4 DEF IInv, TypeOK, States, Phases
<1>6. IdleInv'
  BY <1>1, <1>3, <1>4 DEF IInv, TypeOK, IdleInv, Runnable, Startable, R
<1>7. CurrentInv'
  BY <1>1, <1>3, <1>4 DEF IInv, TypeOK, IdleInv, CurrentInv
<1>8. OneRunner'
  BY <1>1, <1>3, <1>4 DEF IInv, TypeOK, OneRunner
<1>9. TimerInv'
  <2> SUFFICES ASSUME NEW s \in Slots, timer'[s] = "RUNNING"
               PROVE  /\ SIGKILL \notin pending'[s]
                      /\ wait_channel'[s] = "none"
                      /\ state'[s] = "BLOCKED"
    BY DEF TimerInv
  <2>1. timer[s] = "RUNNING" /\ SIGKILL \notin pending[s] /\ wait_channel[s] = "none"
    BY <1>3 DEF IInv, TypeOK, TimerInv
  <2>2. state[s] # "STOPPED"
    BY <2>1 DEF IInv, TimerInv
  <2>3. st[s] = "BLOCKED"
    BY <1>1, <1>3, <2>1, <2>2 DEF IInv, TypeOK
  <2> QED
    BY <1>1, <1>3, <1>4, <2>1, <2>3
<1>10. WaitInv' /\ ActionInv' /\ KilledNeverParks'
  BY <1>1, <1>3, <1>4 DEF IInv, WaitInv, ActionInv, KilledNeverParks
<1>11. OrphansAdopted'
  BY <1>1, <1>3, <1>4 DEF IInv, OrphansAdopted
<1> QED
  BY <1>5, <1>6, <1>7, <1>8, <1>9, <1>10, <1>11 DEF IInv

-----------------------------------------------------------------------------
(* Process end and creation *)

\* What the current task may rely on while it is inside a system call.
LEMMA CurrentFacts ==
    ASSUME IInv, NEW c \in Slots, c = prev_task, phase \in {"user", "kernel", "deliver"}
    PROVE  /\ state[c] \in {"RUNNING", "READY"}
           /\ timer[c] # "RUNNING"
           /\ wait_channel[c] = "none"
           /\ phase # "user" => c # IDLE
BY DEF IInv, TypeOK, CurrentInv, TimerInv, WaitInv

\* The end of the current task, in whatever system call it comes.
LEMMA TerminateStep ==
    ASSUME IInv,
           NEW c \in Slots, c = prev_task, c # IDLE,
           phase \in {"user", "kernel", "deliver"},
           NEW pend, pend \in [Slots -> SUBSET Signals],
           \A s \in Slots : pend[s] \subseteq pending[s],
           Terminate(c, pend),
           mask' \in [Slots -> SUBSET (Signals \ {SIGKILL, SIGSTOP})],
           frames' \in [Slots -> Seq(SUBSET (Signals \ {SIGKILL, SIGSTOP}))],
           UNCHANGED <<timer, left, action, stop_reported, saved, kpc, wait_req,
                       holder, prev_task, next_task, next_pid>>
    PROVE  IInv'
<1>1. /\ state[c] \in {"RUNNING", "READY"}
      /\ timer[c] # "RUNNING"
      /\ wait_channel[c] = "none"
  BY CurrentFacts
<1>2. /\ parent' = [s \in Slots |-> IF pid[s] # NoPid /\ parent[s] = pid[c]
                                    THEN INIT_PID ELSE parent[s]]
      /\ pending' = [s \in Slots |->
             IF pid[s] = parent[c] /\ action[s][SIGCHLD].handler = "CATCH"
             THEN pend[s] \cup {SIGCHLD} ELSE pend[s]]
      /\ wait_channel' = [s \in Slots |->
             IF pid[s] = parent[c] /\ wait_channel[s] = "self" THEN "none"
             ELSE wait_channel[s]]
      /\ state' = [s \in Slots |->
             IF pid[s] = parent[c] /\ wait_channel[s] = "self"
             THEN "READY" ELSE [state EXCEPT ![c] = "DONE"][s]]
      /\ pid' = IF parent[c] <= 0 THEN [pid EXCEPT ![c] = NoPid] ELSE pid
      /\ phase' = "sched"
  BY DEF Terminate, TellParent, ToldState, Reparented
<1>3. /\ state'[c] = "DONE"
      /\ \A s \in Slots \ {c} : 
             state'[s] = state[s] \/ (state[s] = "BLOCKED" /\ state'[s] = "READY")
  BY <1>1, <1>2 DEF IInv, TypeOK, WaitInv
<1>4. TypeOK'
  BY <1>2, KSchedAssumption DEF IInv, TypeOK, States, Phases, NoPid, INIT_PID
<1>5. IdleInv'
  BY <1>2, <1>3, KSchedAssumption DEF IInv, TypeOK, IdleInv, Slots, IDLE
<1>6. CurrentInv' /\ ActionInv'
  BY <1>2 DEF IInv, CurrentInv, ActionInv
<1>7. OneRunner'
  BY <1>2, <1>3 DEF IInv, TypeOK, OneRunner
<1>8. TimerInv'
  BY <1>1, <1>2, <1>3, KSchedAssumption DEF IInv, TypeOK, TimerInv, SIGKILL, SIGCHLD
<1>9. WaitInv'
  BY <1>1, <1>2, <1>3 DEF IInv, TypeOK, WaitInv
<1>10. KilledNeverParks'
  BY <1>2, <1>3 DEF IInv, TypeOK, KilledNeverParks, SIGKILL, SIGCHLD
<1>11. OrphansAdopted'
  <2> SUFFICES ASSUME NEW s \in Slots, pid'[s] # NoPid, parent'[s] > INIT_PID
               PROVE  \E t \in Slots : pid'[t] = parent'[s] /\ state'[t] # "DONE"
    BY DEF OrphansAdopted
  <2>1. pid[s] # NoPid /\ parent[s] = parent'[s] /\ parent[s] # pid[c]
    BY <1>2 DEF IInv, TypeOK, INIT_PID
  <2>2. PICK t \in Slots : pid[t] = parent[s] /\ state[t] # "DONE"
    BY <2>1 DEF IInv, OrphansAdopted
  <2>3. t # c /\ pid'[t] = pid[t]
    BY <1>2, <2>1, <2>2 DEF IInv, TypeOK
  <2> QED
    BY <1>3, <2>1, <2>2, <2>3
<1> QED
  BY <1>4, <1>5, <1>6, <1>7, <1>8, <1>9, <1>10, <1>11 DEF IInv

LEMMA ExitStep ==
    ASSUME IInv, NEW c \in Slots, Exit(c)
    PROVE  IInv'
BY TerminateStep DEF Exit, InUser, IInv, TypeOK

LEMMA ForkStep ==
    ASSUME IInv, NEW c \in Slots, Fork(c)
    PROVE  IInv'
<1>1. /\ phase = "user" /\ c = prev_task /\ c # IDLE
      /\ state[c] \in {"RUNNING", "READY"}
  BY CurrentFacts DEF Fork, InUser
<1>2. CASE phase' = "panic_full" /\ UNCHANGED <<taskVars, next_pid, holder, prev_task, next_task>>
  BY <1>1, <1>2 DEF IInv, TypeOK, Phases, taskVars, IdleInv, CurrentInv, OneRunner,
     TimerInv, WaitInv, ActionInv, KilledNeverParks, OrphansAdopted, Ignored
<1>3. ASSUME NEW t \in Slots,
             pid[t] = NoPid,
             pid' = [pid EXCEPT ![t] = next_pid],
             parent' = [parent EXCEPT ![t] = pid[c]],
             state' = [state EXCEPT ![t] = "READY"],
             wait_channel' = [wait_channel EXCEPT ![t] = "none"],
             timer' = [timer EXCEPT ![t] = "UNUSED"],
             pending' = [pending EXCEPT ![t] = {}],
             mask' = [mask EXCEPT ![t] = mask[c]],
             action' = [action EXCEPT ![t] = action[c]],
             stop_reported' = [stop_reported EXCEPT ![t] = FALSE],
             frames' = [frames EXCEPT ![t] = frames[c]],
             saved' = [saved EXCEPT ![t] = TRUE],
             kpc' = [kpc EXCEPT ![t] = "user"],
             next_pid' = next_pid + 1,
             UNCHANGED <<left, wait_req, phase, holder, prev_task, next_task>>
      PROVE  IInv'
  <2>1. TypeOK'
    BY <1>3 DEF IInv, TypeOK, States, NoPid
  <2>2. t # IDLE
    BY <1>3 DEF IInv, IdleInv, NoPid
  <2>3. IdleInv' /\ CurrentInv' /\ OneRunner'
    BY <1>1, <1>3, <2>2 DEF IInv, TypeOK, IdleInv, CurrentInv, OneRunner, Slots, IDLE
  <2>4. TimerInv' /\ WaitInv' /\ ActionInv' /\ KilledNeverParks'
    BY <1>1, <1>3 DEF IInv, TypeOK, TimerInv, WaitInv, ActionInv, KilledNeverParks
  <2>5. OrphansAdopted'
    <3> SUFFICES ASSUME NEW s \in Slots, pid'[s] # NoPid, parent'[s] > INIT_PID
                 PROVE  \E u \in Slots : pid'[u] = parent'[s] /\ state'[u] # "DONE"
      BY DEF OrphansAdopted
    <3>1. CASE s = t
      BY <1>1, <1>3, <3>1 DEF IInv, TypeOK, NoPid, INIT_PID
    <3>2. CASE s # t
      <4>1. PICK u \in Slots : pid[u] = parent[s] /\ state[u] # "DONE"
        BY <1>3, <3>2 DEF IInv, TypeOK, OrphansAdopted
      <4> QED
        BY <1>3, <3>2, <4>1 DEF IInv, TypeOK, NoPid, INIT_PID
    <3> QED
      BY <3>1, <3>2
  <2> QED
    BY <2>1, <2>3, <2>4, <2>5 DEF IInv
<1> QED
  BY <1>2, <1>3 DEF Fork

LEMMA ExecStep ==
    ASSUME IInv, NEW c \in Slots, Exec(c)
    PROVE  IInv'
<1>1. /\ phase = "user" /\ c = prev_task /\ c # IDLE
      /\ state[c] \in {"RUNNING", "READY"}
      /\ timer[c] # "RUNNING"
      /\ wait_channel[c] = "none"
  BY CurrentFacts DEF Exec, InUser
<1>2. /\ parent' = [s \in Slots |-> IF pid[s] # NoPid /\ parent[s] = pid[c]
                                    THEN INIT_PID ELSE parent[s]]
      /\ pending' = [s \in Slots |->
             IF pid[s] = parent[c] /\ action[s][SIGCHLD].handler = "CATCH"
             THEN pending[s] \cup {SIGCHLD} ELSE pending[s]]
      /\ wait_channel' = [s \in Slots |->
             IF pid[s] = parent[c] /\ wait_channel[s] = "self" THEN "none"
             ELSE wait_channel[s]]
      /\ state' = [s \in Slots |->
             IF pid[s] = parent[c] /\ wait_channel[s] = "self"
             THEN "READY" ELSE [state EXCEPT ![c] = "NEW"][s]]
      /\ timer' = [timer EXCEPT ![c] = "UNUSED"]
      /\ action' = [action EXCEPT ![c] = [sg \in Signals |->
                      IF action[c][sg].handler = "IGN" THEN action[c][sg]
                      ELSE DefaultAction]]
      /\ mask' = [mask EXCEPT ![c] = @ \ Unmaskable]
      /\ frames' = [frames EXCEPT ![c] = <<>>]
      /\ saved' = [saved EXCEPT ![c] = FALSE]
      /\ next_pid' = next_pid + 1
      /\ phase' = "sched"
      /\ UNCHANGED <<pid, left, stop_reported, kpc, wait_req, holder, prev_task, next_task>>
  BY DEF Exec, TellParent, ToldState, Reparented
<1>3. /\ state'[c] = "NEW"
      /\ \A s \in Slots \ {c} :
             state'[s] = state[s] \/ (state[s] = "BLOCKED" /\ state'[s] = "READY")
  BY <1>1, <1>2 DEF IInv, TypeOK, WaitInv
<1>4. action' \in [Slots -> [Signals -> Actions]]
  BY <1>2 DEF IInv, TypeOK, Actions, DefaultAction, Handlers
<1>5. TypeOK'
  BY <1>2, <1>4, KSchedAssumption DEF IInv, TypeOK, States, Phases, INIT_PID
<1>6. IdleInv' /\ CurrentInv' /\ OneRunner'
  BY <1>1, <1>2, <1>3, KSchedAssumption
     DEF IInv, TypeOK, IdleInv, CurrentInv, OneRunner, Slots, IDLE
<1>7. TimerInv' /\ WaitInv' /\ KilledNeverParks'
  BY <1>1, <1>2, <1>3
     DEF IInv, TypeOK, TimerInv, WaitInv, KilledNeverParks, SIGKILL, SIGCHLD
<1>8. ActionInv'
  BY <1>2, KSchedAssumption DEF IInv, TypeOK, ActionInv, DefaultAction
<1>9. OrphansAdopted'
  BY <1>2, <1>3 DEF IInv, TypeOK, OrphansAdopted, INIT_PID
<1> QED
  BY <1>5, <1>6, <1>7, <1>8, <1>9 DEF IInv

-----------------------------------------------------------------------------
(* Blocking calls *)

\* signal_has_unmasked_pending sees a pending SIGKILL, whatever the mask.
LEMMA KillSeen ==
    ASSUME IInv, NEW c \in Slots, ~HasUnmaskedPending(c)
    PROVE  SIGKILL \notin pending[c]
<1>1. SIGKILL \notin mask[c]
  BY DEF IInv, TypeOK
<1>2. action[c][SIGKILL].handler = "DFL"
  BY DEF IInv, ActionInv, DefaultAction
<1>3. SIGKILL \notin DefaultIgnored
  BY DEF DefaultIgnored, SIGKILL, SIGCHLD, SIGCONT, SIGWINCH
<1>4. ~Ignored(c, SIGKILL)
  BY <1>2, <1>3 DEF Ignored
<1> QED
  BY <1>1, <1>4 DEF HasUnmaskedPending

LEMMA WaitLoopStep ==
    ASSUME IInv,
           NEW c \in Slots, c = prev_task, c # IDLE, phase \in {"user", "kernel"},
           NEW w \in WaitReqs, NEW nohang,
           WaitLoop(c, w, nohang)
    PROVE  IInv'
<1>1. /\ state[c] \in {"RUNNING", "READY"}
      /\ timer[c] # "RUNNING"
      /\ wait_channel[c] = "none"
  BY CurrentFacts
<1>2. UNCHANGED <<parent, timer, left, pending, mask, action, frames, saved,
                  holder, prev_task, next_task, next_pid>>
  BY DEF WaitLoop, NoSwitch
<1>3. ASSUME NEW s \in Slots, Reportable(c, s, w),
             IF state[s] = "DONE"
             THEN pid' = [pid EXCEPT ![s] = NoPid] /\ UNCHANGED stop_reported
             ELSE stop_reported' = [stop_reported EXCEPT ![s] = TRUE] /\ UNCHANGED pid,
             phase' = "deliver",
             wait_channel' = [wait_channel EXCEPT ![c] = "none"],
             kpc' = [kpc EXCEPT ![c] = "user"],
             wait_req' = [wait_req EXCEPT ![c] = NoWait],
             UNCHANGED state
      PROVE  IInv'
  <2>1. TypeOK'
    BY <1>2, <1>3 DEF IInv, TypeOK, Phases, NoPid, NoWait, WaitReqs
  <2>2. IdleInv'
    BY <1>2, <1>3, KSchedAssumption DEF IInv, TypeOK, IdleInv, Slots, IDLE
  <2>5. CurrentInv' /\ OneRunner'
    BY <1>1, <1>2, <1>3 DEF IInv, TypeOK, CurrentInv, OneRunner
  <2>3. TimerInv' /\ WaitInv' /\ ActionInv' /\ KilledNeverParks'
    BY <1>1, <1>2, <1>3 DEF IInv, TypeOK, TimerInv, WaitInv, ActionInv, KilledNeverParks
  <2>4. OrphansAdopted'
    BY <1>2, <1>3 DEF IInv, TypeOK, OrphansAdopted, NoPid, INIT_PID
  <2> QED
    BY <2>1, <2>2, <2>3, <2>4, <2>5 DEF IInv
<1>4. CASE /\ phase' = "deliver"
           /\ wait_channel' = [wait_channel EXCEPT ![c] = "none"]
           /\ kpc' = [kpc EXCEPT ![c] = "user"]
           /\ wait_req' = [wait_req EXCEPT ![c] = NoWait]
           /\ UNCHANGED <<pid, stop_reported, state>>
  <2>1. TypeOK'
    BY <1>2, <1>4 DEF IInv, TypeOK, Phases, NoWait, WaitReqs
  <2>2. IdleInv' /\ CurrentInv' /\ OneRunner'
    BY <1>1, <1>2, <1>4, KSchedAssumption
       DEF IInv, TypeOK, IdleInv, CurrentInv, OneRunner, Slots, IDLE
  <2>3. TimerInv' /\ WaitInv' /\ ActionInv' /\ KilledNeverParks' /\ OrphansAdopted'
    BY <1>1, <1>2, <1>4
       DEF IInv, TypeOK, TimerInv, WaitInv, ActionInv, KilledNeverParks, OrphansAdopted
  <2> QED
    BY <2>1, <2>2, <2>3 DEF IInv
<1>5. CASE /\ ~HasUnmaskedPending(c)
           /\ wait_channel' = [wait_channel EXCEPT ![c] = "self"]
           /\ state' = [state EXCEPT ![c] = "BLOCKED"]
           /\ kpc' = [kpc EXCEPT ![c] = "wait"]
           /\ wait_req' = [wait_req EXCEPT ![c] = w]
           /\ phase' = "sched"
           /\ UNCHANGED <<pid, stop_reported>>
  <2>1. TypeOK'
    BY <1>2, <1>5 DEF IInv, TypeOK, Phases, States
  <2>2. SIGKILL \notin pending[c]
    BY <1>5, KillSeen
  <2>3. IdleInv' /\ CurrentInv' /\ OneRunner'
    BY <1>1, <1>2, <1>5, KSchedAssumption
       DEF IInv, TypeOK, IdleInv, CurrentInv, OneRunner, Slots, IDLE
  <2>4. TimerInv' /\ WaitInv' /\ ActionInv' /\ KilledNeverParks' /\ OrphansAdopted'
    BY <1>1, <1>2, <1>5, <2>2
       DEF IInv, TypeOK, TimerInv, WaitInv, ActionInv, KilledNeverParks, OrphansAdopted
  <2> QED
    BY <2>1, <2>3, <2>4 DEF IInv
<1> QED
  BY <1>3, <1>4, <1>5 DEF WaitLoop

LEMMA WaitStep ==
    ASSUME IInv, NEW c \in Slots, Wait(c) \/ WaitAgain(c)
    PROVE  IInv'
<1>1. CASE Wait(c)
  <2>1. PICK w \in [req : {-1} \cup 1 .. MaxPid, untraced : BOOLEAN], nohang \in BOOLEAN :
            WaitLoop(c, w, nohang)
    BY <1>1 DEF Wait
  <2>2. w \in WaitReqs
    BY KSchedAssumption DEF WaitReqs
  <2> QED
    BY <1>1, <2>1, <2>2, WaitLoopStep DEF Wait, InUser
<1>2. CASE WaitAgain(c)
  <2>1. wait_req[c] \in WaitReqs /\ c # IDLE
    BY <1>2 DEF WaitAgain, IInv, TypeOK, IdleInv
  <2> QED
    BY <1>2, <2>1, WaitLoopStep DEF WaitAgain
<1> QED
  BY <1>1, <1>2

LEMMA SleepStep ==
    ASSUME IInv, NEW c \in Slots, Sleep(c)
    PROVE  IInv'
<1>1. /\ phase = "user" /\ c = prev_task /\ c # IDLE
      /\ state[c] \in {"RUNNING", "READY"}
      /\ timer[c] # "RUNNING"
      /\ wait_channel[c] = "none"
  BY CurrentFacts DEF Sleep, InUser
<1>2. UNCHANGED <<pid, parent, state, wait_channel, pending, mask, action,
                  stop_reported, frames, saved, wait_req, holder, prev_task, next_task, next_pid>>
  BY DEF Sleep, NoSwitch
<1>3. CASE phase' = "deliver" /\ UNCHANGED <<timer, left, kpc>>
  <2>1. TypeOK'
    BY <1>2, <1>3 DEF IInv, TypeOK, Phases
  <2> QED
    BY <1>1, <1>2, <1>3, <2>1 DEF IInv, IdleInv, CurrentInv, OneRunner,
       TimerInv, WaitInv, ActionInv, KilledNeverParks, OrphansAdopted
<1>4. ASSUME NEW n \in 0 .. MaxSleep,
             ~HasUnmaskedPending(c),
             timer' = [timer EXCEPT ![c] = "RUNNING"],
             left' = [left EXCEPT ![c] = n],
             kpc' = [kpc EXCEPT ![c] = "sleep"],
             phase' = "sched"
      PROVE  IInv'
  <2>1. SIGKILL \notin pending[c]
    BY <1>4, KillSeen
  <2>2. TypeOK'
    BY <1>2, <1>4, KSchedAssumption DEF IInv, TypeOK, Phases
  <2>3. timer'[IDLE] = timer[IDLE] /\ kpc'[IDLE] = kpc[IDLE]
    BY <1>1, <1>4 DEF IInv, TypeOK
  <2>4. IdleInv'
    BY <1>2, <1>4, <2>3 DEF IInv, IdleInv
  <2>5. CurrentInv' /\ OneRunner'
    BY <1>1, <1>2, <1>4 DEF IInv, CurrentInv, OneRunner
  <2>6. TimerInv' /\ WaitInv' /\ ActionInv' /\ KilledNeverParks' /\ OrphansAdopted'
    BY <1>1, <1>2, <1>4, <2>1
       DEF IInv, TypeOK, TimerInv, WaitInv, ActionInv, KilledNeverParks, OrphansAdopted
  <2> QED
    BY <2>2, <2>4, <2>5, <2>6 DEF IInv
<1> QED
  BY <1>3, <1>4 DEF Sleep

LEMMA ResumeStep ==
    ASSUME IInv, NEW c \in Slots, ResumeToDeliver(c)
    PROVE  IInv'
<1>1. /\ phase = "kernel" /\ c = prev_task
      /\ kpc' = [kpc EXCEPT ![c] = "user"]
      /\ phase' = "deliver"
      /\ UNCHANGED <<pid, parent, state, wait_channel, timer, left, pending, mask,
                     action, stop_reported, frames, saved, wait_req, holder, prev_task,
                     next_task, next_pid>>
  BY DEF ResumeToDeliver, NoSwitch
<1>2. TypeOK'
  BY <1>1 DEF IInv, TypeOK, Phases
<1>3. IdleInv' /\ CurrentInv' /\ OneRunner'
  BY <1>1 DEF IInv, TypeOK, IdleInv, CurrentInv, OneRunner
<1>4. state[c] # "BLOCKED"
  BY <1>1, CurrentFacts
<1>5. KilledNeverParks'
  BY <1>1, <1>4 DEF IInv, TypeOK, KilledNeverParks
<1> QED
  BY <1>1, <1>2, <1>3, <1>5 DEF IInv, TimerInv, WaitInv, ActionInv, OrphansAdopted

-----------------------------------------------------------------------------
(* Signals *)

\* A signal to slot s, from the current task or an interrupt.
LEMMA SignalSendStep ==
    ASSUME IInv,
           phase = "user",
           NEW s \in Slots, NEW sg \in Sendable, Reaches(s), SignalSend(s, sg),
           phase' \in {"user", "deliver"},
           phase' = "deliver" => prev_task # IDLE,
           SignalFrame
    PROVE  IInv'
<1> DEFINE continued == IF sg = SIGCONT /\ state[s] = "STOPPED"
                        THEN "READY" ELSE state[s]
           dropped == Ignored(s, sg) /\ sg \notin Unmaskable
           wakes == ~dropped /\ (continued = "BLOCKED" \/ sg = SIGKILL)
<1>1. /\ UNCHANGED <<pid, parent, left, mask, action, frames, saved, kpc, wait_req,
                     holder, prev_task, next_task, next_pid>>
      /\ state' = [state EXCEPT ![s] = IF wakes THEN "READY" ELSE continued]
      /\ wait_channel' = [wait_channel EXCEPT ![s] = IF wakes THEN "none" ELSE @]
      /\ timer' = [timer EXCEPT ![s] = IF wakes THEN "UNUSED" ELSE @]
      /\ stop_reported' = [stop_reported EXCEPT ![s] = IF sg = SIGCONT THEN FALSE ELSE @]
  BY DEF SignalFrame, SignalSend, MakesReady
<1>2. /\ pending' \in [Slots -> SUBSET Signals]
      /\ \A t \in Slots \ {s} : pending'[t] = pending[t]
      /\ SIGKILL \in pending'[s] => SIGKILL \in pending[s] \/ (sg = SIGKILL /\ wakes)
  BY KSchedAssumption DEF IInv, TypeOK, SignalSend, Unmaskable
<1>3. s # IDLE /\ pid[s] # NoPid /\ state[s] # "DONE"
  BY DEF Reaches
<1>4. /\ prev_task \in Slots
      /\ state[prev_task] \in {"RUNNING", "READY"}
  BY DEF IInv, CurrentInv
<1> HIDE DEF dropped
<1>5. TypeOK'
  BY <1>1, <1>2 DEF IInv, TypeOK, States, Phases
<1>6. IdleInv' /\ OneRunner'
  BY <1>1, <1>3, KSchedAssumption DEF IInv, TypeOK, IdleInv, OneRunner, Slots, IDLE
<1>7. CurrentInv'
  BY <1>1, <1>4 DEF IInv, TypeOK, CurrentInv
<1>8. TimerInv' /\ WaitInv' /\ ActionInv' /\ KilledNeverParks'
  BY <1>1, <1>2 DEF IInv, TypeOK, TimerInv, WaitInv, ActionInv, KilledNeverParks
<1>9. OrphansAdopted'
  BY <1>1, <1>3 DEF IInv, TypeOK, OrphansAdopted
<1> QED
  BY <1>5, <1>6, <1>7, <1>8, <1>9 DEF IInv

LEMMA KillStep ==
    ASSUME IInv, NEW c \in Slots, Kill(c)
    PROVE  IInv'
<1>1. phase = "user" /\ c = prev_task /\ c # IDLE /\ phase' = "deliver" /\ SignalFrame
  BY DEF Kill, InUser
<1>2. CASE UNCHANGED <<pending, state, wait_channel, timer, stop_reported>>
  BY <1>1, <1>2 DEF SignalFrame, IInv, TypeOK, Phases, IdleInv, CurrentInv, OneRunner,
     TimerInv, WaitInv, ActionInv, KilledNeverParks, OrphansAdopted
<1>3. CASE \E s \in Slots, sg \in Sendable : Reaches(s) /\ SignalSend(s, sg)
  BY <1>1, <1>3, SignalSendStep
<1> QED
  BY <1>2, <1>3 DEF Kill

LEMMA KeyboardStep ==
    ASSUME IInv, KeyboardIrq
    PROVE  IInv'
BY SignalSendStep DEF KeyboardIrq

LEMMA SignalActionStep ==
    ASSUME IInv, NEW c \in Slots, SignalAction(c)
    PROVE  IInv'
<1>1. /\ phase = "user" /\ c = prev_task /\ c # IDLE
      /\ phase' = "deliver"
      /\ UNCHANGED <<pid, parent, state, wait_channel, timer, left, mask,
                     stop_reported, frames, saved, kpc, wait_req, holder, prev_task,
                     next_task, next_pid>>
  BY DEF SignalAction, InUser, NoSwitch
<1>2. PICK sg \in Catchable \ Unmaskable, h \in Handlers, m \in MaskSets :
          /\ action' = [action EXCEPT ![c][sg] = [handler |-> h, mask |-> m \ Unmaskable]]
          /\ pending' = [pending EXCEPT ![c] =
                 IF h = "IGN" \/ (h = "DFL" /\ sg \in DefaultIgnored)
                 THEN @ \ {sg} ELSE @]
  BY DEF SignalAction
<1>3. sg # SIGKILL /\ sg \in Signals /\ m \in SUBSET Signals
  BY KSchedAssumption DEF Unmaskable
<1>4. action' \in [Slots -> [Signals -> Actions]] /\ ActionInv'
  BY <1>2, <1>3 DEF IInv, TypeOK, Actions, ActionInv
<1>5. /\ pending' \in [Slots -> SUBSET Signals]
      /\ \A s \in Slots : pending'[s] \subseteq pending[s]
  BY <1>2 DEF IInv, TypeOK
<1>6. TypeOK'
  BY <1>1, <1>4, <1>5 DEF IInv, TypeOK, Phases
<1>7. IdleInv' /\ CurrentInv' /\ OneRunner' /\ OrphansAdopted'
  BY <1>1 DEF IInv, IdleInv, CurrentInv, OneRunner, OrphansAdopted
<1>8. TimerInv' /\ WaitInv' /\ KilledNeverParks'
  BY <1>1, <1>5 DEF IInv, TimerInv, WaitInv, KilledNeverParks
<1> QED
  BY <1>4, <1>6, <1>7, <1>8 DEF IInv

LEMMA SignalSetMaskStep ==
    ASSUME IInv, NEW c \in Slots, SignalSetMask(c)
    PROVE  IInv'
<1>1. /\ phase = "user" /\ c = prev_task /\ c # IDLE
      /\ phase' = "deliver"
      /\ UNCHANGED <<pid, parent, state, wait_channel, timer, left, pending, action,
                     stop_reported, frames, saved, kpc, wait_req, holder, prev_task,
                     next_task, next_pid>>
  BY DEF SignalSetMask, InUser, NoSwitch
<1>2. mask' \in [Slots -> SUBSET (Signals \ {SIGKILL, SIGSTOP})]
  <2>1. PICK m \in MaskSets : \E new \in {mask[c] \cup m, mask[c] \ m, m} :
            mask' = [mask EXCEPT ![c] = new \ Unmaskable]
    BY DEF SignalSetMask
  <2>2. PICK new \in {mask[c] \cup m, mask[c] \ m, m} :
            mask' = [mask EXCEPT ![c] = new \ Unmaskable]
    BY <2>1
  <2>3. new \ Unmaskable \in SUBSET (Signals \ {SIGKILL, SIGSTOP})
    BY KSchedAssumption DEF IInv, TypeOK, Unmaskable
  <2> QED
    BY <2>2, <2>3 DEF IInv, TypeOK
<1>3. TypeOK'
  BY <1>1, <1>2 DEF IInv, TypeOK, Phases
<1> QED
  BY <1>1, <1>3 DEF IInv, IdleInv, CurrentInv, OneRunner,
     TimerInv, WaitInv, ActionInv, KilledNeverParks, OrphansAdopted

LEMMA SignalReturnStep ==
    ASSUME IInv, NEW c \in Slots, SignalReturn(c)
    PROVE  IInv'
<1>1. /\ phase = "user" /\ c = prev_task /\ c # IDLE
      /\ UNCHANGED <<timer, left, action, stop_reported, saved, kpc, wait_req,
                     holder, prev_task, next_task, next_pid>>
  BY DEF SignalReturn, InUser, NoSwitch
<1>2. CASE /\ frames[c] # <<>>
           /\ mask' = [mask EXCEPT ![c] = frames[c][Len(frames[c])] \ Unmaskable]
           /\ frames' = [frames EXCEPT ![c] = SubSeq(@, 1, Len(@) - 1)]
           /\ UNCHANGED <<pid, parent, state, wait_channel, pending, phase>>
  <2> DEFINE Masks == SUBSET (Signals \ {SIGKILL, SIGSTOP})
  <2>1. frames[c] \in Seq(Masks)
    BY DEF IInv, TypeOK
  <2>2. frames[c][Len(frames[c])] \in Masks
    BY <1>2, <2>1
  <2>3. SubSeq(frames[c], 1, Len(frames[c]) - 1) \in Seq(Masks)
    BY <1>2, <2>1
  <2>4. TypeOK'
    BY <1>1, <1>2, <2>2, <2>3 DEF IInv, TypeOK
  <2> QED
    BY <1>1, <1>2, <2>4 DEF IInv, IdleInv, CurrentInv, OneRunner,
       TimerInv, WaitInv, ActionInv, KilledNeverParks, OrphansAdopted
<1>3. CASE Terminate(c, pending) /\ UNCHANGED <<mask, frames>>
  BY <1>1, <1>3, TerminateStep DEF IInv, TypeOK
<1> QED
  BY <1>2, <1>3 DEF SignalReturn

LEMMA OtherSyscallStep ==
    ASSUME IInv, NEW c \in Slots, OtherSyscall(c)
    PROVE  IInv'
BY DEF OtherSyscall, InUser, NoSwitch, taskVars, IInv, TypeOK, Phases, IdleInv, CurrentInv,
   OneRunner, TimerInv, WaitInv, ActionInv, KilledNeverParks, OrphansAdopted

\* The driver sleeps, yields or returns, and ends the sleep of one other task.
DriverDoes(c) ==
    /\ c = prev_task /\ c # IDLE /\ phase \in {"user", "kernel"}
    /\ phase' \in {"sched", "deliver"}
    /\ holder' \in {-1} \cup Slots
    /\ kpc' = [kpc EXCEPT ![c] = kpc'[c]] /\ kpc'[c] \in {"mutex", "disk", "user"}
    /\ state' \in [Slots -> States]
    /\ wait_channel' \in [Slots -> {"none", "self", "mutex"}]
    /\ timer' \in [Slots -> {"UNUSED", "RUNNING", "EXPIRED"}]
    /\ \/ kpc'[c] = "mutex" /\ state'[c] = "BLOCKED" /\ phase' = "sched"
       \/ state'[c] = state[c] /\ wait_channel'[c] = "none"
    /\ timer'[c] = timer[c]
    /\ \A s \in Slots \ {c} :
          \/ /\ state'[s] = state[s] /\ wait_channel'[s] = wait_channel[s]
             /\ timer'[s] = timer[s]
          \/ /\ state[s] = "BLOCKED" /\ state'[s] = "READY"
             /\ wait_channel'[s] = "none" /\ timer'[s] = "UNUSED"
    /\ UNCHANGED <<pid, parent, left, pending, mask, action, stop_reported, frames,
                   saved, wait_req, prev_task, next_task, next_pid>>

LEMMA DriverFacts == ASSUME IInv, NEW c \in Slots, Driver(c) PROVE DriverDoes(c)
<1> USE DEF DriverDoes
<1>1. c = prev_task /\ c # IDLE /\ phase \in {"user", "kernel"}
  BY CurrentFacts DEF Driver, AcquireMutex, PollRelax, ReleaseMutex, InDriver, InUser
<1>2. state[c] \in {"RUNNING", "READY"}
  BY <1>1, CurrentFacts
<1>3. CASE AcquireMutex(c)
  BY <1>1, <1>3 DEF AcquireMutex, NoSwitch, IInv, TypeOK, States
<1>4. CASE PollRelax(c)
  BY <1>1, <1>4 DEF PollRelax, IInv, TypeOK
<1>5. CASE ReleaseMutex(c)
  <2>1. ~FirstAsleep(c)
    BY <1>2 DEF FirstAsleep
  <2>2. \A s \in Slots : FirstAsleep(s) => state[s] = "BLOCKED"
    BY DEF FirstAsleep
  <2> QED
    BY <1>1, <1>5, <2>1, <2>2 DEF ReleaseMutex, IInv, TypeOK, States
<1> QED
  BY <1>3, <1>4, <1>5 DEF Driver

LEMMA DriverStep ==
    ASSUME IInv, NEW c \in Slots, Driver(c)
    PROVE  IInv'
<1>1. DriverDoes(c)
  BY DriverFacts
<1>2. /\ state[c] \in {"RUNNING", "READY"}
      /\ timer[c] # "RUNNING"
  BY <1>1, CurrentFacts DEF DriverDoes
<1>3. TypeOK'
  <2>1. kpc' \in [Slots -> {"user", "wait", "sleep", "stop", "mutex", "disk"}]
    BY <1>1 DEF DriverDoes, IInv, TypeOK
  <2> QED
    BY <1>1, <2>1 DEF DriverDoes, IInv, TypeOK, Phases
<1>4. /\ \A s \in Slots : state'[s] = "RUNNING" => state[s] = "RUNNING"
      /\ \A s \in Slots : kpc'[s] # kpc[s] => s = c
  BY <1>1 DEF DriverDoes, IInv, TypeOK
<1>5. IdleInv'
  BY <1>1, <1>4, KSchedAssumption DEF DriverDoes, IInv, IdleInv, Slots, IDLE
<1>6. CurrentInv' /\ OneRunner'
  BY <1>1, <1>2, <1>4 DEF DriverDoes, IInv, CurrentInv, OneRunner
<1>7. TimerInv' /\ WaitInv' /\ ActionInv'
  BY <1>1, <1>2 DEF DriverDoes, IInv, TimerInv, WaitInv, ActionInv
<1>8. KilledNeverParks'
  BY <1>1, <1>2, <1>4 DEF DriverDoes, IInv, KilledNeverParks
<1>9. OrphansAdopted'
  <2>1. \A s \in Slots : state[s] # "DONE" => state'[s] # "DONE"
    BY <1>1, <1>2 DEF DriverDoes
  <2> QED
    BY <1>1, <2>1 DEF DriverDoes, IInv, OrphansAdopted
<1> QED
  BY <1>3, <1>5, <1>6, <1>7, <1>8, <1>9 DEF IInv

LEMMA TimerIrqStep ==
    ASSUME IInv, NEW resched \in BOOLEAN, TimerIrq(resched)
    PROVE  IInv'
<1>1. /\ phase = "user"
      /\ phase' \in {"user", "sched"}
      /\ UNCHANGED <<pid, parent, state, wait_channel, timer, pending, mask, action,
                     stop_reported, frames, saved, kpc, wait_req, holder, prev_task,
                     next_task, next_pid>>
  BY DEF TimerIrq, NoSwitch
<1>2. left' \in [Slots -> Nat]
  BY DEF TimerIrq, IInv, TypeOK
<1>3. TypeOK'
  BY <1>1, <1>2 DEF IInv, TypeOK, Phases
<1> QED
  BY <1>1, <1>3 DEF IInv, IdleInv, CurrentInv, OneRunner,
     TimerInv, WaitInv, ActionInv, KilledNeverParks, OrphansAdopted

-----------------------------------------------------------------------------
(* signal_deliver *)

LEMMA DeliverQuietStep ==
    ASSUME IInv, NEW c \in Slots, DeliverNothing(c) \/ DeliverIgnored(c)
    PROVE  IInv'
<1>1. CASE DeliverNothing(c)
  BY <1>1 DEF DeliverNothing, NoSwitch, taskVars, IInv, TypeOK, Phases, IdleInv, CurrentInv,
     OneRunner, TimerInv, WaitInv, ActionInv, KilledNeverParks, OrphansAdopted
<1>2. CASE DeliverIgnored(c)
  <2>1. UNCHANGED <<pid, parent, state, wait_channel, timer, left, mask, action,
                    stop_reported, frames, saved, kpc, wait_req, phase, holder, prev_task,
                    next_task, next_pid>>
    BY <1>2 DEF DeliverIgnored, NoSwitch
  <2>2. /\ pending' \in [Slots -> SUBSET Signals]
        /\ \A s \in Slots : pending'[s] \subseteq pending[s]
    BY <1>2 DEF DeliverIgnored, IInv, TypeOK
  <2>3. TypeOK'
    BY <2>1, <2>2 DEF IInv, TypeOK
  <2> QED
    BY <2>1, <2>2, <2>3 DEF IInv, IdleInv, CurrentInv, OneRunner,
       TimerInv, WaitInv, ActionInv, KilledNeverParks, OrphansAdopted
<1> QED
  BY <1>1, <1>2

\* A stop signal is delivered only when no SIGKILL is pending, because
\* signal_next takes the lowest number first.
LEMMA DeliverStopStep ==
    ASSUME IInv, NEW c \in Slots, DeliverStop(c)
    PROVE  IInv'
<1>1. /\ phase = "deliver" /\ c = prev_task /\ c # IDLE
      /\ state[c] \in {"RUNNING", "READY"}
      /\ timer[c] # "RUNNING"
      /\ wait_channel[c] = "none"
  BY CurrentFacts DEF DeliverStop
<1>2. PICK sg \in StopSignals :
          /\ SignalNext(c, sg)
          /\ TellParent(parent[c], [pending EXCEPT ![c] = @ \ {sg}])
  BY DEF DeliverStop
<1>3. /\ pending' = [s \in Slots |->
             IF pid[s] = parent[c] /\ action[s][SIGCHLD].handler = "CATCH"
             THEN [pending EXCEPT ![c] = @ \ {sg}][s] \cup {SIGCHLD}
             ELSE [pending EXCEPT ![c] = @ \ {sg}][s]]
      /\ wait_channel' = [s \in Slots |->
             IF pid[s] = parent[c] /\ wait_channel[s] = "self" THEN "none"
             ELSE wait_channel[s]]
      /\ state' = [s \in Slots |->
             IF pid[s] = parent[c] /\ wait_channel[s] = "self"
             THEN "READY" ELSE [state EXCEPT ![c] = "STOPPED"][s]]
      /\ stop_reported' = [stop_reported EXCEPT ![c] = FALSE]
      /\ kpc' = [kpc EXCEPT ![c] = "stop"]
      /\ phase' = "sched"
      /\ UNCHANGED <<pid, parent, timer, left, mask, action, frames, saved, wait_req,
                     holder, prev_task, next_task, next_pid>>
  BY <1>2 DEF DeliverStop, TellParent, ToldState, NoSwitch
<1>4. SIGKILL \notin pending[c]
  <2>1. SIGKILL \notin mask[c]
    BY DEF IInv, TypeOK
  <2>2. \A k \in pending[c] \ mask[c] : sg <= k
    BY <1>2 DEF SignalNext, Deliverable
  <2>3. ~(sg <= SIGKILL)
    BY DEF StopSignals, SIGKILL, SIGSTOP, SIGTSTP, SIGTTIN, SIGTTOU
  <2> QED
    BY <2>1, <2>2, <2>3
<1>5. /\ state'[c] = "STOPPED"
      /\ \A s \in Slots \ {c} :
             state'[s] = state[s] \/ (state[s] = "BLOCKED" /\ state'[s] = "READY")
  BY <1>1, <1>3 DEF IInv, TypeOK, WaitInv
<1>6. \A s \in Slots : SIGKILL \in pending'[s] => SIGKILL \in pending[s]
  BY <1>3 DEF IInv, TypeOK, SIGKILL, SIGCHLD
<1>7. TypeOK'
  BY <1>3, KSchedAssumption DEF IInv, TypeOK, States, Phases
<1>8. IdleInv' /\ CurrentInv' /\ OneRunner'
  BY <1>1, <1>3, <1>5, KSchedAssumption
     DEF IInv, TypeOK, IdleInv, CurrentInv, OneRunner, Slots, IDLE
<1>9. TimerInv' /\ WaitInv' /\ ActionInv' /\ KilledNeverParks'
  BY <1>1, <1>3, <1>4, <1>5, <1>6
     DEF IInv, TypeOK, TimerInv, WaitInv, ActionInv, KilledNeverParks
<1>10. OrphansAdopted'
  BY <1>1, <1>3, <1>5 DEF IInv, OrphansAdopted
<1> QED
  BY <1>7, <1>8, <1>9, <1>10 DEF IInv

LEMMA DeliverFatalStep ==
    ASSUME IInv, NEW c \in Slots, DeliverFatal(c)
    PROVE  IInv'
<1>1. /\ phase = "deliver" /\ c = prev_task /\ c # IDLE
      /\ UNCHANGED <<timer, left, mask, action, stop_reported, frames, saved, kpc,
                     wait_req, holder, prev_task, next_task, next_pid>>
  BY CurrentFacts DEF DeliverFatal, NoSwitch
<1>2. PICK sg \in Signals : Terminate(c, [pending EXCEPT ![c] = @ \ {sg}])
  BY DEF DeliverFatal
<1> DEFINE pend == [pending EXCEPT ![c] = @ \ {sg}]
<1>3. /\ pend \in [Slots -> SUBSET Signals]
      /\ \A s \in Slots : pend[s] \subseteq pending[s]
  BY DEF IInv, TypeOK
<1>4. /\ mask' \in [Slots -> SUBSET (Signals \ {SIGKILL, SIGSTOP})]
      /\ frames' \in [Slots -> Seq(SUBSET (Signals \ {SIGKILL, SIGSTOP}))]
  BY <1>1 DEF IInv, TypeOK
<1>5. Terminate(c, pend)
  BY <1>2
<1> HIDE DEF pend
<1> QED
  BY <1>1, <1>3, <1>4, <1>5, TerminateStep

LEMMA DeliverHandlerStep ==
    ASSUME IInv, NEW c \in Slots, DeliverHandler(c)
    PROVE  IInv'
<1>1. /\ phase = "deliver" /\ c = prev_task
      /\ phase' = "user"
      /\ UNCHANGED <<pid, parent, state, wait_channel, timer, left, action,
                     stop_reported, saved, kpc, wait_req, holder, prev_task, next_task, next_pid>>
  BY DEF DeliverHandler, NoSwitch
<1>2. PICK sg \in Signals :
          /\ pending' = [pending EXCEPT ![c] = @ \ {sg}]
          /\ frames' = [frames EXCEPT ![c] = Append(@, mask[c])]
          /\ mask' = [mask EXCEPT ![c] = (@ \cup action[c][sg].mask \cup {sg}) \ Unmaskable]
  BY DEF DeliverHandler
<1>3. /\ pending' \in [Slots -> SUBSET Signals]
      /\ \A s \in Slots : pending'[s] \subseteq pending[s]
  BY <1>2 DEF IInv, TypeOK
<1>4. frames' \in [Slots -> Seq(SUBSET (Signals \ {SIGKILL, SIGSTOP}))]
  BY <1>2 DEF IInv, TypeOK
<1>5. mask' \in [Slots -> SUBSET (Signals \ {SIGKILL, SIGSTOP})]
  <2>1. action[c][sg].mask \in SUBSET Signals
    BY DEF IInv, TypeOK, Actions
  <2>2. (mask[c] \cup action[c][sg].mask \cup {sg}) \ Unmaskable
            \in SUBSET (Signals \ {SIGKILL, SIGSTOP})
    BY <2>1 DEF IInv, TypeOK, Unmaskable
  <2> QED
    BY <1>2, <2>2 DEF IInv, TypeOK
<1>6. TypeOK'
  BY <1>1, <1>3, <1>4, <1>5 DEF IInv, TypeOK, Phases
<1> QED
  BY <1>1, <1>3, <1>6 DEF IInv, IdleInv, CurrentInv, OneRunner,
     TimerInv, WaitInv, ActionInv, KilledNeverParks, OrphansAdopted

-----------------------------------------------------------------------------
(* The theorems *)

LEMMA NextIInv == IInv /\ [Next]_vars => IInv'
<1> SUFFICES ASSUME IInv, [Next]_vars PROVE IInv'
  OBVIOUS
<1>1. CASE UNCHANGED vars
  BY <1>1 DEF vars, taskVars, IInv, TypeOK, IdleInv, CurrentInv, OneRunner,
     TimerInv, WaitInv, ActionInv, KilledNeverParks, OrphansAdopted
<1>2. CASE Schedule
  BY <1>2, ScheduleStep
<1>3. ASSUME NEW c \in Slots, Syscall(c) PROVE IInv'
  BY <1>3, ExitStep, ForkStep, ExecStep, WaitStep, SleepStep, KillStep,
     SignalActionStep, SignalSetMaskStep, SignalReturnStep, OtherSyscallStep DEF Syscall
<1>4. ASSUME NEW c \in Slots, Continue(c) PROVE IInv'
  BY <1>4, WaitStep, ResumeStep DEF Continue
<1>5. ASSUME NEW c \in Slots, Deliver(c) PROVE IInv'
  BY <1>5, DeliverQuietStep, DeliverStopStep, DeliverFatalStep, DeliverHandlerStep
     DEF Deliver
<1>6. CASE KeyboardIrq
  BY <1>6, KeyboardStep
<1>7. ASSUME NEW resched \in BOOLEAN, TimerIrq(resched) PROVE IInv'
  BY <1>7, TimerIrqStep
<1>8. CASE Halted
  BY <1>1, <1>8 DEF Halted
<1>9. ASSUME NEW c \in Slots, Driver(c) PROVE IInv'
  BY <1>9, DriverStep
<1> QED
  BY <1>1, <1>2, <1>3, <1>4, <1>5, <1>6, <1>7, <1>8, <1>9 DEF Next

THEOREM SchedInvariant == Spec => []IInv
<1>1. Init => IInv
  BY InitIInv
<1>2. IInv /\ [Next]_vars => IInv'
  BY NextIInv
<1> QED
  BY <1>1, <1>2, PTL DEF Spec

\* Type correctness: no operation leaves a field of struct ktask outside its
\* range, and no mask, stored, saved or in use, ever holds an unmaskable signal.
THEOREM TypeCorrect == Spec => []TypeOK
<1>1. IInv => TypeOK
  BY DEF IInv
<1> QED
  BY <1>1, SchedInvariant, PTL

\* At most one task is RUNNING, and it is the one schedule_impl switched to.
THEOREM OneRunnerHolds == Spec => []OneRunner
<1>1. IInv => OneRunner
  BY DEF IInv
<1> QED
  BY <1>1, SchedInvariant, PTL

\* A task with SIGKILL pending is never stopped, and the one sleep it can be in
\* is that of acquire_mutex.
THEOREM KilledNeverParksHolds == Spec => []KilledNeverParks
<1>1. IInv => KilledNeverParks
  BY DEF IInv
<1> QED
  BY <1>1, SchedInvariant, PTL

\* Every process has a parent that can still reap it, or init.
THEOREM OrphansAdoptedHolds == Spec => []OrphansAdopted
<1>1. IInv => OrphansAdopted
  BY DEF IInv
<1> QED
  BY <1>1, SchedInvariant, PTL

\* schedule_impl always finds a task: the idle thread is runnable whenever it
\* looks, so the panic of find_next_task is unreachable.
THEOREM AlwaysATaskHolds == Spec => []AlwaysATask
<1>1. Init => AlwaysATask
  BY DEF Init, AlwaysATask
<1>2. IInv /\ AlwaysATask /\ [Next]_vars => AlwaysATask'
  <2> SUFFICES ASSUME IInv, AlwaysATask, [Next]_vars PROVE AlwaysATask'
    OBVIOUS
  <2>1. CASE Schedule
    <3>1. phase = "sched"
      BY <2>1 DEF Schedule
    <3>2. Runnable(AfterTimers(Yielded)) # {}
      BY <3>1, TimersFacts
    <3> QED
      BY <2>1, <3>2 DEF Schedule, SwitchTo, AlwaysATask
  <2>2. ASSUME NEW c \in Slots, Syscall(c) PROVE AlwaysATask'
    BY <2>2 DEF Syscall, AlwaysATask, Exit, Fork, Exec, Wait, WaitLoop, Sleep, Kill,
       SignalAction, SignalSetMask, SignalReturn, OtherSyscall, Terminate
  <2>3. ASSUME NEW c \in Slots, Driver(c) \/ Continue(c) \/ Deliver(c) PROVE AlwaysATask'
    BY <2>3 DEF Driver, AcquireMutex, PollRelax, ReleaseMutex, Continue, Deliver, AlwaysATask, WaitAgain, WaitLoop, ResumeToDeliver,
       DeliverNothing, DeliverIgnored, DeliverStop, DeliverFatal, DeliverHandler, Terminate
  <2>4. CASE KeyboardIrq \/ Halted \/ UNCHANGED vars
    BY <2>4 DEF KeyboardIrq, Halted, vars, AlwaysATask
  <2>5. ASSUME NEW resched \in BOOLEAN, TimerIrq(resched) PROVE AlwaysATask'
    BY <2>5 DEF TimerIrq, AlwaysATask
  <2> QED
    BY <2>1, <2>2, <2>3, <2>4, <2>5 DEF Next
<1> QED
  BY <1>1, <1>2, SchedInvariant, PTL DEF Spec

\* What one step may do to the zombie in slot s.
ZombieKept(s) == state[s] = "DONE" /\ pid[s] # NoPid => state'[s] = "DONE"

\* The end of task c, or its stop or replacement, leaves other zombies alone.
LEMMA ToldKeeps ==
    ASSUME IInv, NEW c \in Slots, state[c] # "DONE", NEW p, NEW x \in States,
           state' = ToldState(p, [state EXCEPT ![c] = x]),
           NEW s \in Slots
    PROVE  ZombieKept(s)
BY DEF IInv, TypeOK, WaitInv, ToldState, ZombieKept

\* An ended task is not schedulable again before it is reaped: its timer is
\* off and it is on no wait channel when it ends, signal_send passes it over,
\* and only free slots are reused.
THEOREM ZombieStaysHolds == Spec => ZombieStays
<1>1. ASSUME IInv, [Next]_vars, NEW s \in Slots PROVE ZombieKept(s)
  <2>1. CASE Schedule
    <3>1. phase = "sched"
      BY <2>1 DEF Schedule
    <3>2. /\ IDLE \in Runnable(AfterTimers(Yielded))
          /\ AfterTimers(Yielded) \in [Slots -> States]
          /\ AfterTimers(Yielded)[s] = "DONE" <=> state[s] = "DONE"
      BY <1>1, <3>1, TimersFacts
    <3>3. PICK c \in Startable(AfterTimers(Yielded)) :
              state' = [AfterTimers(Yielded) EXCEPT ![c] = "RUNNING"]
      BY <2>1, <3>2 DEF Schedule, SwitchTo
    <3> QED
      BY <3>2, <3>3 DEF ZombieKept, Startable
  <2>2. ASSUME NEW c \in Slots, Syscall(c) PROVE ZombieKept(s)
    <3>1. phase = "user" /\ c = prev_task
      BY <2>2 DEF Syscall, InUser, Exit, Fork, Exec, Wait, Sleep, Kill, SignalAction,
         SignalSetMask, SignalReturn, OtherSyscall
    <3>2. state[c] # "DONE"
      BY <1>1, <3>1 DEF IInv, CurrentInv
    <3>3. CASE Exit(c) \/ Exec(c) \/ SignalReturn(c)
      <4>1. \/ state' = ToldState(parent[c], [state EXCEPT ![c] = "DONE"])
            \/ state' = ToldState(parent[c], [state EXCEPT ![c] = "NEW"])
            \/ UNCHANGED state
        BY <3>3 DEF Exit, Exec, SignalReturn, Terminate
      <4>2. "DONE" \in States /\ "NEW" \in States
        BY DEF States
      <4>3. CASE UNCHANGED state
        BY <4>3 DEF ZombieKept
      <4> QED
        BY <1>1, <3>2, <4>1, <4>2, <4>3, ToldKeeps
    <3>4. CASE Fork(c)
      BY <1>1, <3>4 DEF Fork, taskVars, ZombieKept, IInv, TypeOK
    <3>5. CASE Wait(c)
      BY <1>1, <3>2, <3>5 DEF Wait, WaitLoop, ZombieKept, IInv, TypeOK
    <3>6. CASE Kill(c)
      BY <1>1, <3>6 DEF Kill, SignalSend, Reaches, ZombieKept, IInv, TypeOK
    <3>7. CASE Sleep(c) \/ SignalAction(c) \/ SignalSetMask(c) \/ OtherSyscall(c)
      BY <3>7 DEF Sleep, SignalAction, SignalSetMask, OtherSyscall, taskVars, ZombieKept
    <3> QED
      BY <2>2, <3>3, <3>4, <3>5, <3>6, <3>7 DEF Syscall
  <2>3. ASSUME NEW c \in Slots, Continue(c) \/ Deliver(c) PROVE ZombieKept(s)
    <3>1. phase \in {"kernel", "deliver"} /\ c = prev_task
      BY <2>3 DEF Continue, Deliver, WaitAgain, ResumeToDeliver, DeliverNothing,
         DeliverIgnored, DeliverStop, DeliverFatal, DeliverHandler
    <3>2. state[c] # "DONE"
      BY <1>1, <3>1 DEF IInv, CurrentInv
    <3>3. CASE DeliverStop(c) \/ DeliverFatal(c)
      <4>1. \/ state' = ToldState(parent[c], [state EXCEPT ![c] = "DONE"])
            \/ state' = ToldState(parent[c], [state EXCEPT ![c] = "STOPPED"])
        BY <3>3 DEF DeliverStop, DeliverFatal, Terminate
      <4>2. "DONE" \in States /\ "STOPPED" \in States
        BY DEF States
      <4> QED
        BY <1>1, <3>2, <4>1, <4>2, ToldKeeps
    <3>4. CASE WaitAgain(c)
      BY <1>1, <3>2, <3>4 DEF WaitAgain, WaitLoop, ZombieKept, IInv, TypeOK
    <3>5. CASE \/ ResumeToDeliver(c) \/ DeliverNothing(c) \/ DeliverIgnored(c)
               \/ DeliverHandler(c)
      BY <3>5 DEF ResumeToDeliver, DeliverNothing, DeliverIgnored, DeliverHandler,
         taskVars, ZombieKept
    <3> QED
      BY <2>3, <3>3, <3>4, <3>5 DEF Continue, Deliver
  <2>4. CASE KeyboardIrq
    BY <1>1, <2>4 DEF KeyboardIrq, SignalSend, Reaches, ZombieKept, IInv, TypeOK
  <2>5. ASSUME NEW resched \in BOOLEAN, TimerIrq(resched) PROVE ZombieKept(s)
    BY <2>5 DEF TimerIrq, ZombieKept
  <2>6. CASE Halted \/ UNCHANGED vars
    BY <2>6 DEF Halted, vars, taskVars, ZombieKept
  <2>7. ASSUME NEW c \in Slots, Driver(c) PROVE ZombieKept(s)
    <3>1. state[c] # "DONE"
      BY <1>1, <2>7, DriverFacts, CurrentFacts DEF DriverDoes
    <3> QED
      BY <1>1, <2>7, <3>1, DriverFacts DEF DriverDoes, ZombieKept
  <2> QED
    BY <1>1, <2>1, <2>2, <2>3, <2>4, <2>5, <2>6, <2>7 DEF Next
<1>2. IInv /\ [Next]_vars =>
          [\A s \in Slots : state[s] = "DONE" /\ pid[s] # NoPid => state'[s] = "DONE"]_vars
  BY <1>1 DEF ZombieKept
<1> QED
  BY <1>2, SchedInvariant, PTL DEF Spec, ZombieStays

-----------------------------------------------------------------------------
(* Who sleeps, for how long, and who ends a sleep or a stop                *)

\* Nothing that a task would have to act on is pending, but for SIGCHLD.
Quiet(s) == \A sg \in pending[s] \ (mask[s] \cup {SIGCHLD}) : Ignored(s, sg)

\* A running timer is that of a task in sleep().
SleepInv == \A s \in Slots : timer[s] = "RUNNING" =>
                kpc[s] = "sleep" /\ (pid[s] # NoPid => Quiet(s))

\* A task asleep in wait() can be woken by its children.
ChannelInv == \A s \in Slots : state[s] = "BLOCKED" /\ kpc[s] = "wait" =>
                  wait_channel[s] = "self"

WakeInv == SleepInv /\ ChannelInv /\ NoSleepThroughSignal /\ WaiterWoken

LEMMA InitWakeInv == Init => WakeInv
BY KSchedAssumption DEF Init, WakeInv, SleepInv, ChannelInv, NoSleepThroughSignal, WaiterWoken

\* Nobody falls asleep, and no child becomes reportable to a sleeper.
LEMMA NobodySleeps ==
    ASSUME WakeInv,
           \A s \in Slots : timer'[s] = "RUNNING" => timer[s] = "RUNNING",
           \A s \in Slots : state'[s] = "BLOCKED" =>
               \/ state[s] = "BLOCKED" /\ wait_channel'[s] = wait_channel[s]
               \/ timer[s] = "RUNNING"
               \/ kpc'[s] = "mutex",
           \A s \in Slots :
               (state'[s] = "BLOCKED" /\ kpc'[s] # "mutex") \/ timer'[s] = "RUNNING" =>
               /\ pid'[s] = pid[s] /\ mask'[s] = mask[s] /\ action'[s] = action[s]
               /\ pending'[s] \subseteq pending[s] \cup {SIGCHLD}
               /\ kpc'[s] = kpc[s] /\ wait_req'[s] = wait_req[s],
           \A s, k \in Slots :
               /\ pid[s] \notin {NoPid, INIT_PID} /\ state[s] = "BLOCKED" /\ kpc[s] = "wait"
               /\ state'[s] = "BLOCKED" /\ pid'[s] = pid[s] /\ wait_req'[s] = wait_req[s]
               /\ Reportable(s, k, wait_req[s])'
               => Reportable(s, k, wait_req[s])
    PROVE  WakeInv'
<1>1. ASSUME NEW s \in Slots, pid'[s] # NoPid,
             \/ state'[s] = "BLOCKED" /\ kpc'[s] \in {"wait", "sleep"}
             \/ timer'[s] = "RUNNING"
      PROVE  Quiet(s)'
  <2>1. Quiet(s)
    BY <1>1 DEF WakeInv, SleepInv, NoSleepThroughSignal, Quiet
  <2> QED
    BY <1>1, <2>1 DEF Quiet, Ignored
<1>2. SleepInv'
  BY <1>1 DEF WakeInv, SleepInv
<1>3. ChannelInv'
  BY DEF WakeInv, SleepInv, ChannelInv
<1>4. NoSleepThroughSignal'
  BY <1>1 DEF NoSleepThroughSignal, Quiet
<1>5. WaiterWoken'
  <2> SUFFICES ASSUME NEW s \in Slots, pid'[s] \notin {NoPid, INIT_PID}, state'[s] = "BLOCKED",
                      kpc'[s] = "wait", NEW k \in Slots, Reportable(s, k, wait_req[s])'
               PROVE  FALSE
    BY DEF WaiterWoken
  <2>1. state[s] = "BLOCKED" /\ kpc[s] = "wait"
    BY DEF WakeInv, SleepInv
  <2>2. Reportable(s, k, wait_req[s])
    BY <2>1
  <2> QED
    BY <2>1, <2>2 DEF WakeInv, WaiterWoken
<1> QED
  BY <1>2, <1>3, <1>4, <1>5 DEF WakeInv

\* The current task does something that concerns no other, or reaps a child.
LEMMA OwnStep ==
    ASSUME IInv, WakeInv, NEW c \in Slots, c = prev_task, phase \in {"user", "kernel", "deliver"},
           UNCHANGED <<parent, state, timer>>,
           \A s \in Slots : s # c => /\ wait_channel'[s] = wait_channel[s] /\ mask'[s] = mask[s]
                                     /\ action'[s] = action[s] /\ pending'[s] = pending[s]
                                     /\ kpc'[s] = kpc[s] /\ wait_req'[s] = wait_req[s],
           \A s \in Slots : /\ pid'[s] # pid[s] => pid'[s] = NoPid /\ state[s] = "DONE"
                            /\ stop_reported'[s] = stop_reported[s] \/ stop_reported'[s] = TRUE
    PROVE  WakeInv'
<1>1. state[c] # "BLOCKED" /\ timer[c] # "RUNNING"
  BY CurrentFacts
<1>2. \A s \in Slots : timer[s] = "RUNNING" => state[s] # "DONE"
  BY DEF IInv, TimerInv
<1>3. ASSUME NEW s \in Slots, NEW k \in Slots, pid'[s] = pid[s], wait_req'[s] = wait_req[s],
             Reportable(s, k, wait_req[s])'
      PROVE  Reportable(s, k, wait_req[s])
  BY <1>3 DEF Reportable, Matches
<1> QED
  BY <1>1, <1>2, <1>3, NobodySleeps

\* The current task ends, stops or becomes another program, and its parent is
\* told.
LEMMA ToldStep ==
    ASSUME IInv, WakeInv, NEW c \in Slots, c = prev_task, phase \in {"user", "kernel", "deliver"},
           NEW x \in {"DONE", "NEW", "STOPPED"},
           NEW pend, \A s \in Slots : pend[s] \subseteq pending[s],
           TellParent(parent[c], pend),
           state' = ToldState(parent[c], [state EXCEPT ![c] = x]),
           parent' = parent \/ parent' = Reparented(pid[c]),
           \A s \in Slots : s # c => /\ pid'[s] = pid[s] /\ timer'[s] = timer[s]
                                     /\ mask'[s] = mask[s] /\ action'[s] = action[s]
                                     /\ stop_reported'[s] = stop_reported[s] /\ kpc'[s] = kpc[s],
           timer'[c] # "RUNNING", UNCHANGED wait_req
    PROVE  WakeInv'
<1>1. state[c] \in {"RUNNING", "READY"} /\ timer[c] # "RUNNING" /\ wait_channel[c] = "none"
  BY CurrentFacts
<1>2. /\ \A s \in Slots : pending'[s] \subseteq pending[s] \cup {SIGCHLD}
      /\ \A s \in Slots : wait_channel'[s] = IF pid[s] = parent[c] /\ wait_channel[s] = "self"
                                             THEN "none" ELSE wait_channel[s]
  BY DEF TellParent
<1>3. /\ \A s \in Slots : state'[s] = IF pid[s] = parent[c] /\ wait_channel[s] = "self" THEN "READY"
                                      ELSE IF s = c THEN x ELSE state[s]
  BY DEF ToldState, IInv, TypeOK
<1>4. \A s \in Slots : state'[s] = "BLOCKED" => s # c /\ state[s] = "BLOCKED"
  BY <1>3
<1>5. \A s \in Slots : state'[s] = "BLOCKED" =>
          wait_channel'[s] = wait_channel[s] \/ timer[s] = "RUNNING"
  BY ZenonT(30), <1>2, <1>3, <1>4 DEF IInv, TypeOK
<1>6. ASSUME NEW s \in Slots, NEW k \in Slots, pid[s] \notin {NoPid, INIT_PID}, state[s] = "BLOCKED",
             kpc[s] = "wait", state'[s] = "BLOCKED", pid'[s] = pid[s], wait_req'[s] = wait_req[s],
             Reportable(s, k, wait_req[s])'
      PROVE  Reportable(s, k, wait_req[s])
  <2>1. parent[k] = pid[s] /\ parent'[k] = parent[k]
    BY <1>6 DEF Reportable, Matches, Reparented, IInv, TypeOK
  <2>2. wait_channel[s] = "self"
    BY <1>6 DEF WakeInv, ChannelInv
  <2>3. k # c
    BY <1>3, <1>6, <2>1, <2>2
  <2>4. state'[k] \in {"DONE", "STOPPED"} => state'[k] = state[k]
    BY <1>3, <2>3
  <2> QED
    BY <1>6, <2>1, <2>3, <2>4 DEF Reportable, Matches
<1> QED
  BY <1>1, <1>2, <1>4, <1>5, <1>6, NobodySleeps

\* A signal ends the sleep of the task that it is for, unless it is ignored.
LEMMA SendStep ==
    ASSUME IInv, WakeInv, phase = "user", NEW t \in Slots, NEW sg \in Signals, SignalSend(t, sg),
           UNCHANGED <<pid, parent, mask, action, kpc, wait_req>>
    PROVE  WakeInv'
<1>1. \A s \in Slots : timer[s] = "RUNNING" => state[s] = "BLOCKED"
  BY DEF IInv, TimerInv
<1>2. \A s \in Slots : s # t => /\ state'[s] = state[s] /\ wait_channel'[s] = wait_channel[s]
                                /\ timer'[s] = timer[s] /\ pending'[s] = pending[s]
                                /\ stop_reported'[s] = stop_reported[s]
  BY DEF SignalSend
<1>3. state'[t] = "BLOCKED" \/ timer'[t] = "RUNNING" =>
          /\ state[t] = "BLOCKED" /\ wait_channel'[t] = wait_channel[t] /\ timer'[t] = timer[t]
          /\ pending'[t] \subseteq pending[t]
  BY <1>1 DEF SignalSend, MakesReady, IInv, TypeOK
<1>4. state'[t] \in {"DONE", "STOPPED"} =>
          state'[t] = state[t] /\ (state[t] = "STOPPED" => stop_reported'[t] = stop_reported[t])
  BY DEF SignalSend, IInv, TypeOK
<1>5. ASSUME NEW s \in Slots, NEW k \in Slots, Reportable(s, k, wait_req[s])'
      PROVE  Reportable(s, k, wait_req[s])
  <2>1. CASE k = t
    BY <1>4, <1>5, <2>1 DEF Reportable, Matches
  <2>2. CASE k # t
    BY <1>2, <1>5, <2>2 DEF Reportable, Matches
  <2> QED
    BY <2>1, <2>2
<1>6. \A s \in Slots : state'[s] = "BLOCKED" \/ timer'[s] = "RUNNING" =>
          /\ state[s] = "BLOCKED" /\ wait_channel'[s] = wait_channel[s] /\ timer'[s] = timer[s]
          /\ pending'[s] \subseteq pending[s]
  BY <1>1, <1>2, <1>3
<1> QED
  BY <1>5, <1>6, NobodySleeps

\* schedule_impl puts only the owners of running timers to sleep.
LEMMA ScheduleWakes == ASSUME IInv, WakeInv, Schedule PROVE WakeInv'
<1> DEFINE st == AfterTimers(Yielded)
<1>1. phase = "sched"
  BY DEF Schedule
<1>2. /\ IDLE \in Runnable(st) /\ st \in [Slots -> States]
      /\ \A s \in Slots : st[s] = "DONE" <=> state[s] = "DONE"
      /\ \A s \in Slots : timer[s] = "RUNNING" => st[s] = (IF left[s] = 0 THEN "READY" ELSE "BLOCKED")
  BY <1>1, TimersFacts
<1>3. PICK c \in Startable(st) : state' = [st EXCEPT ![c] = "RUNNING"]
  BY <1>2 DEF Schedule, SwitchTo
<1>4. /\ UNCHANGED <<pid, parent, wait_channel, pending, mask, action, stop_reported, kpc, wait_req>>
      /\ timer' = [s \in Slots |->
             IF state[s] # "STOPPED" /\ timer[s] = "RUNNING" /\ left[s] = 0
             THEN "EXPIRED" ELSE timer[s]]
  BY <1>2 DEF Schedule
<1>5. \A s \in Slots : /\ st[s] = "BLOCKED" => state[s] = "BLOCKED" \/ timer[s] = "RUNNING"
                       /\ st[s] = "STOPPED" => state[s] = "STOPPED"
  BY DEF AfterTimers, Yielded, IInv, TypeOK
<1> HIDE DEF st
<1>6. \A s \in Slots : /\ state'[s] = "BLOCKED" => state[s] = "BLOCKED" \/ timer[s] = "RUNNING"
                       /\ state'[s] \in {"DONE", "STOPPED"} => state'[s] = state[s]
  BY <1>2, <1>3, <1>5
<1>7. \A s \in Slots : timer'[s] = "RUNNING" => timer[s] = "RUNNING"
  BY <1>4
<1>8. ASSUME NEW s \in Slots, NEW k \in Slots, Reportable(s, k, wait_req[s])'
      PROVE  Reportable(s, k, wait_req[s])
  BY <1>4, <1>6, <1>8 DEF Reportable, Matches
<1> QED
  BY <1>4, <1>6, <1>7, <1>8, NobodySleeps

\* A new process neither sleeps nor ends a sleep.
LEMMA ForkWakes == ASSUME IInv, WakeInv, NEW c \in Slots, Fork(c) PROVE WakeInv'
<1>1. CASE UNCHANGED taskVars
  BY <1>1, NobodySleeps DEF taskVars, Reportable, Matches
<1>2. ASSUME NEW t \in Slots, pid[t] = NoPid,
             pid' = [pid EXCEPT ![t] = next_pid],
             parent' = [parent EXCEPT ![t] = pid[c]],
             state' = [state EXCEPT ![t] = "READY"],
             wait_channel' = [wait_channel EXCEPT ![t] = "none"],
             timer' = [timer EXCEPT ![t] = "UNUSED"],
             pending' = [pending EXCEPT ![t] = {}],
             mask' = [mask EXCEPT ![t] = mask[c]],
             action' = [action EXCEPT ![t] = action[c]],
             stop_reported' = [stop_reported EXCEPT ![t] = FALSE],
             kpc' = [kpc EXCEPT ![t] = "user"], UNCHANGED wait_req
      PROVE  WakeInv'
  <2>1. /\ state'[t] = "READY" /\ timer'[t] = "UNUSED"
        /\ \A s \in Slots : s # t => /\ pid'[s] = pid[s] /\ parent'[s] = parent[s] /\ state'[s] = state[s]
                                     /\ wait_channel'[s] = wait_channel[s] /\ timer'[s] = timer[s]
                                     /\ pending'[s] = pending[s] /\ mask'[s] = mask[s]
                                     /\ action'[s] = action[s] /\ kpc'[s] = kpc[s]
                                     /\ stop_reported'[s] = stop_reported[s]
    BY <1>2 DEF IInv, TypeOK
  <2>2. ASSUME NEW s \in Slots, NEW k \in Slots, pid'[s] = pid[s], Reportable(s, k, wait_req[s])'
        PROVE  Reportable(s, k, wait_req[s])
    <3>1. k # t
      BY <2>1, <2>2 DEF Reportable
    <3> QED
      BY <1>2, <2>1, <2>2, <3>1 DEF Reportable, Matches
  <2> QED
    BY <1>2, <2>1, <2>2, NobodySleeps
<1> QED
  BY <1>1, <1>2 DEF Fork

\* What holds for a task that is about to act on no signal.
LEMMA NothingPending ==
    ASSUME NEW c, ~HasUnmaskedPending(c)
    PROVE  Quiet(c)
BY DEF HasUnmaskedPending, Quiet

\* sleep() looks for signals before it arms the timer.
LEMMA SleepWakes == ASSUME IInv, WakeInv, NEW c \in Slots, Sleep(c) PROVE WakeInv'
<1>1. /\ phase = "user" /\ c = prev_task /\ state[c] # "BLOCKED"
      /\ UNCHANGED <<pid, parent, state, wait_channel, pending, mask, action, stop_reported, wait_req>>
  BY CurrentFacts DEF Sleep, InUser
<1>2. CASE UNCHANGED <<timer, kpc>>
  BY <1>1, <1>2, OwnStep
<1>3. CASE /\ ~HasUnmaskedPending(c) /\ timer' = [timer EXCEPT ![c] = "RUNNING"]
           /\ kpc' = [kpc EXCEPT ![c] = "sleep"]
  <2>1. /\ kpc'[c] = "sleep" /\ Quiet(c)
        /\ \A s \in Slots : s # c => timer'[s] = timer[s] /\ kpc'[s] = kpc[s]
    BY <1>3, NothingPending DEF IInv, TypeOK
  <2>2. \A s \in Slots : Quiet(s)' <=> Quiet(s)
    BY <1>1 DEF Quiet, Ignored
  <2>3. SleepInv' /\ ChannelInv' /\ NoSleepThroughSignal'
    BY <1>1, <2>1, <2>2 DEF WakeInv, SleepInv, ChannelInv, NoSleepThroughSignal, Quiet
  <2>4. WaiterWoken'
    <3>1. \A s, k \in Slots : Reportable(s, k, wait_req[s])' <=> Reportable(s, k, wait_req[s])
      BY <1>1 DEF Reportable, Matches
    <3> QED
      BY <1>1, <2>1, <3>1 DEF WakeInv, WaiterWoken
  <2> QED
    BY <2>3, <2>4 DEF WakeInv
<1> QED
  BY <1>2, <1>3 DEF Sleep

\* wait() looks for children and signals before it sleeps.
LEMMA WaitWakes ==
    ASSUME IInv, WakeInv, NEW c \in Slots, c = prev_task, phase \in {"user", "kernel"},
           NEW w, NEW nohang, WaitLoop(c, w, nohang)
    PROVE  WakeInv'
<1>1. state[c] # "BLOCKED" /\ timer[c] # "RUNNING" /\ UNCHANGED <<parent, timer, pending, mask, action>>
  BY CurrentFacts DEF WaitLoop
<1>2. ASSUME UNCHANGED state,
             wait_channel' = [wait_channel EXCEPT ![c] = "none"],
             kpc' = [kpc EXCEPT ![c] = "user"], wait_req' = [wait_req EXCEPT ![c] = NoWait],
             \/ UNCHANGED <<pid, stop_reported>>
             \/ \E s \in Slots :
                    \/ /\ state[s] = "DONE" /\ pid' = [pid EXCEPT ![s] = NoPid]
                       /\ UNCHANGED stop_reported
                    \/ stop_reported' = [stop_reported EXCEPT ![s] = TRUE] /\ UNCHANGED pid
      PROVE  WakeInv'
  <2>1. \A s \in Slots : s # c => /\ wait_channel'[s] = wait_channel[s] /\ kpc'[s] = kpc[s]
                                  /\ wait_req'[s] = wait_req[s]
    BY <1>2 DEF IInv, TypeOK
  <2>2. \A s \in Slots : /\ pid'[s] # pid[s] => pid'[s] = NoPid /\ state[s] = "DONE"
                         /\ stop_reported'[s] = stop_reported[s] \/ stop_reported'[s] = TRUE
    BY <1>2 DEF IInv, TypeOK
  <2> QED
    BY <1>1, <1>2, <2>1, <2>2, OwnStep
<1>3. ASSUME \A s \in Slots : ~Reportable(c, s, w), ~HasUnmaskedPending(c),
             wait_channel' = [wait_channel EXCEPT ![c] = "self"],
             state' = [state EXCEPT ![c] = "BLOCKED"], kpc' = [kpc EXCEPT ![c] = "wait"],
             wait_req' = [wait_req EXCEPT ![c] = w], UNCHANGED <<pid, stop_reported>>
      PROVE  WakeInv'
  <2>1. /\ wait_channel'[c] = "self" /\ state'[c] = "BLOCKED" /\ wait_req'[c] = w /\ Quiet(c)
        /\ \A s \in Slots : s # c => /\ wait_channel'[s] = wait_channel[s] /\ state'[s] = state[s]
                                     /\ kpc'[s] = kpc[s] /\ wait_req'[s] = wait_req[s]
    BY <1>3, NothingPending DEF IInv, TypeOK
  <2>2. \A s \in Slots : Quiet(s)' <=> Quiet(s)
    BY <1>1 DEF Quiet, Ignored
  <2>3. SleepInv' /\ ChannelInv' /\ NoSleepThroughSignal'
    BY <1>1, <1>3, <2>1, <2>2 DEF WakeInv, SleepInv, ChannelInv, NoSleepThroughSignal, Quiet
  <2>4. WaiterWoken'
    <3> SUFFICES ASSUME NEW s \in Slots, pid'[s] \notin {NoPid, INIT_PID}, state'[s] = "BLOCKED",
                        kpc'[s] = "wait", NEW k \in Slots, Reportable(s, k, wait_req[s])'
                 PROVE  FALSE
      BY DEF WaiterWoken
    <3>1. Reportable(s, k, wait_req'[s])
      BY <1>1, <1>3, <2>1 DEF Reportable, Matches
    <3>2. CASE s = c
      BY <1>3, <2>1, <3>1, <3>2
    <3>3. CASE s # c
      BY <1>3, <2>1, <3>1, <3>3 DEF WakeInv, WaiterWoken
    <3> QED
      BY <3>2, <3>3
  <2> QED
    BY <2>3, <2>4 DEF WakeInv
<1> QED
  BY <1>2, <1>3 DEF WaitLoop

-----------------------------------------------------------------------------
(* Sleeps end                                                              *)

\* A task that ends, with or without a signal that is delivered to it.
LEMMA TerminateWakes ==
    ASSUME IInv, WakeInv, NEW c \in Slots, c = prev_task, phase \in {"user", "kernel", "deliver"},
           NEW pend, \A s \in Slots : pend[s] \subseteq pending[s], Terminate(c, pend),
           UNCHANGED <<timer, mask, action, stop_reported, kpc, wait_req>>
    PROVE  WakeInv'
<1>1. timer[c] # "RUNNING"
  BY CurrentFacts
<1>2. \A s \in Slots : s # c => pid'[s] = pid[s]
  BY DEF Terminate, IInv, TypeOK
<1> QED
  BY <1>1, <1>2, ToldStep DEF Terminate

LEMMA EndWakes ==
    ASSUME IInv, WakeInv, NEW c \in Slots, Exit(c) \/ SignalReturn(c) \/ DeliverFatal(c)
    PROVE  WakeInv'
<1>1. CASE Exit(c)
  BY <1>1, TerminateWakes DEF Exit, InUser
<1>2. CASE SignalReturn(c)
  <2>1. /\ phase = "user" /\ c = prev_task
        /\ UNCHANGED <<timer, action, stop_reported, kpc, wait_req>>
    BY <1>2 DEF SignalReturn, InUser
  <2>2. CASE Terminate(c, pending) /\ UNCHANGED mask
    BY <2>1, <2>2, TerminateWakes
  <2>3. ASSUME NEW x, mask' = [mask EXCEPT ![c] = x], UNCHANGED <<pid, parent, state, wait_channel, pending>>
        PROVE  WakeInv'
    <3>1. \A s \in Slots : s # c => mask'[s] = mask[s]
      BY <2>3 DEF IInv, TypeOK
    <3> QED
      BY <2>1, <2>3, <3>1, OwnStep
  <2> QED
    BY <1>2, <2>2, <2>3 DEF SignalReturn
<1>3. CASE DeliverFatal(c)
  <2>1. PICK sg \in Signals : Terminate(c, [pending EXCEPT ![c] = @ \ {sg}])
    BY <1>3 DEF DeliverFatal
  <2> DEFINE pend == [pending EXCEPT ![c] = @ \ {sg}]
  <2>2. \A s \in Slots : pend[s] \subseteq pending[s]
    BY DEF IInv, TypeOK
  <2>3. Terminate(c, pend)
    BY <2>1
  <2>4. /\ phase = "deliver" /\ c = prev_task
        /\ UNCHANGED <<timer, mask, action, stop_reported, kpc, wait_req>>
    BY <1>3 DEF DeliverFatal
  <2> HIDE DEF pend
  <2> QED
    BY <2>2, <2>3, <2>4, TerminateWakes
<1> QED
  BY <1>1, <1>2, <1>3

LEMMA ExecWakes == ASSUME IInv, WakeInv, NEW c \in Slots, Exec(c) PROVE WakeInv'
<1>1. /\ phase = "user" /\ c = prev_task /\ TellParent(parent[c], pending)
      /\ state' = ToldState(parent[c], [state EXCEPT ![c] = "NEW"])
      /\ parent' = Reparented(pid[c])
      /\ UNCHANGED <<pid, stop_reported, kpc, wait_req>>
  BY DEF Exec, InUser
<1>2. /\ timer'[c] # "RUNNING"
      /\ \A s \in Slots : s # c => /\ timer'[s] = timer[s] /\ mask'[s] = mask[s]
                                   /\ action'[s] = action[s]
  BY DEF Exec, IInv, TypeOK
<1> QED
  BY <1>1, <1>2, ToldStep

LEMMA StopWakes == ASSUME IInv, WakeInv, NEW c \in Slots, DeliverStop(c) PROVE WakeInv'
<1>1. PICK sg \in StopSignals : TellParent(parent[c], [pending EXCEPT ![c] = @ \ {sg}])
  BY DEF DeliverStop
<1> DEFINE pend == [pending EXCEPT ![c] = @ \ {sg}]
<1>2. TellParent(parent[c], pend) /\ \A s \in Slots : pend[s] \subseteq pending[s]
  BY <1>1 DEF IInv, TypeOK
<1>3. /\ phase = "deliver" /\ c = prev_task
      /\ state' = ToldState(parent[c], [state EXCEPT ![c] = "STOPPED"])
      /\ UNCHANGED <<pid, parent, timer, mask, action, wait_req>>
      /\ \A s \in Slots : s # c => stop_reported'[s] = stop_reported[s] /\ kpc'[s] = kpc[s]
  BY DEF DeliverStop, IInv, TypeOK
<1>4. timer[c] # "RUNNING"
  BY <1>3, CurrentFacts
<1> HIDE DEF pend
<1> QED
  BY <1>2, <1>3, <1>4, ToldStep

\* The task in user mode changes what its signals do, or none of this.
LEMMA QuietWakes ==
    ASSUME IInv, WakeInv, NEW c \in Slots,
           \/ SignalAction(c) \/ SignalSetMask(c) \/ OtherSyscall(c) \/ ResumeToDeliver(c)
           \/ DeliverNothing(c) \/ DeliverIgnored(c) \/ DeliverHandler(c)
    PROVE  WakeInv'
<1>1. /\ c = prev_task /\ phase \in {"user", "kernel", "deliver"}
      /\ UNCHANGED <<pid, parent, state, timer, stop_reported, wait_channel, wait_req>>
  BY DEF SignalAction, SignalSetMask, OtherSyscall, ResumeToDeliver, DeliverNothing, DeliverIgnored,
     DeliverHandler, InUser, taskVars
<1>2. \A s \in Slots : s # c => mask'[s] = mask[s]
  BY DEF SignalAction, SignalSetMask, OtherSyscall, ResumeToDeliver, DeliverNothing, DeliverIgnored,
     DeliverHandler, taskVars, IInv, TypeOK
<1>3. \A s \in Slots : s # c => action'[s] = action[s] /\ pending'[s] = pending[s]
  BY DEF SignalAction, SignalSetMask, OtherSyscall, ResumeToDeliver, DeliverNothing, DeliverIgnored,
     DeliverHandler, taskVars, IInv, TypeOK
<1>4. \A s \in Slots : s # c => kpc'[s] = kpc[s]
  BY DEF SignalAction, SignalSetMask, OtherSyscall, ResumeToDeliver, DeliverNothing, DeliverIgnored,
     DeliverHandler, taskVars, IInv, TypeOK
<1> QED
  BY <1>1, <1>2, <1>3, <1>4, OwnStep

\* The driver puts nobody to sleep but in acquire_mutex.
LEMMA DriverWakes == ASSUME IInv, WakeInv, NEW c \in Slots, Driver(c) PROVE WakeInv'
<1>1. state[c] \in {"RUNNING", "READY"} /\ timer[c] # "RUNNING"
  BY DriverFacts, CurrentFacts DEF DriverDoes
<1>2. /\ \A s \in Slots : timer'[s] = "RUNNING" => s # c /\ timer[s] = "RUNNING"
      /\ \A s \in Slots : state'[s] = "BLOCKED" =>
            \/ s # c /\ state[s] = "BLOCKED" /\ wait_channel'[s] = wait_channel[s]
            \/ s = c /\ kpc'[s] = "mutex"
      /\ \A s \in Slots : s # c => kpc'[s] = kpc[s]
      /\ UNCHANGED <<pid, parent, pending, mask, action, stop_reported, wait_req>>
  BY <1>1, DriverFacts DEF DriverDoes, IInv, TypeOK
<1>3. \A s \in Slots : state'[s] \in {"DONE", "STOPPED"} => state'[s] = state[s]
  BY <1>1, DriverFacts DEF DriverDoes
<1>4. ASSUME NEW s \in Slots, NEW k \in Slots, Reportable(s, k, wait_req[s])'
      PROVE  Reportable(s, k, wait_req[s])
  BY <1>2, <1>3, <1>4 DEF Reportable, Matches
<1> QED
  BY <1>2, <1>4, NobodySleeps

\* A step that leaves all this alone.
LEMMA NothingWakes ==
    ASSUME WakeInv, UNCHANGED <<pid, parent, state, wait_channel, timer, pending, mask, action,
                                stop_reported, kpc, wait_req>>
    PROVE  WakeInv'
BY NobodySleeps DEF Reportable, Matches

LEMMA KillWakes ==
    ASSUME IInv, WakeInv, KeyboardIrq \/ \E c \in Slots : Kill(c)
    PROVE  WakeInv'
<1>1. phase = "user" /\ UNCHANGED <<pid, parent, mask, action, kpc, wait_req>>
  BY DEF KeyboardIrq, Kill, InUser, SignalFrame
<1>2. ASSUME NEW s \in Slots, NEW sg \in Sendable, SignalSend(s, sg) PROVE WakeInv'
  BY <1>1, <1>2, SendStep, KSchedAssumption
<1>3. CASE UNCHANGED <<pending, state, wait_channel, timer, stop_reported>>
  BY <1>1, <1>3, NothingWakes
<1> QED
  BY <1>2, <1>3 DEF KeyboardIrq, Kill

LEMMA NextWakeInv == IInv /\ WakeInv /\ [Next]_vars => WakeInv'
<1> SUFFICES ASSUME IInv, WakeInv, [Next]_vars PROVE WakeInv'
  OBVIOUS
<1>1. CASE Schedule
  BY <1>1, ScheduleWakes
<1>2. ASSUME NEW c \in Slots, Syscall(c) PROVE WakeInv'
  <2>1. CASE Wait(c)
    BY <2>1, WaitWakes DEF Wait, InUser
  <2> QED
    BY <1>2, <2>1, EndWakes, ForkWakes, ExecWakes, SleepWakes, KillWakes, QuietWakes DEF Syscall
<1>3. ASSUME NEW c \in Slots, Continue(c) PROVE WakeInv'
  BY <1>3, WaitWakes, QuietWakes DEF Continue, WaitAgain
<1>4. ASSUME NEW c \in Slots, Deliver(c) PROVE WakeInv'
  BY <1>4, QuietWakes, StopWakes, EndWakes DEF Deliver
<1>5. CASE KeyboardIrq
  BY <1>5, KillWakes
<1>6. CASE Halted \/ UNCHANGED vars \/ \E resched \in BOOLEAN : TimerIrq(resched)
  BY <1>6, NothingWakes DEF Halted, vars, taskVars, TimerIrq
<1>7. ASSUME NEW c \in Slots, Driver(c) PROVE WakeInv'
  BY <1>7, DriverWakes
<1> QED
  BY <1>1, <1>2, <1>3, <1>4, <1>5, <1>6, <1>7 DEF Next

\* A timer runs only for a task asleep in sleep() that has nothing to act on, a
\* task asleep in wait() is on the channel its children wake, and neither is
\* asleep when it has a signal or a child to look at.
THEOREM WakeInvariant == Spec => []WakeInv
<1>1. Init => WakeInv
  BY InitWakeInv
<1>2. IInv /\ WakeInv /\ [Next]_vars => WakeInv'
  BY NextWakeInv
<1> QED
  BY <1>1, <1>2, SchedInvariant, PTL DEF Spec

\* No task sleeps in wait() or sleep() while a signal other than SIGCHLD that
\* it would have to act on is pending and not masked: both look before they
\* sleep, and signal_send ends the sleep of a task that it does not pass over.
THEOREM NoSleepThroughSignalHolds == Spec => []NoSleepThroughSignal
<1>1. WakeInv => NoSleepThroughSignal
  BY DEF WakeInv
<1> QED
  BY <1>1, WakeInvariant, PTL

\* A process other than init never stays asleep in wait() with a child to
\* report: the end, the stop and the replacement of a child wake it.
THEOREM WaiterWokenHolds == Spec => []WaiterWoken
<1>1. WakeInv => WaiterWoken
  BY DEF WakeInv
<1> QED
  BY <1>1, WakeInvariant, PTL

-----------------------------------------------------------------------------
(* Stops end                                                               *)

\* What one step may do to the stopped task in slot s.
StopKept(s) ==
    pid[s] # NoPid /\ state[s] = "STOPPED" /\ state'[s] # "STOPPED" =>
        /\ state'[s] = "READY"
        /\ \/ SignalSend(s, SIGKILL)
           \/ SignalSend(s, SIGCONT) /\ pending'[s] \cap StopSignals = {}

\* Telling a parent does not end its stop.
LEMMA ToldStays ==
    ASSUME IInv, NEW c \in Slots, c = prev_task, phase \in {"user", "kernel", "deliver"},
           NEW p, NEW x, state' = ToldState(p, [state EXCEPT ![c] = x]), NEW s \in Slots
    PROVE  StopKept(s)
<1>1. state[c] # "STOPPED"
  BY CurrentFacts
<1> QED
  BY <1>1 DEF ToldState, StopKept, IInv, TypeOK, WaitInv

LEMMA SendStays ==
    ASSUME IInv, NEW t \in Slots, NEW sg \in Signals, SignalSend(t, sg), NEW s \in Slots
    PROVE  StopKept(s)
<1>1. CASE s # t
  <2>1. state'[s] = state[s]
    BY <1>1 DEF SignalSend
  <2> QED
    BY <2>1 DEF StopKept
<1>2. CASE s = t /\ sg = SIGCONT /\ state[t] = "STOPPED"
  <2>1. state'[t] = "READY"
    BY <1>2 DEF SignalSend, IInv, TypeOK
  <2>2. SIGCONT \notin StopSignals
    BY DEF SIGCONT, StopSignals, SIGSTOP, SIGTSTP, SIGTTIN, SIGTTOU
  <2>3. pending'[t] \cap StopSignals = {}
    BY <1>2, <2>2 DEF SignalSend, IInv, TypeOK
  <2> QED
    BY <1>2, <2>1, <2>3 DEF StopKept
<1>3. CASE s = t /\ sg # SIGCONT /\ state[t] = "STOPPED"
  <2>1. state'[t] # "STOPPED" => sg = SIGKILL /\ state'[t] = "READY"
    BY <1>3 DEF SignalSend, MakesReady, IInv, TypeOK
  <2> QED
    BY <1>3, <2>1 DEF StopKept
<1> QED
  BY <1>1, <1>2, <1>3 DEF StopKept

\* Only signal_send(SIGCONT), which takes back the stop signals still pending,
\* and signal_send(SIGKILL) end a stop: timers and every wakeup pass it over.
THEOREM StopHoldsAlways == Spec => StopHolds
<1>1. ASSUME IInv, [Next]_vars, NEW s \in Slots PROVE StopKept(s)
  <2>1. CASE UNCHANGED state
    BY <2>1 DEF StopKept
  <2>2. CASE Schedule
    <3>1. phase = "sched"
      BY <2>2 DEF Schedule
    <3>2. IDLE \in Runnable(AfterTimers(Yielded)) /\ AfterTimers(Yielded) \in [Slots -> States]
      BY <1>1, <3>1, TimersFacts
    <3>3. PICK c \in Startable(AfterTimers(Yielded)) :
              state' = [AfterTimers(Yielded) EXCEPT ![c] = "RUNNING"]
      BY <2>2, <3>2 DEF Schedule, SwitchTo
    <3>4. state[s] = "STOPPED" => AfterTimers(Yielded)[s] = "STOPPED"
      BY DEF AfterTimers, Yielded
    <3> QED
      BY <3>2, <3>3, <3>4 DEF StopKept, Startable
  <2>3. ASSUME NEW c \in Slots, \/ Exit(c) \/ Exec(c) \/ SignalReturn(c)
                                \/ DeliverStop(c) \/ DeliverFatal(c)
        PROVE  StopKept(s)
    <3>1. /\ c = prev_task /\ phase \in {"user", "kernel", "deliver"}
          /\ \/ UNCHANGED state
             \/ state' = ToldState(parent[c], [state EXCEPT ![c] = "DONE"])
             \/ state' = ToldState(parent[c], [state EXCEPT ![c] = "NEW"])
             \/ state' = ToldState(parent[c], [state EXCEPT ![c] = "STOPPED"])
      BY <2>3 DEF Exit, Exec, SignalReturn, DeliverStop, DeliverFatal, Terminate, InUser
    <3> QED
      BY <1>1, <2>1, <3>1, ToldStays
  <2>4. ASSUME NEW c \in Slots, Fork(c) PROVE StopKept(s)
    <3>1. UNCHANGED state \/ \E t \in Slots : state' = [state EXCEPT ![t] = "READY"] /\ pid[t] = NoPid
      BY <2>4 DEF Fork, taskVars
    <3> QED
      BY <1>1, <2>1, <3>1 DEF StopKept, IInv, TypeOK
  <2>5. ASSUME NEW c \in Slots, Wait(c) \/ WaitAgain(c) PROVE StopKept(s)
    <3>1. /\ c = prev_task /\ phase \in {"user", "kernel"}
          /\ UNCHANGED state \/ state' = [state EXCEPT ![c] = "BLOCKED"]
      BY <2>5 DEF Wait, WaitAgain, WaitLoop, InUser
    <3>2. state[c] # "STOPPED"
      BY <1>1, <3>1, CurrentFacts
    <3> QED
      BY <1>1, <3>1, <3>2 DEF StopKept, IInv, TypeOK
  <2>6. CASE KeyboardIrq \/ \E c \in Slots : Kill(c)
    <3>1. UNCHANGED state \/ \E t \in Slots, sg \in Signals : SignalSend(t, sg)
      BY <2>6, KSchedAssumption DEF KeyboardIrq, Kill
    <3> QED
      BY <1>1, <2>1, <3>1, SendStays
  <2>7. ASSUME NEW c \in Slots,
               \/ Sleep(c) \/ SignalAction(c) \/ SignalSetMask(c) \/ OtherSyscall(c)
               \/ ResumeToDeliver(c) \/ DeliverNothing(c) \/ DeliverIgnored(c) \/ DeliverHandler(c)
        PROVE  UNCHANGED state
    BY <2>7 DEF Sleep, SignalAction, SignalSetMask, OtherSyscall, ResumeToDeliver, DeliverNothing,
       DeliverIgnored, DeliverHandler, taskVars
  <2>8. CASE Halted \/ UNCHANGED vars \/ \E resched \in BOOLEAN : TimerIrq(resched)
    BY <2>1, <2>8 DEF Halted, vars, taskVars, TimerIrq
  <2>9. ASSUME NEW c \in Slots, Driver(c) PROVE StopKept(s)
    <3>1. state[c] # "STOPPED"
      BY <1>1, <2>9, DriverFacts, CurrentFacts DEF DriverDoes
    <3>2. state[s] = "STOPPED" => state'[s] = "STOPPED"
      BY <1>1, <2>9, <3>1, DriverFacts DEF DriverDoes
    <3> QED
      BY <3>2 DEF StopKept
  <2> QED
    BY <1>1, <2>1, <2>2, <2>3, <2>4, <2>5, <2>6, <2>7, <2>8, <2>9
       DEF Next, Syscall, Continue, Deliver
<1>2. IInv /\ [Next]_vars =>
          [\A s \in Slots : pid[s] # NoPid /\ state[s] = "STOPPED" /\ state'[s] # "STOPPED" =>
              /\ state'[s] = "READY"
              /\ \/ SignalSend(s, SIGKILL)
                 \/ SignalSend(s, SIGCONT) /\ pending'[s] \cap StopSignals = {}]_vars
  BY <1>1 DEF StopKept
<1> QED
  BY <1>2, SchedInvariant, PTL DEF Spec, StopHolds
=============================================================================
