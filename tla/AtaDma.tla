------------------------------- MODULE AtaDma -------------------------------
(***************************************************************************)
(* The disk driver, block/ata.c: the driver mutex (locks/mutex.c), the     *)
(* direct-mapped read cache, bus-master DMA with its fast poll, completion *)
(* interrupt, sleep with a timeout and PIO fallback, and PIO.              *)
(*                                                                         *)
(* The kernel is not preempted: `cpu' is the task inside the kernel, and   *)
(* nothing but the device acts until it sleeps, yields or returns.         *)
(* Interrupts come in only while no task is inside the kernel.             *)
(*                                                                         *)
(* External: the IDE controller (DevComplete, DevError, its status bits    *)
(* and its interrupt line) as the driver uses it.  The interrupt line is   *)
(* edge triggered: a request that is asserted while interrupts are off     *)
(* stays latched although the driver has read the device status since.     *)
(***************************************************************************)
EXTENDS Integers, FiniteSets

CONSTANTS
    Task, NoTask,
    LastSector,     \* the disk has sectors 0 .. LastSector
    Entries,        \* ATA_READ_CACHE_ENTRIES
    Values,         \* contents of a sector
    MaxCount,       \* bound: sectors of one read_sectors or write_sectors
    Chunk,          \* ATA_DMA_MAX_SECTORS
    FastDevice,     \* environment: some commands end within the fast poll
    SignalsSent     \* environment: signals are sent to tasks inside the driver

ASSUME AtaAssumption ==
    /\ NoTask \notin Task
    /\ LastSector \in Nat
    /\ Entries \in Nat \ {0}
    /\ Values # {}
    /\ MaxCount \in Nat \ {0}
    /\ Chunk \in Nat \ {0}
    /\ FastDevice \in BOOLEAN /\ SignalsSent \in BOOLEAN

Sectors == 0 .. LastSector
Slot(sec) == sec % Entries
NoJob == [write |-> FALSE, sec |-> 0, count |-> 0]

VARIABLES
    cpu,        \* the task that executes kernel code, or NoTask
    pc,         \* where each task is in the driver
    asleep,     \* TASK_BLOCKED: on the mutex in "acquire", on the DMA in "dma"
    req,        \* the request of each task
    next,       \* sectors of the request already transferred by DMA
    buf,        \* the caller's buffer, by sector
    result,     \* what the call of each task returns
    lock,       \* ata_mutex
    cache,      \* ata_read_cache
    dma_enabled, dma_inflight, dma_result,
    bounce,     \* ata_dma_buffer, by sector
    disk, job, active, intr, error,   \* the disk and the bus-master status
    irq         \* IRQ 14 is latched in the interrupt controller

taskVars == <<cpu, pc, asleep, req, next, buf, result>>
dmaVars == <<dma_enabled, dma_inflight, dma_result, bounce>>
devVars == <<disk, job, active, intr, error, irq>>
vars == <<taskVars, lock, cache, dmaVars, devVars>>

NoValue == CHOOSE v \in Values : TRUE
Requests == {r \in [kind : {"read_sec", "read_sectors", "write_sectors"},
                    sec : Sectors, count : 1 .. MaxCount, value : Values] :
                /\ r.sec + r.count - 1 \in Sectors
                /\ r.kind = "read_sec" => r.count = 1
                /\ r.kind # "write_sectors" => r.value = NoValue}
NoRequest == [kind |-> "read_sec", sec |-> 0, count |-> 1, value |-> NoValue]
NoData == [s \in Sectors |-> NoValue]
Span(r) == r.sec .. r.sec + r.count - 1

Init ==
    /\ cpu = NoTask
    /\ pc = [t \in Task |-> "user"]
    /\ asleep = [t \in Task |-> FALSE]
    /\ req = [t \in Task |-> NoRequest]
    /\ next = [t \in Task |-> 0]
    /\ buf = [t \in Task |-> NoData]
    /\ result = [t \in Task |-> 0]
    /\ lock = 0
    /\ cache = [i \in 0 .. Entries - 1 |-> [valid |-> FALSE, sector |-> 0, data |-> NoValue]]
    /\ dma_enabled = TRUE /\ dma_inflight = 0 /\ dma_result = 0
    /\ bounce = NoData
    /\ disk = NoData
    /\ job = NoJob /\ active = FALSE /\ intr = FALSE /\ error = FALSE
    /\ irq = FALSE

-----------------------------------------------------------------------------
(* The read cache *)

\* Mutant: the entry is left alone.
InvalidatedMutant(r) == cache

\* ata_cache_invalidate on every sector of a write
Invalidated(r) ==
    [i \in DOMAIN cache |->
        IF cache[i].valid /\ cache[i].sector \in Span(r)
        THEN [cache[i] EXCEPT !.valid = FALSE] ELSE cache[i]]

Hit(r) == LET e == cache[Slot(r.sec)] IN e.valid /\ e.sector = r.sec

\* ata_cache_store on every sector of a read: the last one that maps to an
\* entry stays there.
Stored(r, data) ==
    [i \in DOMAIN cache |->
        IF \E s \in Span(r) : Slot(s) = i
        THEN LET s == CHOOSE s \in Span(r) :
                          Slot(s) = i /\ \A k \in Span(r) : Slot(k) = i => k <= s
             IN [valid |-> TRUE, sector |-> s, data |-> data[s]]
        ELSE cache[i]]

-----------------------------------------------------------------------------
(* The mutex and the entry points *)

\* Mutant: the lock is not looked at.
AcquireMutant(t) ==
    /\ lock' = 1
    /\ cpu' = t
    /\ pc' = [pc EXCEPT ![t] = "locked"]
    /\ UNCHANGED asleep

\* acquire_mutex takes the lock or sleeps on it.
Acquire(t) ==
    \/ /\ lock = 0
       /\ lock' = 1
       /\ cpu' = t
       /\ pc' = [pc EXCEPT ![t] = "locked"]
       /\ UNCHANGED asleep
    \/ /\ lock = 1
       /\ pc' = [pc EXCEPT ![t] = "acquire"]
       /\ asleep' = [asleep EXCEPT ![t] = TRUE]
       /\ UNCHANGED <<lock, cpu>>

\* read_sec, read_sectors or write_sectors is called
Call(t) ==
    /\ cpu = NoTask /\ pc[t] = "user"
    /\ \E r \in Requests : req' = [req EXCEPT ![t] = r]
    /\ Acquire(t)
    /\ UNCHANGED <<next, buf, result, cache, dmaVars, devVars>>

AcquireAgain(t) ==
    /\ cpu = NoTask /\ pc[t] = "acquire" /\ ~asleep[t]
    /\ Acquire(t)
    /\ UNCHANGED <<req, next, buf, result, cache, dmaVars, devVars>>

\* Mutant: nobody is woken.
WokenByReleaseMutant(t) == asleep

\* release_mutex: sched_wakeup_one wakes one sleeper, the first in the table.
WokenByRelease(t) ==
    LET sleepers == {u \in Task : pc[u] = "acquire" /\ asleep[u]}
    IN [u \in Task |-> IF sleepers # {} /\ u = CHOOSE x \in sleepers : TRUE
                       THEN FALSE ELSE asleep[u]]

\* The call returns and releases the mutex; request, buffer and result
\* are the caller's again.
Release(t) ==
    /\ lock' = 0
    /\ asleep' = WokenByRelease(t)
    /\ pc' = [pc EXCEPT ![t] = "user"]
    /\ cpu' = NoTask
    /\ req' = [req EXCEPT ![t] = NoRequest]
    /\ next' = [next EXCEPT ![t] = 0]
    /\ buf' = [buf EXCEPT ![t] = NoData]
    /\ result' = [result EXCEPT ![t] = 0]

\* The first step under the lock: a hit ends the call, a write drops the
\* cached copies, and the transfer goes by DMA while DMA is enabled.
Locked(t) ==
    /\ cpu = t /\ pc[t] = "locked"
    /\ IF req[t].kind = "read_sec" /\ Hit(req[t])
       THEN Release(t) /\ UNCHANGED cache
       ELSE /\ cache' = IF req[t].kind = "write_sectors" THEN Invalidated(req[t]) ELSE cache
            /\ pc' = [pc EXCEPT ![t] = IF dma_enabled THEN "chunk" ELSE "pio"]
            /\ UNCHANGED <<cpu, asleep, req, next, buf, result, lock>>
    /\ UNCHANGED <<dmaVars, devVars>>

-----------------------------------------------------------------------------
(* DMA *)

Step(r, n) == IF r.count - n > Chunk THEN Chunk ELSE r.count - n

\* ata_poll_relax gives the CPU away while the device is busy; the task
\* stays ready and goes on later.
Yield(t) ==
    /\ cpu = t /\ pc[t] \in {"chunk", "flush", "pio"}
    /\ cpu' = NoTask
    /\ UNCHANGED <<pc, asleep, req, next, buf, result, lock, cache, dmaVars, devVars>>

GoOn(t) ==
    /\ cpu = NoTask /\ pc[t] \in {"chunk", "flush", "pio", "dma"} /\ ~asleep[t]
    /\ cpu' = t
    /\ UNCHANGED <<pc, asleep, req, next, buf, result, lock, cache, dmaVars, devVars>>

\* ata_dma_chunk_locked up to the start of the engine
StartChunk(t) ==
    /\ cpu = t /\ pc[t] = "chunk"
    /\ LET r == req[t]
           first == r.sec + next[t]
       IN /\ bounce' = IF r.kind = "write_sectors"
                       THEN [s \in Sectors |-> IF s \in first .. first + Step(r, next[t]) - 1
                                               THEN r.value ELSE bounce[s]]
                       ELSE bounce
          /\ job' = [write |-> r.kind = "write_sectors", sec |-> first,
                     count |-> Step(r, next[t])]
    /\ dma_result' = -1
    /\ dma_inflight' = 1
    /\ active' = TRUE /\ intr' = FALSE /\ error' = FALSE
    /\ pc' = [pc EXCEPT ![t] = "poll"]
    /\ UNCHANGED <<cpu, asleep, req, next, buf, result, lock, cache, dma_enabled,
                   disk, irq>>

\* Mutant: a transfer that is still active counts as done.
CompletionResultMutant == IF error THEN -1 ELSE 0

\* What ata_dma_poll_completion and ata_dma_irq make of the status bits
CompletionResult == IF active \/ error THEN -1 ELSE 0

JobSpan == job.sec .. job.sec + job.count - 1
Applied == [s \in Sectors |-> IF s \in JobSpan THEN bounce[s] ELSE disk[s]]

\* ata_dma_stop and the clearing of the status bits: a write that was still
\* active may or may not have reached the disk.
StopEngine ==
    /\ disk' \in IF active /\ job.write THEN {disk, Applied} ELSE {disk}
    /\ job' = NoJob
    /\ active' = FALSE /\ intr' = FALSE /\ error' = FALSE

\* The fast poll sees the completion bit.
PollCompletes(t) ==
    /\ cpu = t /\ pc[t] = "poll"
    /\ intr
    /\ dma_result' = CompletionResult
    /\ dma_inflight' = 0
    /\ StopEngine
    /\ pc' = [pc EXCEPT ![t] = "dmadone"]
    /\ UNCHANGED <<cpu, asleep, req, next, buf, result, lock, cache, dma_enabled,
                   bounce, irq>>

\* The fast poll gives up: sched_sleep_on_if_timeout.
PollGivesUp(t) ==
    /\ cpu = t /\ pc[t] = "poll"
    /\ ~intr
    /\ pc' = [pc EXCEPT ![t] = "dma"]
    /\ asleep' = [asleep EXCEPT ![t] = TRUE]
    /\ cpu' = NoTask
    /\ UNCHANGED <<req, next, buf, result, lock, cache, dmaVars, devVars>>

\* ata_dma_wait goes on after the sleep; a request still in flight is taken
\* to have timed out.
AfterSleep(t) ==
    /\ cpu = t /\ pc[t] = "dma"
    /\ IF dma_inflight # 0
       THEN StopEngine /\ dma_result' = -1 /\ dma_inflight' = 0
       ELSE UNCHANGED <<disk, job, active, intr, error, dma_result, dma_inflight>>
    /\ pc' = [pc EXCEPT ![t] = "dmadone"]
    /\ UNCHANGED <<cpu, asleep, req, next, buf, result, lock, cache, dma_enabled,
                   bounce, irq>>

\* ata_dma_wait has returned: the next chunk, the end of the transfer, or the
\* end of DMA with the fallback of a read and the failure of a write.
DmaDone(t) ==
    /\ cpu = t /\ pc[t] = "dmadone"
    /\ LET r == req[t]
           n == Step(r, next[t])
           here == r.sec + next[t] .. r.sec + next[t] + n - 1
       IN \/ /\ dma_result = 0
             /\ buf' = IF r.kind = "write_sectors" THEN buf
                       ELSE [buf EXCEPT ![t] = [s \in Sectors |->
                                IF s \in here THEN bounce[s] ELSE buf[t][s]]]
             /\ next' = [next EXCEPT ![t] = @ + n]
             /\ pc' = [pc EXCEPT ![t] =
                    IF next[t] + n < r.count THEN "chunk"
                    ELSE IF r.kind = "write_sectors" THEN "flush" ELSE "finish"]
             /\ result' = [result EXCEPT ![t] = 0]
             /\ UNCHANGED dma_enabled
          \/ /\ dma_result # 0
             /\ dma_enabled' = FALSE
             /\ pc' = [pc EXCEPT ![t] =
                    IF r.kind = "write_sectors" THEN "finish" ELSE "pio"]
             /\ result' = [result EXCEPT ![t] = -1]
             /\ UNCHANGED <<buf, next>>
    /\ UNCHANGED <<cpu, asleep, req, lock, cache, dma_inflight, dma_result, bounce,
                   devVars>>

\* ata_wait fails before a chunk or around the cache flush: DMA is disabled.
CommandFails(t) ==
    /\ cpu = t /\ pc[t] \in {"chunk", "flush"}
    /\ dma_enabled' = FALSE
    /\ pc' = [pc EXCEPT ![t] =
                  IF req[t].kind = "write_sectors" THEN "finish" ELSE "pio"]
    /\ result' = [result EXCEPT ![t] = -1]
    /\ UNCHANGED <<cpu, asleep, req, next, buf, lock, cache, dma_inflight, dma_result,
                   bounce, disk, job, active, intr, error, irq>>

\* CMD_CACHE_FLUSH after a DMA write; the drive interrupts when it is done.
Flush(t) ==
    /\ cpu = t /\ pc[t] = "flush"
    /\ pc' = [pc EXCEPT ![t] = "finish"]
    /\ intr' = TRUE /\ irq' = TRUE
    /\ UNCHANGED <<cpu, asleep, req, next, buf, result, lock, cache, dmaVars, disk, job,
                   active, error>>

\* ata_pio_read_locked and ata_pio_write_locked: all sectors, or a failure
\* after some of them.
Pio(t) ==
    /\ cpu = t /\ pc[t] = "pio"
    /\ LET r == req[t]
       IN \E ok \in BOOLEAN, done \in 0 .. r.count :
          /\ ok => done = r.count
          /\ result' = [result EXCEPT ![t] = IF ok THEN 0 ELSE -1]
          /\ IF r.kind = "write_sectors"
             THEN /\ disk' = [s \in Sectors |->
                         IF s \in r.sec .. r.sec + done - 1 THEN r.value ELSE disk[s]]
                  /\ UNCHANGED buf
             ELSE /\ buf' = [buf EXCEPT ![t] = [s \in Sectors |->
                         IF s \in r.sec .. r.sec + done - 1 THEN disk[s] ELSE buf[t][s]]]
                  /\ UNCHANGED disk
    /\ pc' = [pc EXCEPT ![t] = "finish"]
    /\ UNCHANGED <<cpu, asleep, req, next, lock, cache, dmaVars, job, active, intr,
                   error, irq>>

\* A read that succeeded fills the cache; the mutex is released.
Finish(t) ==
    /\ cpu = t /\ pc[t] = "finish"
    /\ cache' = IF req[t].kind # "write_sectors" /\ result[t] = 0
                THEN Stored(req[t], buf[t]) ELSE cache
    /\ Release(t)
    /\ UNCHANGED <<dmaVars, devVars>>

-----------------------------------------------------------------------------
(* Interrupts, timers and signals, taken while no task is in the kernel *)

\* Mutant: the sleeper is not woken.
WokenByIrqMutant == asleep

\* sched_wakeup_one on ata_dma_inflight
WokenByIrq == [t \in Task |-> asleep[t] /\ pc[t] # "dma"]

\* ata_dma_irq
AtaIrq ==
    /\ cpu = NoTask /\ irq
    /\ irq' = FALSE
    /\ IF dma_enabled
       THEN /\ StopEngine
            /\ IF dma_inflight # 0
               THEN /\ dma_result' = CompletionResult
                    /\ dma_inflight' = 0
                    /\ asleep' = WokenByIrq
               ELSE UNCHANGED <<dma_result, dma_inflight, asleep>>
       ELSE UNCHANGED <<disk, job, active, intr, error, dma_result, dma_inflight, asleep>>
    /\ UNCHANGED <<cpu, pc, req, next, buf, result, lock, cache, dma_enabled, bounce>>

\* Mutant: the timer is not armed.
TimeoutMutant(t) == pc[t] = "armed" /\ UNCHANGED vars

\* The two-second timer of a DMA sleep runs out.
Timeout(t) ==
    /\ cpu = NoTask /\ pc[t] = "dma" /\ asleep[t]
    /\ asleep' = [asleep EXCEPT ![t] = FALSE]
    /\ UNCHANGED <<cpu, pc, req, next, buf, result, lock, cache, dmaVars, devVars>>

\* signal_send wakes a blocked task whatever it waits for.
Signal(t) ==
    /\ SignalsSent
    /\ cpu = NoTask /\ asleep[t]
    /\ asleep' = [asleep EXCEPT ![t] = FALSE]
    /\ UNCHANGED <<cpu, pc, req, next, buf, result, lock, cache, dmaVars, devVars>>

-----------------------------------------------------------------------------
(* The device (external) *)

\* During the fast poll only a fast device gets done.
DeviceMayEnd == active /\ (FastDevice \/ \A t \in Task : pc[t] # "poll")

DevComplete ==
    /\ DeviceMayEnd
    /\ IF job.write THEN disk' = Applied /\ UNCHANGED bounce
       ELSE /\ bounce' = [s \in Sectors |-> IF s \in JobSpan THEN disk[s] ELSE bounce[s]]
            /\ UNCHANGED disk
    /\ active' = FALSE /\ intr' = TRUE /\ irq' = TRUE
    /\ UNCHANGED <<taskVars, lock, cache, dma_enabled, dma_inflight, dma_result, job,
                   error>>

DevError ==
    /\ DeviceMayEnd
    /\ disk' \in IF job.write THEN {disk, Applied} ELSE {disk}
    /\ active' = FALSE /\ intr' = TRUE /\ error' = TRUE /\ irq' = TRUE
    /\ UNCHANGED <<taskVars, lock, cache, dmaVars, job>>

\* What t does when it has the CPU, other than yielding it
KernelStep(t) ==
    \/ Locked(t) \/ StartChunk(t) \/ PollCompletes(t) \/ PollGivesUp(t)
    \/ AfterSleep(t) \/ DmaDone(t) \/ CommandFails(t) \/ Flush(t) \/ Pio(t) \/ Finish(t)

Next ==
    \/ \E t \in Task :
          \/ Call(t) \/ AcquireAgain(t) \/ Yield(t) \/ GoOn(t)
          \/ KernelStep(t) \/ Timeout(t) \/ Signal(t)
    \/ AtaIrq \/ DevComplete \/ DevError

Spec == Init /\ [][Next]_vars

\* The task inside the driver gets the CPU again when it is ready
\* (find_next_task is round robin); kernel code runs on, and the yields of
\* ata_wait end because ATA_POLL_LIMIT bounds them; the timer of a sleep runs
\* out.  Nothing is assumed of the device, nor of who gets the mutex next.
Fairness ==
    /\ WF_vars(\E t \in Task : GoOn(t))
    /\ SF_vars(\E t \in Task : KernelStep(t))
    /\ WF_vars(\E t \in Task : Timeout(t))

FairSpec == Spec /\ Fairness

-----------------------------------------------------------------------------
(* Properties *)

Pcs == {"user", "acquire", "locked", "chunk", "poll", "dma", "dmadone", "flush",
        "pio", "finish"}
Inside(t) == pc[t] \notin {"user", "acquire"}

TypeOK ==
    /\ cpu \in Task \cup {NoTask}
    /\ pc \in [Task -> Pcs]
    /\ asleep \in [Task -> BOOLEAN]
    /\ req \in [Task -> Requests]
    /\ next \in [Task -> 0 .. MaxCount]
    /\ buf \in [Task -> [Sectors -> Values]]
    /\ result \in [Task -> {0, -1}]
    /\ lock \in {0, 1}
    /\ cache \in [0 .. Entries - 1 -> [valid : BOOLEAN, sector : Sectors, data : Values]]
    /\ dma_enabled \in BOOLEAN /\ dma_inflight \in {0, 1} /\ dma_result \in {0, -1}
    /\ bounce \in [Sectors -> Values]
    /\ disk \in [Sectors -> Values]
    /\ job \in [write : BOOLEAN, sec : Sectors, count : 0 .. MaxCount]
    /\ {active, intr, error, irq} \subseteq BOOLEAN

\* A cached sector is what the disk holds, whatever transfers fail half way
\* and whoever waits (ata_cache_find, ata_cache_store, ata_cache_invalidate).
CacheCoherent ==
    \A i \in DOMAIN cache : cache[i].valid => cache[i].data = disk[cache[i].sector]

\* A call that is about to return 0 has done its work: a read has the
\* disk's contents in the caller's buffer, a write is on the disk.  No
\* stale interrupt, timeout or fallback turns an unfinished transfer into a
\* success (ata_dma_wait, ata_dma_irq, ata_dma_transfer_locked).
SuccessIsReal ==
    \A t \in Task : pc[t] = "finish" /\ result[t] = 0 =>
        \A s \in Span(req[t]) :
            disk[s] = IF req[t].kind = "write_sectors" THEN req[t].value ELSE buf[t][s]

\* One request at a time owns the channel: a task inside the driver holds
\* the mutex alone, and the one bounce buffer and status are in use by it
\* (acquire_mutex, ata_dma_inflight).
ChannelOwned ==
    /\ \A t, u \in Task : Inside(t) /\ Inside(u) => t = u
    /\ lock = 1 <=> \E t \in Task : Inside(t)
    /\ dma_inflight # 0 => \E t \in Task : pc[t] \in {"poll", "dma"}

\* No wakeup is lost: a task sleeps on the mutex only while somebody will
\* release it, or somebody woken is about to take it (release_mutex,
\* sched_wakeup_one), and nobody sleeps for a DMA request that has ended
\* (sched_sleep_on_if_timeout against ata_dma_irq).
NoLostWakeup ==
    /\ (\E t \in Task : pc[t] = "acquire" /\ asleep[t]) =>
          \/ lock = 1
          \/ \E u \in Task : pc[u] = "acquire" /\ ~asleep[u]
    /\ \A t \in Task : pc[t] = "dma" /\ asleep[t] => dma_inflight # 0

\* Whoever has the mutex gives it back, even when the device never answers.
ChannelFreed == lock = 1 ~> lock = 0
=============================================================================
