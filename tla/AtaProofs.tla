------------------------------ MODULE AtaProofs ------------------------------
(***************************************************************************)
(* Theorems about AtaDma for every number of tasks, sectors and cache      *)
(* entries, every chunk size and whatever the device does.                 *)
(***************************************************************************)
EXTENDS AtaDma, WellFoundedInduction, TLAPS

-----------------------------------------------------------------------------
(* The inductive invariant                                                 *)

IsWrite(t) == req[t].kind = "write_sectors"

\* The sectors of the chunk that t is at, and of those before it.
Here(t) == req[t].sec + next[t] .. req[t].sec + next[t] + Step(req[t], next[t]) - 1
Before(t) == req[t].sec .. req[t].sec + next[t] - 1

\* The sectors S have got where they belong: to the disk, or from it into the
\* caller's buffer, or into the bounce buffer.
Copied(t, S) == \A s \in S : disk[s] = IF IsWrite(t) THEN req[t].value ELSE buf[t][s]
Bounced(t, S) == \A s \in S : disk[s] = IF IsWrite(t) THEN req[t].value ELSE bounce[s]

\* Who is in the kernel, who sleeps, who has the channel.
OwnInv ==
    /\ \A t \in Task :
          /\ cpu = t => Inside(t) /\ ~asleep[t]
          /\ asleep[t] => pc[t] \in {"acquire", "dma"}
          /\ pc[t] \in {"locked", "poll", "dmadone", "finish"} => cpu = t
          /\ pc[t] = "poll" => dma_inflight # 0
    /\ ChannelOwned

\* While a request is in flight the device works on the owner's chunk and on
\* nothing else, and has done it once it is idle without an error.
InFlight(t) == pc[t] \in {"poll", "dma"} /\ dma_inflight # 0
DevInv ==
    /\ active => dma_inflight # 0
    /\ \A t \in Task : InFlight(t) =>
          /\ job = [write |-> IsWrite(t), sec |-> req[t].sec + next[t],
                    count |-> Step(req[t], next[t])]
          /\ IsWrite(t) => \A s \in Here(t) : bounce[s] = req[t].value
          /\ ~active /\ ~error => Bounced(t, Here(t))

\* What a task has done of its request at each point of the driver.
Work(t) ==
    /\ pc[t] \in {"user", "acquire", "locked"} => next[t] = 0
    /\ pc[t] \in {"chunk", "poll", "dma", "dmadone"} =>
          next[t] < req[t].count /\ Copied(t, Before(t))
    /\ (pc[t] = "dmadone" \/ (pc[t] = "dma" /\ dma_inflight = 0)) /\ dma_result = 0 =>
          Bounced(t, Here(t))
    /\ pc[t] = "flush" => IsWrite(t) /\ Copied(t, Span(req[t]))
    /\ pc[t] = "finish" /\ result[t] = 0 => Copied(t, Span(req[t]))
    /\ Inside(t) /\ pc[t] # "locked" /\ IsWrite(t) =>
          \A i \in DOMAIN cache : cache[i].valid => cache[i].sector \notin Span(req[t])
WorkInv == \A t \in Task : Work(t)

IInv == TypeOK /\ OwnInv /\ DevInv /\ WorkInv /\ CacheCoherent /\ NoLostWakeup

-----------------------------------------------------------------------------
(* Requests, chunks and the cache                                          *)

LEMMA RequestFacts ==
    ASSUME NEW r \in Requests
    PROVE  /\ r.kind \in {"read_sec", "read_sectors", "write_sectors"}
           /\ r.sec \in Nat /\ r.count \in 1 .. MaxCount
           /\ r.sec + r.count - 1 <= LastSector
           /\ r.value \in Values
           /\ Span(r) \subseteq Sectors
BY AtaAssumption DEF Requests, Sectors, Span

LEMMA StepFacts ==
    ASSUME NEW r \in Requests, NEW n \in Nat, n < r.count
    PROVE  /\ Step(r, n) \in 1 .. MaxCount
           /\ n + Step(r, n) <= r.count
BY RequestFacts, AtaAssumption DEF Step

\* The sectors of a chunk lie in the request, after those of earlier chunks.
LEMMA HereFacts ==
    ASSUME TypeOK, NEW t \in Task, next[t] < req[t].count
    PROVE  /\ Here(t) \subseteq Span(req[t]) /\ Here(t) \subseteq Sectors
           /\ Before(t) \cap Here(t) = {}
           /\ Before(t) \subseteq Span(req[t])
           /\ req[t].sec + next[t] \in Sectors
           /\ Step(req[t], next[t]) \in 1 .. MaxCount
           /\ next[t] + Step(req[t], next[t]) \in 1 .. req[t].count
<1>1. req[t] \in Requests /\ next[t] \in Nat
  BY AtaAssumption DEF TypeOK
<1>2. Step(req[t], next[t]) \in 1 .. MaxCount /\ next[t] + Step(req[t], next[t]) <= req[t].count
  BY <1>1, StepFacts
<1>3. /\ req[t].sec \in Nat /\ req[t].count \in 1 .. MaxCount
      /\ req[t].sec + req[t].count - 1 <= LastSector
      /\ Span(req[t]) \subseteq Sectors
  BY <1>1, RequestFacts
<1>4. /\ req[t].sec + next[t] \in Sectors
      /\ next[t] + Step(req[t], next[t]) \in 1 .. req[t].count
  BY <1>1, <1>2, <1>3, AtaAssumption DEF Sectors
<1>5. Here(t) \subseteq Span(req[t]) /\ Before(t) \subseteq Span(req[t])
  BY <1>1, <1>2, <1>3, AtaAssumption DEF Here, Before, Span
<1>6. Before(t) \cap Here(t) = {}
  BY <1>1, <1>2, <1>3 DEF Here, Before
<1> QED
  BY <1>2, <1>3, <1>4, <1>5, <1>6

LEMMA SpanSplit ==
    ASSUME NEW a \in Nat, NEW b \in Nat, NEW n \in Nat
    PROVE  a .. a + (b + n) - 1 = (a .. a + b - 1) \cup (a + b .. a + b + n - 1)
OBVIOUS

\* The last sector of a request that maps to an entry.
LEMMA LastInSlot ==
    ASSUME NEW r \in Requests, NEW i, \E s \in Span(r) : Slot(s) = i
    PROVE  \E s \in Span(r) : Slot(s) = i /\ \A k \in Span(r) : Slot(k) = i => k <= s
<1> DEFINE last == r.sec + r.count - 1
           D == {d \in Nat : last - d \in Span(r) /\ Slot(last - d) = i}
<1>1. r.sec \in Nat /\ r.count \in 1 .. MaxCount /\ last \in Nat
  BY RequestFacts, AtaAssumption
<1>2. PICK s0 \in Span(r) : Slot(s0) = i
  OBVIOUS
<1>3. last - s0 \in D
  <2>1. last - s0 \in Nat /\ last - (last - s0) = s0
    BY <1>1, <1>2 DEF Span
  <2> QED
    BY <1>2, <2>1
<1>4. PICK m \in D : \A d \in D : m <= d
  <2>1. D \subseteq Nat /\ D # {}
    BY <1>3
  <2> HIDE DEF D
  <2>2. PICK m \in D : \A d \in D : ~(<<d, m>> \in OpToRel(<, Nat))
    BY <2>1, NatLessThanWellFounded, WFMin
  <2>3. m \in D /\ \A d \in D : ~(d < m)
    BY <2>1, <2>2 DEF OpToRel
  <2> QED
    BY <2>1, <2>3
<1>5. ASSUME NEW k \in Span(r), Slot(k) = i PROVE k <= last - m
  <2>1. last - k \in Nat /\ last - (last - k) = k
    BY <1>1 DEF Span
  <2>2. last - k \in D
    BY <1>5, <2>1
  <2>3. m <= last - k
    BY <1>4, <2>2
  <2> QED
    BY <1>1, <1>4, <2>1, <2>3 DEF Span
<1> QED
  BY <1>4, <1>5

LEMMA StoredFacts ==
    ASSUME NEW r \in Requests, NEW data, NEW i \in DOMAIN cache
    PROVE  \/ Stored(r, data)[i] = cache[i]
           \/ \E s \in Span(r) :
                 Stored(r, data)[i] = [valid |-> TRUE, sector |-> s, data |-> data[s]]
<1>1. CASE \E s \in Span(r) : Slot(s) = i
  <2> DEFINE s == CHOOSE s \in Span(r) :
                      Slot(s) = i /\ \A k \in Span(r) : Slot(k) = i => k <= s
  <2>1. s \in Span(r)
    BY <1>1, LastInSlot
  <2>2. Stored(r, data)[i] = [valid |-> TRUE, sector |-> s, data |-> data[s]]
    BY <1>1 DEF Stored
  <2> QED
    BY <2>1, <2>2
<1>2. CASE ~\E s \in Span(r) : Slot(s) = i
  BY <1>2 DEF Stored
<1> QED
  BY <1>1, <1>2

LEMMA StoredDomain ==
    ASSUME NEW r, NEW data
    PROVE  Stored(r, data) = [i \in DOMAIN cache |-> Stored(r, data)[i]]
BY DEF Stored

LEMMA InitIInv == Init => IInv
<1> SUFFICES ASSUME Init PROVE IInv
  OBVIOUS
<1> USE AtaAssumption
<1>0. NoValue \in Values
  BY DEF NoValue
<1>1. NoRequest \in Requests
  BY <1>0 DEF NoRequest, Requests, Sectors
<1>2. NoData \in [Sectors -> Values] /\ 0 \in Sectors
  BY <1>0 DEF NoData, Sectors
<1>3. TypeOK
  <2>1. NoJob \in [write : BOOLEAN, sec : Sectors, count : 0 .. MaxCount]
    BY <1>2 DEF NoJob
  <2>2. cache \in [0 .. Entries - 1 -> [valid : BOOLEAN, sector : Sectors, data : Values]]
    BY <1>0, <1>2 DEF Init
  <2>3. pc \in [Task -> Pcs] /\ next \in [Task -> 0 .. MaxCount] /\ req \in [Task -> Requests]
        /\ buf \in [Task -> [Sectors -> Values]]
    BY <1>1, <1>2 DEF Init, Pcs
  <2>4. /\ cpu \in Task \cup {NoTask} /\ asleep \in [Task -> BOOLEAN]
        /\ result \in [Task -> {0, -1}] /\ lock \in {0, 1}
        /\ dma_enabled \in BOOLEAN /\ dma_inflight \in {0, 1} /\ dma_result \in {0, -1}
        /\ bounce \in [Sectors -> Values] /\ disk \in [Sectors -> Values]
        /\ {active, intr, error, irq} \subseteq BOOLEAN
    BY <1>2 DEF Init
  <2> QED
    BY <2>1, <2>2, <2>3, <2>4 DEF Init, TypeOK
<1>4. OwnInv
  BY DEF Init, OwnInv, ChannelOwned, Inside
<1>5. DevInv
  BY DEF Init, DevInv, InFlight
<1>6. WorkInv
  BY DEF Init, WorkInv, Work, Inside
<1>7. CacheCoherent /\ NoLostWakeup
  BY DEF Init, CacheCoherent, NoLostWakeup
<1> QED
  BY <1>3, <1>4, <1>5, <1>6, <1>7 DEF IInv

-----------------------------------------------------------------------------
(* Steps of the task that has the channel                                  *)

\* Everybody else is outside the driver.
LEMMA Alone ==
    ASSUME TypeOK, OwnInv, NEW t \in Task, Inside(t), NEW u \in Task, u # t
    PROVE  pc[u] \in {"user", "acquire"}
BY DEF OwnInv, ChannelOwned, Inside

LEMMA OwnerStep ==
    ASSUME IInv, NEW t \in Task, Inside(t), TypeOK', UNCHANGED lock,
           \A u \in Task \ {t} :
               pc'[u] = pc[u] /\ next'[u] = next[u] /\ (asleep'[u] => asleep[u]),
           pc'[t] \notin {"user", "acquire"},
           asleep'[t] => pc'[t] = "dma" /\ dma_inflight' # 0 /\ cpu' = NoTask,
           \/ cpu' = t
           \/ cpu' = NoTask /\ pc'[t] \in {"chunk", "flush", "pio", "dma"},
           pc'[t] = "poll" => dma_inflight' # 0,
           dma_inflight' # 0 => pc'[t] \in {"poll", "dma"},
           active' => dma_inflight' # 0,
           InFlight(t)' =>
               /\ job' = [write |-> IsWrite(t), sec |-> req[t].sec + next[t],
                          count |-> Step(req[t], next[t])]'
               /\ IsWrite(t)' => \A s \in Here(t)' : bounce'[s] = req'[t].value
               /\ ~active' /\ ~error' => Bounced(t, Here(t))',
           Work(t)', CacheCoherent'
    PROVE  IInv'
<1> USE AtaAssumption
<1>1. \A u \in Task \ {t} :
          /\ pc[u] \in {"user", "acquire"} /\ pc'[u] \in {"user", "acquire"}
          /\ next[u] = 0 /\ next'[u] = 0
  BY Alone DEF IInv, WorkInv, Work
<1>2. lock = 1
  BY DEF IInv, OwnInv, ChannelOwned
<1>3. OwnInv'
  <2>1. ChannelOwned'
    BY <1>1, <1>2 DEF ChannelOwned, Inside
  <2>2. ASSUME NEW u \in Task
        PROVE  /\ cpu' = u => Inside(u)' /\ ~asleep'[u]
               /\ asleep'[u] => pc'[u] \in {"acquire", "dma"}
               /\ pc'[u] \in {"locked", "poll", "dmadone", "finish"} => cpu' = u
               /\ pc'[u] = "poll" => dma_inflight' # 0
    <3>1. CASE u = t
      BY <3>1 DEF Inside
    <3>2. CASE u # t
      BY <1>1, <3>2 DEF IInv, OwnInv
    <3> QED
      BY <3>1, <3>2
  <2> QED
    BY <2>1, <2>2 DEF OwnInv
<1>4. DevInv'
  <2> SUFFICES ASSUME NEW u \in Task, InFlight(u)'
               PROVE  /\ job' = [write |-> IsWrite(u), sec |-> req[u].sec + next[u],
                                 count |-> Step(req[u], next[u])]'
                      /\ IsWrite(u)' => \A s \in Here(u)' : bounce'[s] = req'[u].value
                      /\ ~active' /\ ~error' => Bounced(u, Here(u))'
    BY DEF DevInv
  <2>1. u = t
    BY <1>1 DEF InFlight
  <2> QED
    BY <2>1
<1>5. WorkInv'
  <2> SUFFICES ASSUME NEW u \in Task, u # t PROVE Work(u)'
    BY DEF WorkInv
  <2> QED
    BY <1>1 DEF Work, Inside
<1>6. NoLostWakeup'
  BY <1>1, <1>2 DEF NoLostWakeup
<1> QED
  BY <1>3, <1>4, <1>5, <1>6 DEF IInv

LEMMA YieldStep ==
    ASSUME IInv, NEW t \in Task, Yield(t) \/ GoOn(t)
    PROVE  IInv'
<1>1. /\ pc[t] \in {"chunk", "flush", "pio", "dma"}
      /\ cpu' \in {t, NoTask}
      /\ UNCHANGED <<pc, asleep, req, next, buf, result, lock, cache, dma_enabled,
                     dma_inflight, dma_result, bounce, disk, job, active, intr, error, irq>>
  BY DEF Yield, GoOn, dmaVars, devVars
<1>2. Inside(t)
  BY <1>1 DEF Inside
<1>3. TypeOK' /\ CacheCoherent'
  BY <1>1 DEF IInv, TypeOK, CacheCoherent
<1>4. Work(t)'
  <2>1. Work(t)
    BY DEF IInv, WorkInv
  <2> QED
    BY <1>1, <2>1 DEF Work, Copied, Bounced, Before, Here, IsWrite, Inside
<1>5. InFlight(t)' =>
          /\ job' = [write |-> IsWrite(t), sec |-> req[t].sec + next[t],
                     count |-> Step(req[t], next[t])]'
          /\ IsWrite(t)' => \A s \in Here(t)' : bounce'[s] = req'[t].value
          /\ ~active' /\ ~error' => Bounced(t, Here(t))'
  BY <1>1 DEF IInv, DevInv, InFlight, IsWrite, Here, Bounced
<1>6. /\ ~asleep'[t]
      /\ dma_inflight' # 0 => pc'[t] \in {"poll", "dma"}
      /\ active' => dma_inflight' # 0
  <2>1. ~asleep[t]
    BY DEF IInv, OwnInv, Yield, GoOn
  <2>2. dma_inflight # 0 => pc[t] \in {"poll", "dma"}
    BY <1>2 DEF IInv, OwnInv, ChannelOwned, Inside
  <2> QED
    BY <1>1, <2>1, <2>2 DEF IInv, DevInv
<1>7. \/ cpu' = t
      \/ cpu' = NoTask /\ pc'[t] \in {"chunk", "flush", "pio", "dma"}
  BY <1>1
<1>8. pc'[t] \notin {"user", "acquire"} /\ pc'[t] # "poll" /\ UNCHANGED lock
  BY <1>1
<1>9. \A u \in Task \ {t} : pc'[u] = pc[u] /\ next'[u] = next[u] /\ (asleep'[u] => asleep[u])
  BY <1>1
<1> QED
  BY <1>2, <1>3, <1>4, <1>5, <1>6, <1>7, <1>8, <1>9, OwnerStep

\* A step between two requests to the device.
LEMMA QuietStep ==
    ASSUME IInv, NEW t \in Task, Inside(t), cpu = t, TypeOK', cpu' = t, ~asleep[t],
           pc[t] \notin {"poll", "dma"},
           UNCHANGED <<asleep, lock, req, dma_inflight, active>>,
           \A u \in Task \ {t} : pc'[u] = pc[u] /\ next'[u] = next[u],
           pc'[t] \in {"chunk", "flush", "pio", "finish"},
           Work(t)', CacheCoherent'
    PROVE  IInv'
<1>1. dma_inflight = 0 /\ ~active
  <2>1. dma_inflight = 0
    BY DEF IInv, TypeOK, OwnInv, ChannelOwned, Inside
  <2> QED
    BY <2>1 DEF IInv, DevInv
<1>2. ~InFlight(t)' /\ ~asleep'[t] /\ dma_inflight' = 0 /\ ~active'
  BY <1>1 DEF InFlight
<1>3. \A u \in Task \ {t} : asleep'[u] => asleep[u]
  OBVIOUS
<1>4. pc'[t] \notin {"user", "acquire"} /\ pc'[t] # "poll" /\ UNCHANGED lock
  OBVIOUS
<1> QED
  BY <1>2, <1>3, <1>4, OwnerStep

LEMMA LockedStep ==
    ASSUME IInv, NEW t \in Task, cpu = t, pc[t] = "locked",
           cache' = IF IsWrite(t) THEN Invalidated(req[t]) ELSE cache,
           pc' = [pc EXCEPT ![t] = IF dma_enabled THEN "chunk" ELSE "pio"],
           UNCHANGED <<cpu, asleep, req, next, buf, result, lock, dma_enabled,
                       dma_inflight, dma_result, bounce, disk, job, active, intr, error, irq>>
    PROVE  IInv'
<1> USE AtaAssumption
<1>1. /\ pc'[t] \in {"chunk", "pio"} /\ \A u \in Task \ {t} : pc'[u] = pc[u]
      /\ pc' \in [Task -> Pcs]
  BY DEF IInv, TypeOK, Pcs
<1>2. \A i \in DOMAIN cache : /\ i \in DOMAIN cache'
                              /\ cache'[i].valid => cache[i].valid
                              /\ cache'[i].sector = cache[i].sector
                              /\ cache'[i].data = cache[i].data
                              /\ IsWrite(t) /\ cache'[i].valid => cache[i].sector \notin Span(req[t])
                              /\ cache'[i].valid \in BOOLEAN
  <2>1. cache \in [0 .. Entries - 1 -> [valid : BOOLEAN, sector : Sectors, data : Values]]
    BY DEF IInv, TypeOK
  <2>2. CASE IsWrite(t)
    BY <2>1, <2>2 DEF Invalidated
  <2>3. CASE ~IsWrite(t)
    BY <2>1, <2>3
  <2> QED
    BY <2>2, <2>3
<1>3. cache' \in [0 .. Entries - 1 -> [valid : BOOLEAN, sector : Sectors, data : Values]]
  <2>1. cache \in [0 .. Entries - 1 -> [valid : BOOLEAN, sector : Sectors, data : Values]]
    BY DEF IInv, TypeOK
  <2>2. CASE IsWrite(t)
    <3>1. ASSUME NEW i \in 0 .. Entries - 1
          PROVE  Invalidated(req[t])[i] \in [valid : BOOLEAN, sector : Sectors, data : Values]
      BY <2>1 DEF Invalidated
    <3> QED
      BY <2>1, <2>2, <3>1 DEF Invalidated
  <2>3. CASE ~IsWrite(t)
    BY <2>1, <2>3
  <2> QED
    BY <2>2, <2>3
<1>4. TypeOK'
  BY <1>1, <1>3 DEF IInv, TypeOK
<1>5. DOMAIN cache' = DOMAIN cache
  BY <1>3 DEF IInv, TypeOK
<1>6. CacheCoherent'
  BY <1>2, <1>5 DEF IInv, CacheCoherent
<1>7. Work(t)'
  <2>1. next[t] = 0 /\ req[t] \in Requests
    BY DEF IInv, WorkInv, Work, TypeOK
  <2>2. next'[t] < req'[t].count
    BY <2>1, RequestFacts
  <2>3. Copied(t, Before(t))'
    BY <2>1, RequestFacts DEF Copied, Before
  <2> QED
    BY <1>1, <1>2, <1>5, <2>2, <2>3 DEF Work, Inside, IsWrite
<1>8. Inside(t) /\ ~asleep[t]
  BY DEF Inside, IInv, OwnInv
<1> QED
  BY <1>1, <1>4, <1>6, <1>7, <1>8, QuietStep

LEMMA StartChunkStep ==
    ASSUME IInv, NEW t \in Task, StartChunk(t)
    PROVE  IInv'
<1> USE AtaAssumption
<1>1. /\ cpu = t /\ pc[t] = "chunk"
      /\ bounce' = IF IsWrite(t)
                   THEN [s \in Sectors |-> IF s \in Here(t) THEN req[t].value ELSE bounce[s]]
                   ELSE bounce
      /\ job' = [write |-> IsWrite(t), sec |-> req[t].sec + next[t],
                 count |-> Step(req[t], next[t])]
      /\ dma_result' = -1 /\ dma_inflight' = 1
      /\ active' = TRUE /\ intr' = FALSE /\ error' = FALSE
      /\ pc' = [pc EXCEPT ![t] = "poll"]
      /\ UNCHANGED <<cpu, asleep, req, next, buf, result, lock, cache, dma_enabled, disk, irq>>
  BY DEF StartChunk, IsWrite, Here
<1>2. Inside(t) /\ ~asleep[t]
  BY <1>1 DEF Inside, IInv, OwnInv
<1>3. next[t] < req[t].count /\ Copied(t, Before(t)) /\ req[t] \in Requests
  BY <1>1 DEF IInv, WorkInv, Work, TypeOK
<1>4. /\ req[t].sec + next[t] \in Sectors /\ Step(req[t], next[t]) \in 1 .. MaxCount
      /\ Here(t) \subseteq Sectors /\ req[t].value \in Values
  BY <1>3, HereFacts, RequestFacts DEF IInv
<1>5. pc'[t] = "poll" /\ pc' \in [Task -> Pcs] /\ \A u \in Task \ {t} : pc'[u] = pc[u]
  BY <1>1 DEF IInv, TypeOK, Pcs
<1>6. TypeOK'
  <2>1. bounce' \in [Sectors -> Values]
    BY <1>1, <1>4 DEF IInv, TypeOK
  <2>2. job' \in [write : BOOLEAN, sec : Sectors, count : 0 .. MaxCount]
    BY <1>1, <1>4 DEF IsWrite
  <2> QED
    BY <1>1, <1>5, <2>1, <2>2 DEF IInv, TypeOK
<1>7. CacheCoherent'
  BY <1>1 DEF IInv, CacheCoherent
<1>8. Work(t)'
  <2>1. \A i \in DOMAIN cache : IsWrite(t) /\ cache[i].valid => cache[i].sector \notin Span(req[t])
    BY <1>1, <1>2 DEF IInv, WorkInv, Work
  <2> QED
    BY <1>1, <1>3, <1>5, <2>1 DEF Work, Copied, Before, IsWrite
<1>9. InFlight(t)' =>
          /\ job' = [write |-> IsWrite(t), sec |-> req[t].sec + next[t],
                     count |-> Step(req[t], next[t])]'
          /\ IsWrite(t)' => \A s \in Here(t)' : bounce'[s] = req'[t].value
          /\ ~active' /\ ~error' => Bounced(t, Here(t))'
  <2>1. IsWrite(t) => \A s \in Here(t) : bounce'[s] = req[t].value
    BY <1>1, <1>4
  <2> QED
    BY <1>1, <2>1 DEF IsWrite, Here
<1>10. \A u \in Task \ {t} : pc'[u] = pc[u] /\ next'[u] = next[u] /\ (asleep'[u] => asleep[u])
  BY <1>1, <1>5
<1>11. dma_inflight' # 0 /\ ~asleep'[t] /\ cpu' = t /\ UNCHANGED lock
  BY <1>1, <1>2
<1> QED
  BY <1>2, <1>5, <1>6, <1>7, <1>8, <1>9, <1>10, <1>11, OwnerStep

\* The bus master is stopped, or the device writes: at most the owner's chunk
\* changes on the disk, and only for a write.
LEMMA DiskWritten ==
    ASSUME IInv, NEW t \in Task, InFlight(t), UNCHANGED <<cache, req, next, buf>>,
           disk' \in {disk, Applied}, job.write \/ disk' = disk
    PROVE  /\ disk' \in [Sectors -> Values]
           /\ Copied(t, Before(t))'
           /\ CacheCoherent'
           /\ disk' = Applied /\ IsWrite(t) => \A s \in Here(t) : disk'[s] = req[t].value
<1> USE AtaAssumption
<1>1. /\ job.write = IsWrite(t) /\ JobSpan = Here(t)
      /\ IsWrite(t) => \A s \in Here(t) : bounce[s] = req[t].value
  BY DEF IInv, DevInv, JobSpan, Here
<1>2. next[t] < req[t].count /\ Copied(t, Before(t))
  BY DEF IInv, WorkInv, Work, InFlight
<1>3. /\ Here(t) \subseteq Sectors /\ Here(t) \subseteq Span(req[t])
      /\ Before(t) \cap Here(t) = {} /\ Before(t) \subseteq Sectors
  BY <1>2, HereFacts, RequestFacts DEF IInv, TypeOK
<1>4. disk \in [Sectors -> Values] /\ bounce \in [Sectors -> Values]
  BY DEF IInv, TypeOK
<1>5. CASE disk' = disk /\ disk' # Applied
  BY <1>2, <1>4, <1>5 DEF Copied, Before, IsWrite, IInv, CacheCoherent
<1>6. CASE disk' = Applied /\ IsWrite(t)
  <2>1. \A s \in Sectors : disk'[s] = IF s \in Here(t) THEN bounce[s] ELSE disk[s]
    BY <1>1, <1>6 DEF Applied
  <2>2. disk' \in [Sectors -> Values]
    BY <1>4, <1>6 DEF Applied
  <2>3. Copied(t, Before(t))'
    BY <1>2, <1>3, <2>1 DEF Copied, Before, IsWrite
  <2>4. Inside(t) /\ pc[t] # "locked"
    BY DEF InFlight, Inside
  <2>5. \A i \in DOMAIN cache : cache[i].valid => cache[i].sector \notin Here(t)
    BY <1>3, <1>6, <2>4 DEF IInv, WorkInv, Work
  <2>6. CacheCoherent'
    BY <2>1, <2>5 DEF IInv, TypeOK, CacheCoherent
  <2>7. \A s \in Here(t) : disk'[s] = req[t].value
    BY <1>1, <1>3, <1>6, <2>1
  <2> QED
    BY <2>2, <2>3, <2>6, <2>7
<1>7. CASE disk' = disk /\ ~IsWrite(t)
  BY <1>2, <1>4, <1>7 DEF Copied, Before, IsWrite, IInv, CacheCoherent
<1> QED
  BY <1>1, <1>5, <1>6, <1>7

\* A wait ends: the engine is stopped, and the owner either goes on or is
\* made ready by the interrupt.
LEMMA ChunkEnds ==
    ASSUME IInv, NEW t \in Task, InFlight(t), StopEngine,
           dma_inflight' = 0, dma_result' \in {0, -1}, irq' \in BOOLEAN,
           dma_result' = 0 => ~active /\ ~error,
           UNCHANGED <<req, next, buf, result, lock, cache, dma_enabled, bounce>>,
           \/ cpu = t /\ cpu' = t /\ pc' = [pc EXCEPT ![t] = "dmadone"] /\ asleep' = asleep
           \/ cpu' = NoTask /\ pc[t] = "dma" /\ pc' = pc /\ asleep' = WokenByIrq
    PROVE  IInv'
<1> USE AtaAssumption
<1>1. /\ disk' \in {disk, Applied} /\ (job.write \/ disk' = disk)
      /\ ~active => disk' = disk
      /\ job' = NoJob /\ active' = FALSE /\ intr' = FALSE /\ error' = FALSE
  BY DEF StopEngine
<1>2. disk' \in [Sectors -> Values] /\ Copied(t, Before(t))' /\ CacheCoherent'
  BY <1>1, DiskWritten
<1>3. Inside(t) /\ pc[t] # "locked" /\ pc[t] \in {"poll", "dma"}
  BY DEF InFlight, Inside
<1>4. /\ pc'[t] \in {"dmadone", "dma"} /\ pc' \in [Task -> Pcs]
      /\ \A u \in Task \ {t} : pc'[u] = pc[u]
  BY DEF IInv, TypeOK, Pcs
<1>5. /\ asleep' \in [Task -> BOOLEAN] /\ ~asleep'[t]
      /\ \A u \in Task \ {t} : asleep'[u] => asleep[u]
  <2>1. asleep \in [Task -> BOOLEAN] /\ (cpu = t => ~asleep[t])
    BY DEF IInv, TypeOK, OwnInv
  <2> QED
    BY <2>1 DEF WokenByIrq
<1>6. TypeOK'
  <2>1. job' \in [write : BOOLEAN, sec : Sectors, count : 0 .. MaxCount]
    BY <1>1 DEF NoJob, Sectors
  <2>2. cpu' \in Task \cup {NoTask}
    OBVIOUS
  <2> QED
    BY <1>1, <1>2, <1>4, <1>5, <2>1, <2>2 DEF IInv, TypeOK
<1>7. Work(t)'
  <2>1. /\ next[t] < req[t].count
        /\ IsWrite(t) => \A i \in DOMAIN cache :
                             cache[i].valid => cache[i].sector \notin Span(req[t])
    BY <1>3 DEF IInv, WorkInv, Work
  <2>2. dma_result' = 0 => Bounced(t, Here(t))'
    BY <1>1 DEF IInv, DevInv, Bounced, Here, IsWrite
  <2> QED
    BY <1>2, <1>4, <2>1, <2>2 DEF Work, IsWrite
<1>8. ~InFlight(t)' /\ dma_inflight' = 0 /\ ~active'
  BY <1>1 DEF InFlight
<1>9. \/ cpu' = t
      \/ cpu' = NoTask /\ pc'[t] \in {"chunk", "flush", "pio", "dma"}
  OBVIOUS
<1>10. \A u \in Task \ {t} : pc'[u] = pc[u] /\ next'[u] = next[u] /\ (asleep'[u] => asleep[u])
  BY <1>4, <1>5
<1>11. pc'[t] \notin {"user", "acquire"} /\ pc'[t] # "poll" /\ UNCHANGED lock
  BY <1>4
<1> QED
  BY <1>2, <1>3, <1>5, <1>6, <1>7, <1>8, <1>9, <1>10, <1>11, OwnerStep

LEMMA PollCompletesStep ==
    ASSUME IInv, NEW t \in Task, PollCompletes(t)
    PROVE  IInv'
<1>1. /\ cpu = t /\ pc[t] = "poll" /\ StopEngine /\ dma_inflight' = 0
      /\ dma_result' = CompletionResult
      /\ pc' = [pc EXCEPT ![t] = "dmadone"]
      /\ UNCHANGED <<cpu, asleep, req, next, buf, result, lock, cache, dma_enabled,
                     bounce, irq>>
  BY DEF PollCompletes
<1>2. dma_result' \in {0, -1} /\ (dma_result' = 0 => ~active /\ ~error)
  BY <1>1 DEF CompletionResult
<1>3. InFlight(t) /\ irq' \in BOOLEAN
  BY <1>1 DEF InFlight, IInv, OwnInv, TypeOK
<1> QED
  BY <1>1, <1>2, <1>3, ChunkEnds

LEMMA AfterSleepStep ==
    ASSUME IInv, NEW t \in Task, AfterSleep(t)
    PROVE  IInv'
<1> USE AtaAssumption
<1>1. /\ cpu = t /\ pc[t] = "dma"
      /\ pc' = [pc EXCEPT ![t] = "dmadone"]
      /\ UNCHANGED <<cpu, asleep, req, next, buf, result, lock, cache, dma_enabled,
                     bounce, irq>>
  BY DEF AfterSleep
<1>2. CASE dma_inflight # 0
  <2>1. StopEngine /\ dma_result' = -1 /\ dma_inflight' = 0
    BY <1>2 DEF AfterSleep
  <2>2. InFlight(t) /\ irq' \in BOOLEAN
    BY <1>1, <1>2 DEF InFlight, IInv, TypeOK
  <2>3. dma_result' \in {0, -1} /\ (dma_result' = 0 => ~active /\ ~error)
    BY <2>1
  <2> QED
    BY <1>1, <2>1, <2>2, <2>3, ChunkEnds
<1>3. CASE dma_inflight = 0
  <2>1. UNCHANGED <<disk, job, active, intr, error, dma_result, dma_inflight>>
    BY <1>3 DEF AfterSleep
  <2>2. /\ pc'[t] = "dmadone" /\ pc' \in [Task -> Pcs]
        /\ \A u \in Task \ {t} : pc'[u] = pc[u]
    BY <1>1 DEF IInv, TypeOK, Pcs
  <2>3. TypeOK' /\ CacheCoherent'
    BY <1>1, <2>1, <2>2 DEF IInv, TypeOK, CacheCoherent
  <2>4. Work(t)'
    <3>1. Work(t)
      BY DEF IInv, WorkInv
    <3> QED
      BY <1>1, <1>3, <2>1, <2>2, <3>1
      DEF Work, Copied, Bounced, Before, Here, IsWrite, Inside
  <2>5. Inside(t) /\ ~asleep[t] /\ ~active
    BY <1>1, <1>3 DEF Inside, IInv, OwnInv, DevInv
  <2>6. ~InFlight(t)'
    BY <1>3, <2>1 DEF InFlight
  <2>7. \A u \in Task \ {t} : pc'[u] = pc[u] /\ next'[u] = next[u] /\ (asleep'[u] => asleep[u])
    BY <1>1, <2>2
  <2>8. dma_inflight' = 0 /\ ~active' /\ ~asleep'[t] /\ cpu' = t /\ UNCHANGED lock
    BY <1>1, <1>3, <2>1, <2>5
  <2> QED
    BY <2>2, <2>3, <2>4, <2>5, <2>6, <2>7, <2>8, OwnerStep
<1> QED
  BY <1>2, <1>3

LEMMA PollGivesUpStep ==
    ASSUME IInv, NEW t \in Task, PollGivesUp(t)
    PROVE  IInv'
<1> USE AtaAssumption
<1>1. /\ cpu = t /\ pc[t] = "poll" /\ cpu' = NoTask
      /\ pc' = [pc EXCEPT ![t] = "dma"]
      /\ asleep' = [asleep EXCEPT ![t] = TRUE]
      /\ UNCHANGED <<req, next, buf, result, lock, cache, dma_enabled, dma_inflight,
                     dma_result, bounce, disk, job, active, intr, error, irq>>
  BY DEF PollGivesUp, dmaVars, devVars
<1>2. /\ pc'[t] = "dma" /\ pc' \in [Task -> Pcs]
      /\ \A u \in Task \ {t} : pc'[u] = pc[u]
  BY <1>1 DEF IInv, TypeOK, Pcs
<1>3. /\ asleep' \in [Task -> BOOLEAN]
      /\ \A u \in Task \ {t} : asleep'[u] = asleep[u]
  BY <1>1 DEF IInv, TypeOK
<1>4. TypeOK' /\ CacheCoherent'
  BY <1>1, <1>2, <1>3 DEF IInv, TypeOK, CacheCoherent
<1>5. Inside(t) /\ dma_inflight # 0
  BY <1>1 DEF Inside, IInv, OwnInv
<1>6. Work(t)'
  <2>1. Work(t)
    BY DEF IInv, WorkInv
  <2> QED
    BY <1>1, <1>2, <1>5, <2>1 DEF Work, Copied, Before, IsWrite, Inside
<1>7. InFlight(t)' =>
          /\ job' = [write |-> IsWrite(t), sec |-> req[t].sec + next[t],
                     count |-> Step(req[t], next[t])]'
          /\ IsWrite(t)' => \A s \in Here(t)' : bounce'[s] = req'[t].value
          /\ ~active' /\ ~error' => Bounced(t, Here(t))'
  BY <1>1, <1>5 DEF IInv, DevInv, InFlight, IsWrite, Here, Bounced
<1>8. active' => dma_inflight' # 0
  BY <1>1, <1>5
<1>9. \A u \in Task \ {t} : pc'[u] = pc[u] /\ next'[u] = next[u] /\ (asleep'[u] => asleep[u])
  BY <1>1, <1>2, <1>3
<1>10. dma_inflight' # 0 /\ cpu' = NoTask /\ UNCHANGED lock
  BY <1>1, <1>5
<1> QED
  BY <1>2, <1>4, <1>5, <1>6, <1>7, <1>8, <1>9, <1>10, OwnerStep

LEMMA DmaDoneStep ==
    ASSUME IInv, NEW t \in Task, DmaDone(t)
    PROVE  IInv'
<1> USE AtaAssumption
<1>1. /\ cpu = t /\ pc[t] = "dmadone"
      /\ UNCHANGED <<cpu, asleep, req, lock, cache, dma_inflight, dma_result, bounce,
                     disk, job, active, intr, error, irq>>
  BY DEF DmaDone, devVars
<1>2. /\ Inside(t) /\ ~asleep[t] /\ req[t] \in Requests /\ next[t] \in Nat
      /\ next[t] < req[t].count /\ Copied(t, Before(t))
      /\ IsWrite(t) => \A i \in DOMAIN cache :
                           cache[i].valid => cache[i].sector \notin Span(req[t])
  BY <1>1 DEF Inside, IInv, OwnInv, WorkInv, Work, TypeOK
<1>3. CASE dma_result = 0
  <2> DEFINE n == Step(req[t], next[t])
  <2>1. /\ buf' = IF IsWrite(t) THEN buf
                  ELSE [buf EXCEPT ![t] = [s \in Sectors |->
                           IF s \in Here(t) THEN bounce[s] ELSE buf[t][s]]]
        /\ next' = [next EXCEPT ![t] = next[t] + n]
        /\ pc' = [pc EXCEPT ![t] = IF next[t] + n < req[t].count THEN "chunk"
                                   ELSE IF IsWrite(t) THEN "flush" ELSE "finish"]
        /\ result' = [result EXCEPT ![t] = 0]
        /\ UNCHANGED dma_enabled
    BY <1>3 DEF DmaDone, IsWrite, Here
  <2>2. Bounced(t, Here(t))
    BY <1>1, <1>3 DEF IInv, WorkInv, Work
  <2>3. /\ Here(t) \subseteq Sectors /\ Before(t) \cap Here(t) = {}
        /\ Before(t) \subseteq Span(req[t]) /\ n \in 1 .. MaxCount
        /\ next[t] + n \in 1 .. req[t].count
    BY <1>2, HereFacts DEF IInv
  <2>4. req[t].sec \in Nat /\ req[t].count \in 1 .. MaxCount /\ Span(req[t]) \subseteq Sectors
    BY <1>2, RequestFacts
  <2>5. next \in [Task -> 0 .. MaxCount] /\ buf \in [Task -> [Sectors -> Values]]
        /\ bounce \in [Sectors -> Values] /\ pc \in [Task -> Pcs]
        /\ result \in [Task -> {0, -1}]
    BY DEF IInv, TypeOK
  <2> HIDE DEF n
  <2>6. next'[t] = next[t] + n /\ next' \in [Task -> 0 .. MaxCount]
    BY <2>1, <2>3, <2>4, <2>5
  <2>7. pc'[t] \in {"chunk", "flush", "finish"} /\ pc' \in [Task -> Pcs]
        /\ \A u \in Task \ {t} : pc'[u] = pc[u] /\ next'[u] = next[u]
    BY <2>1, <2>5 DEF Pcs
  <2>8. buf' \in [Task -> [Sectors -> Values]]
    BY <2>1, <2>5
  <2>9. TypeOK'
    BY <1>1, <2>1, <2>5, <2>6, <2>7, <2>8 DEF IInv, TypeOK
  <2>10. Copied(t, Before(t))'
    <3>1. Before(t)' = Before(t) \cup Here(t)
      <4>1. /\ Before(t)' = req[t].sec .. req[t].sec + (next[t] + n) - 1
            /\ Here(t) = req[t].sec + next[t] .. req[t].sec + next[t] + n - 1
        BY <1>1, <2>6 DEF Before, Here, n
      <4>2. Before(t) = req[t].sec .. req[t].sec + next[t] - 1
        BY DEF Before
      <4>3. req[t].sec \in Nat /\ next[t] \in Nat /\ n \in Nat
        BY <1>2, <2>3, <2>4
      <4>4. req[t].sec .. req[t].sec + (next[t] + n) - 1
            = (req[t].sec .. req[t].sec + next[t] - 1)
              \cup (req[t].sec + next[t] .. req[t].sec + next[t] + n - 1)
        BY <4>3, SpanSplit
      <4> QED
        BY <4>1, <4>2, <4>4, Zenon
    <3>2. CASE IsWrite(t)
      BY <1>1, <1>2, <2>1, <2>2, <3>1, <3>2 DEF Copied, Bounced, IsWrite
    <3>3. CASE ~IsWrite(t)
      <4>1. \A s \in Sectors : buf'[t][s] = IF s \in Here(t) THEN bounce[s] ELSE buf[t][s]
        BY <2>1, <2>5, <3>3
      <4>2. Before(t) \subseteq Sectors
        BY <2>3, <2>4
      <4> QED
        BY <1>1, <1>2, <2>2, <2>3, <3>1, <3>3, <4>1, <4>2 DEF Copied, Bounced, IsWrite
    <3> QED
      BY <3>2, <3>3
  <2>11. pc'[t] # "chunk" => Copied(t, Span(req[t]))'
    <3> SUFFICES ASSUME pc'[t] # "chunk" PROVE Copied(t, Span(req[t]))'
      OBVIOUS
    <3>1. next'[t] = req[t].count
      <4>1. ~(next[t] + n < req[t].count)
        BY <2>1, <2>5
      <4> QED
        BY <2>3, <2>4, <2>6, <4>1
    <3>2. Span(req[t])' = Before(t)'
      <4>1. req'[t] = req[t]
        BY <1>1
      <4> QED
        BY <3>1, <4>1 DEF Span, Before
    <3> QED
      BY <2>10, <3>2
  <2>12. pc'[t] = "chunk" => next'[t] < req'[t].count
    BY <1>1, <2>1, <2>5, <2>6
  <2>13. pc'[t] = "flush" => IsWrite(t)'
    BY <1>1, <2>1, <2>5 DEF IsWrite
  <2>14. Work(t)'
    BY <1>1, <1>2, <2>7, <2>10, <2>11, <2>12, <2>13 DEF Work, IsWrite
  <2>15. CacheCoherent'
    BY <1>1 DEF IInv, CacheCoherent
  <2> QED
    BY <1>1, <1>2, <2>7, <2>9, <2>14, <2>15, QuietStep
<1>4. CASE dma_result # 0
  <2>1. /\ pc' = [pc EXCEPT ![t] = IF IsWrite(t) THEN "finish" ELSE "pio"]
        /\ result' = [result EXCEPT ![t] = -1]
        /\ dma_enabled' = FALSE /\ UNCHANGED <<buf, next>>
    BY <1>4 DEF DmaDone, IsWrite
  <2>2. /\ pc'[t] \in {"finish", "pio"} /\ pc' \in [Task -> Pcs]
        /\ \A u \in Task \ {t} : pc'[u] = pc[u]
        /\ result' \in [Task -> {0, -1}] /\ result'[t] = -1
    BY <2>1 DEF IInv, TypeOK, Pcs
  <2>3. TypeOK' /\ CacheCoherent'
    BY <1>1, <2>1, <2>2 DEF IInv, TypeOK, CacheCoherent
  <2>4. Work(t)'
    BY <1>1, <1>2, <2>2 DEF Work, IsWrite
  <2> QED
    BY <1>1, <1>2, <2>1, <2>2, <2>3, <2>4, QuietStep
<1> QED
  BY <1>3, <1>4

LEMMA CommandFailsStep ==
    ASSUME IInv, NEW t \in Task, CommandFails(t)
    PROVE  IInv'
<1>1. /\ cpu = t /\ pc[t] \in {"chunk", "flush"}
      /\ pc' = [pc EXCEPT ![t] = IF IsWrite(t) THEN "finish" ELSE "pio"]
      /\ result' = [result EXCEPT ![t] = -1]
      /\ dma_enabled' = FALSE
      /\ UNCHANGED <<cpu, asleep, req, next, buf, lock, cache, dma_inflight, dma_result,
                     bounce, disk, job, active, intr, error, irq>>
  BY DEF CommandFails, IsWrite
<1>2. /\ Inside(t) /\ ~asleep[t]
      /\ IsWrite(t) => \A i \in DOMAIN cache :
                           cache[i].valid => cache[i].sector \notin Span(req[t])
  BY <1>1 DEF Inside, IInv, OwnInv, WorkInv, Work
<1>3. /\ pc'[t] \in {"finish", "pio"} /\ pc' \in [Task -> Pcs]
      /\ \A u \in Task \ {t} : pc'[u] = pc[u]
      /\ result' \in [Task -> {0, -1}] /\ result'[t] = -1
  BY <1>1 DEF IInv, TypeOK, Pcs
<1>4. TypeOK' /\ CacheCoherent'
  BY <1>1, <1>3 DEF IInv, TypeOK, CacheCoherent
<1>5. Work(t)'
  BY <1>1, <1>2, <1>3 DEF Work, IsWrite
<1> QED
  BY <1>1, <1>2, <1>3, <1>4, <1>5, QuietStep

LEMMA FlushStep ==
    ASSUME IInv, NEW t \in Task, Flush(t)
    PROVE  IInv'
<1>1. /\ cpu = t /\ pc[t] = "flush"
      /\ pc' = [pc EXCEPT ![t] = "finish"]
      /\ intr' = TRUE /\ irq' = TRUE
      /\ UNCHANGED <<cpu, asleep, req, next, buf, result, lock, cache, dma_enabled,
                     dma_inflight, dma_result, bounce, disk, job, active, error>>
  BY DEF Flush, dmaVars
<1>2. /\ Inside(t) /\ ~asleep[t] /\ Copied(t, Span(req[t]))
      /\ IsWrite(t) => \A i \in DOMAIN cache :
                           cache[i].valid => cache[i].sector \notin Span(req[t])
  BY <1>1 DEF Inside, IInv, OwnInv, WorkInv, Work
<1>3. /\ pc'[t] = "finish" /\ pc' \in [Task -> Pcs]
      /\ \A u \in Task \ {t} : pc'[u] = pc[u]
  BY <1>1 DEF IInv, TypeOK, Pcs
<1>4. TypeOK' /\ CacheCoherent'
  BY <1>1, <1>3 DEF IInv, TypeOK, CacheCoherent
<1>5. Work(t)'
  BY <1>1, <1>2, <1>3 DEF Work, Copied, IsWrite
<1> QED
  BY <1>1, <1>2, <1>3, <1>4, <1>5, QuietStep

\* PIO writes the disk itself; what it writes is in no valid cache entry.
LEMMA PioStep ==
    ASSUME IInv, NEW t \in Task, Pio(t)
    PROVE  IInv'
<1> USE AtaAssumption
<1>1. /\ cpu = t /\ pc[t] = "pio"
      /\ pc' = [pc EXCEPT ![t] = "finish"]
      /\ UNCHANGED <<cpu, asleep, req, next, lock, cache, dma_enabled, dma_inflight,
                     dma_result, bounce, job, active, intr, error, irq>>
  BY DEF Pio, dmaVars
<1> DEFINE Done(k) == req[t].sec .. req[t].sec + k - 1
<1>2. PICK ok \in BOOLEAN, done \in 0 .. req[t].count :
          /\ ok => done = req[t].count
          /\ result' = [result EXCEPT ![t] = IF ok THEN 0 ELSE -1]
          /\ IF IsWrite(t)
             THEN /\ disk' = [s \in Sectors |-> IF s \in Done(done) THEN req[t].value ELSE disk[s]]
                  /\ UNCHANGED buf
             ELSE /\ buf' = [buf EXCEPT ![t] = [s \in Sectors |->
                         IF s \in Done(done) THEN disk[s] ELSE buf[t][s]]]
                  /\ UNCHANGED disk
  BY DEF Pio, IsWrite
<1>3. /\ Inside(t) /\ ~asleep[t] /\ req[t] \in Requests
      /\ IsWrite(t) => \A i \in DOMAIN cache :
                           cache[i].valid => cache[i].sector \notin Span(req[t])
  BY <1>1 DEF Inside, IInv, OwnInv, WorkInv, Work, TypeOK
<1>4. /\ req[t].sec \in Nat /\ req[t].count \in 1 .. MaxCount
      /\ req[t].value \in Values /\ Span(req[t]) \subseteq Sectors
  BY <1>3, RequestFacts
<1>5. Done(done) \subseteq Span(req[t]) /\ (ok => Done(done) = Span(req[t]))
  BY <1>2, <1>4 DEF Span
<1> HIDE DEF Done
<1>6. /\ pc'[t] = "finish" /\ pc' \in [Task -> Pcs]
      /\ \A u \in Task \ {t} : pc'[u] = pc[u]
  BY <1>1 DEF IInv, TypeOK, Pcs
<1>7. /\ result' \in [Task -> {0, -1}] /\ (result'[t] = 0 => ok)
  <2>1. result \in [Task -> {0, -1}]
    BY DEF IInv, TypeOK
  <2> QED
    BY <1>2, <2>1
<1>8. disk' \in [Sectors -> Values] /\ buf' \in [Task -> [Sectors -> Values]]
  <2>1. disk \in [Sectors -> Values] /\ buf \in [Task -> [Sectors -> Values]]
    BY DEF IInv, TypeOK
  <2>2. CASE IsWrite(t)
    BY <1>2, <1>4, <2>1, <2>2
  <2>3. CASE ~IsWrite(t)
    <3>1. [s \in Sectors |-> IF s \in Done(done) THEN disk[s] ELSE buf[t][s]]
          \in [Sectors -> Values]
      BY <2>1
    <3> QED
      BY <1>2, <2>1, <2>3, <3>1
  <2> QED
    BY <2>2, <2>3
<1>9. TypeOK'
  BY <1>1, <1>6, <1>7, <1>8 DEF IInv, TypeOK
<1>10. CacheCoherent'
  <2>1. \A i \in DOMAIN cache : cache[i].valid => cache[i].sector \in Sectors
    BY DEF IInv, TypeOK
  <2> QED
    BY <1>1, <1>2, <1>3, <1>5, <2>1 DEF IInv, CacheCoherent
<1>11. ok => Copied(t, Span(req[t]))'
  <2>1. buf \in [Task -> [Sectors -> Values]]
    BY DEF IInv, TypeOK
  <2>2. CASE IsWrite(t)
    BY <1>1, <1>2, <1>4, <1>5, <2>2 DEF Copied, IsWrite
  <2>3. CASE ~IsWrite(t)
    BY <1>1, <1>2, <1>4, <1>5, <2>1, <2>3 DEF Copied, IsWrite
  <2> QED
    BY <2>2, <2>3
<1>12. Work(t)'
  BY <1>1, <1>3, <1>6, <1>7, <1>11 DEF Work, IsWrite
<1> QED
  BY <1>1, <1>3, <1>6, <1>9, <1>10, <1>12, QuietStep

-----------------------------------------------------------------------------
(* The mutex                                                               *)

\* With nobody in the driver nothing is in flight.
LEMMA NobodyInside ==
    ASSUME IInv, \A t \in Task : ~Inside(t)
    PROVE  dma_inflight = 0 /\ ~active
<1>1. dma_inflight = 0
  BY DEF IInv, TypeOK, OwnInv, ChannelOwned, Inside
<1> QED
  BY <1>1 DEF IInv, DevInv

LEMMA ReleaseStep ==
    ASSUME IInv, NEW t \in Task, cpu = t, pc[t] \in {"locked", "finish"}, Release(t),
           UNCHANGED <<dma_enabled, dma_inflight, dma_result, bounce, disk, job, active,
                       intr, error, irq>>,
           cache' \in [0 .. Entries - 1 -> [valid : BOOLEAN, sector : Sectors, data : Values]],
           CacheCoherent'
    PROVE  IInv'
<1> USE AtaAssumption
<1>1. /\ lock' = 0 /\ cpu' = NoTask
      /\ asleep' = WokenByRelease(t)
      /\ pc' = [pc EXCEPT ![t] = "user"]
      /\ req' = [req EXCEPT ![t] = NoRequest]
      /\ next' = [next EXCEPT ![t] = 0]
      /\ buf' = [buf EXCEPT ![t] = NoData]
      /\ result' = [result EXCEPT ![t] = 0]
  BY DEF Release
<1>2. Inside(t) /\ ~asleep[t] /\ dma_inflight = 0 /\ ~active
  <2>1. Inside(t) /\ ~asleep[t]
    BY DEF Inside, IInv, OwnInv
  <2>2. dma_inflight = 0
    BY <2>1 DEF IInv, TypeOK, OwnInv, ChannelOwned, Inside
  <2> QED
    BY <2>1, <2>2 DEF IInv, DevInv
<1>3. /\ pc'[t] = "user" /\ next'[t] = 0 /\ pc' \in [Task -> Pcs]
      /\ \A u \in Task \ {t} : pc'[u] = pc[u] /\ next'[u] = next[u]
  BY <1>1 DEF IInv, TypeOK, Pcs
<1>4. \A u \in Task \ {t} : /\ pc[u] \in {"user", "acquire"}
                            /\ pc'[u] \in {"user", "acquire"} /\ next'[u] = 0
  BY <1>2, <1>3, Alone DEF IInv, WorkInv, Work
<1>5. asleep' \in [Task -> BOOLEAN] /\ \A u \in Task : asleep'[u] => asleep[u]
  <2>1. asleep \in [Task -> BOOLEAN]
    BY DEF IInv, TypeOK
  <2> QED
    BY <1>1, <2>1 DEF WokenByRelease
<1>6. TypeOK'
  <2>1. NoRequest \in Requests /\ NoData \in [Sectors -> Values]
    <3>1. NoValue \in Values
      BY DEF NoValue
    <3> QED
      BY <3>1 DEF NoRequest, NoData, Requests, Sectors
  <2>2. /\ req' \in [Task -> Requests] /\ buf' \in [Task -> [Sectors -> Values]]
        /\ next' \in [Task -> 0 .. MaxCount] /\ result' \in [Task -> {0, -1}]
    BY <1>1, <2>1 DEF IInv, TypeOK
  <2> QED
    BY <1>1, <1>3, <1>5, <2>2 DEF IInv, TypeOK
<1>7. OwnInv'
  <2>1. \A u \in Task : ~Inside(u)'
    BY <1>3, <1>4 DEF Inside
  <2>2. ChannelOwned'
    BY <1>1, <1>2, <2>1 DEF ChannelOwned
  <2>3. \A u \in Task : asleep'[u] => pc'[u] \in {"acquire", "dma"}
    BY <1>2, <1>3, <1>5 DEF IInv, OwnInv
  <2>4. \A u \in Task : cpu' # u /\ pc'[u] \in {"user", "acquire"}
    BY <1>1, <1>3, <1>4
  <2> QED
    BY <2>1, <2>2, <2>3, <2>4 DEF OwnInv
<1>8. DevInv'
  BY <1>2 DEF DevInv, InFlight
<1>9. WorkInv'
  BY <1>3, <1>4 DEF WorkInv, Work, Inside
<1>10. NoLostWakeup'
  <2> DEFINE sleepers == {u \in Task : pc[u] = "acquire" /\ asleep[u]}
             first == CHOOSE x \in sleepers : TRUE
  <2>1. \A u \in Task : ~(pc'[u] = "dma")
    BY <1>3, <1>4
  <2>2. ASSUME NEW u \in Task, pc'[u] = "acquire", asleep'[u]
        PROVE  pc'[first] = "acquire" /\ ~asleep'[first] /\ first \in Task
    <3>1. u \in sleepers
      BY <1>3, <1>5, <2>2
    <3>2. first \in sleepers
      BY <3>1
    <3>3. ~asleep'[first]
      BY <1>1, <3>2 DEF WokenByRelease
    <3> QED
      BY <1>2, <1>3, <3>2, <3>3
  <2> HIDE DEF first
  <2> QED
    BY <2>1, <2>2 DEF NoLostWakeup
<1> QED
  BY <1>6, <1>7, <1>8, <1>9, <1>10 DEF IInv

LEMMA LockedHitOrMiss ==
    ASSUME IInv, NEW t \in Task, Locked(t)
    PROVE  IInv'
<1>1. /\ cpu = t /\ pc[t] = "locked"
      /\ UNCHANGED <<dma_enabled, dma_inflight, dma_result, bounce, disk, job, active,
                     intr, error, irq>>
  BY DEF Locked, dmaVars, devVars
<1>2. CASE req[t].kind = "read_sec" /\ Hit(req[t])
  <2>1. Release(t) /\ UNCHANGED cache
    BY <1>2 DEF Locked
  <2>2. CacheCoherent'
    BY <1>1, <2>1 DEF IInv, CacheCoherent
  <2>3. cache' \in [0 .. Entries - 1 -> [valid : BOOLEAN, sector : Sectors, data : Values]]
    BY <2>1 DEF IInv, TypeOK
  <2> QED
    BY <1>1, <2>1, <2>2, <2>3, ReleaseStep
<1>3. CASE ~(req[t].kind = "read_sec" /\ Hit(req[t]))
  BY <1>1, <1>3, LockedStep DEF Locked, IsWrite
<1> QED
  BY <1>2, <1>3

\* What a read stores in the cache is what it has read from the disk.
LEMMA FinishStep ==
    ASSUME IInv, NEW t \in Task, Finish(t)
    PROVE  IInv'
<1> USE AtaAssumption
<1>1. /\ cpu = t /\ pc[t] = "finish" /\ Release(t)
      /\ UNCHANGED <<dma_enabled, dma_inflight, dma_result, bounce, disk, job, active,
                     intr, error, irq>>
  BY DEF Finish, dmaVars, devVars
<1>2. cache \in [0 .. Entries - 1 -> [valid : BOOLEAN, sector : Sectors, data : Values]]
  BY DEF IInv, TypeOK
<1>3. CASE ~IsWrite(t) /\ result[t] = 0
  <2>1. cache' = Stored(req[t], buf[t])
    BY <1>3 DEF Finish, IsWrite
  <2>2. req[t] \in Requests /\ buf[t] \in [Sectors -> Values] /\ Span(req[t]) \subseteq Sectors
    BY RequestFacts DEF IInv, TypeOK
  <2>3. \A s \in Span(req[t]) : disk[s] = buf[t][s]
    BY <1>1, <1>3 DEF IInv, WorkInv, Work, Copied
  <2>4. ASSUME NEW i \in 0 .. Entries - 1
        PROVE  /\ cache'[i] \in [valid : BOOLEAN, sector : Sectors, data : Values]
               /\ cache'[i].valid => cache'[i].data = disk[cache'[i].sector]
    <3>1. \/ cache'[i] = cache[i]
          \/ \E s \in Span(req[t]) :
                cache'[i] = [valid |-> TRUE, sector |-> s, data |-> buf[t][s]]
      <4>1. i \in DOMAIN cache
        BY <1>2
      <4>2. \/ Stored(req[t], buf[t])[i] = cache[i]
            \/ \E s \in Span(req[t]) :
                  Stored(req[t], buf[t])[i] = [valid |-> TRUE, sector |-> s, data |-> buf[t][s]]
        BY <2>2, <4>1, StoredFacts
      <4> QED
        BY <2>1, <4>2
    <3>2. CASE cache'[i] = cache[i]
      BY <1>2, <3>2 DEF IInv, CacheCoherent
    <3>3. ASSUME NEW s \in Span(req[t]),
                 cache'[i] = [valid |-> TRUE, sector |-> s, data |-> buf[t][s]]
          PROVE  /\ cache'[i] \in [valid : BOOLEAN, sector : Sectors, data : Values]
                 /\ cache'[i].valid => cache'[i].data = disk[cache'[i].sector]
      BY <2>2, <2>3, <3>3
    <3> QED
      BY <3>1, <3>2, <3>3
  <2>5. cache' = [i \in 0 .. Entries - 1 |-> cache'[i]]
    BY <1>2, <2>1, StoredDomain
  <2>6. cache' \in [0 .. Entries - 1 -> [valid : BOOLEAN, sector : Sectors, data : Values]]
    BY <2>4, <2>5
  <2>7. CacheCoherent'
    BY <1>1, <2>4, <2>6 DEF CacheCoherent
  <2> QED
    BY <1>1, <2>6, <2>7, ReleaseStep
<1>4. CASE ~(~IsWrite(t) /\ result[t] = 0)
  <2>1. cache' = cache
    BY <1>4 DEF Finish, IsWrite
  <2>2. CacheCoherent'
    BY <1>1, <2>1 DEF IInv, CacheCoherent
  <2> QED
    BY <1>1, <1>2, <2>1, <2>2, ReleaseStep
<1> QED
  BY <1>3, <1>4

LEMMA AcquireStep ==
    ASSUME IInv, NEW t \in Task, cpu = NoTask, pc[t] \in {"user", "acquire"}, ~asleep[t],
           Acquire(t), req' \in [Task -> Requests],
           \A u \in Task \ {t} : req'[u] = req[u],
           UNCHANGED <<next, buf, result, cache, dma_enabled, dma_inflight, dma_result,
                       bounce, disk, job, active, intr, error, irq>>
    PROVE  IInv'
<1> USE AtaAssumption
<1>1. \/ /\ lock = 0 /\ lock' = 1 /\ cpu' = t
         /\ pc' = [pc EXCEPT ![t] = "locked"] /\ UNCHANGED asleep
      \/ /\ lock = 1 /\ pc' = [pc EXCEPT ![t] = "acquire"]
         /\ asleep' = [asleep EXCEPT ![t] = TRUE] /\ UNCHANGED <<lock, cpu>>
  BY DEF Acquire
<1>2. /\ pc \in [Task -> Pcs] /\ asleep \in [Task -> BOOLEAN]
  BY DEF IInv, TypeOK
<1>3. /\ pc'[t] \in {"locked", "acquire"} /\ pc' \in [Task -> Pcs]
      /\ asleep' \in [Task -> BOOLEAN]
      /\ \A u \in Task \ {t} : pc'[u] = pc[u] /\ asleep'[u] = asleep[u]
  BY <1>1, <1>2 DEF Pcs
<1>4. TypeOK'
  BY <1>1, <1>3 DEF IInv, TypeOK
<1>5. next'[t] = 0
  BY DEF IInv, WorkInv, Work
<1>6. CacheCoherent'
  BY DEF IInv, CacheCoherent
<1>7. DevInv'
  <2> SUFFICES ASSUME NEW u \in Task, InFlight(u)'
               PROVE  /\ job' = [write |-> IsWrite(u), sec |-> req[u].sec + next[u],
                                 count |-> Step(req[u], next[u])]'
                      /\ IsWrite(u)' => \A s \in Here(u)' : bounce'[s] = req'[u].value
                      /\ ~active' /\ ~error' => Bounced(u, Here(u))'
    BY DEF IInv, DevInv
  <2>1. u # t /\ InFlight(u) /\ req'[u] = req[u]
    BY <1>3 DEF InFlight
  <2> QED
    BY <2>1 DEF IInv, DevInv, IsWrite, Here, Bounced
<1>8. WorkInv'
  <2> SUFFICES ASSUME NEW u \in Task PROVE Work(u)'
    BY DEF WorkInv
  <2>1. CASE u = t
    BY <1>3, <1>5, <2>1 DEF Work, Inside
  <2>2. CASE u # t
    <3>1. Work(u) /\ req'[u] = req[u] /\ pc'[u] = pc[u]
      BY <1>3, <2>2 DEF IInv, WorkInv
    <3> QED
      BY <3>1 DEF Work, Copied, Bounced, Before, Here, IsWrite, Inside
  <2> QED
    BY <2>1, <2>2
<1>9. CASE lock = 0
  <2>1. lock' = 1 /\ cpu' = t /\ pc'[t] = "locked" /\ ~asleep'[t] /\ UNCHANGED asleep
    BY <1>1, <1>2, <1>9
  <2>2. \A u \in Task : ~Inside(u)
    BY <1>9 DEF IInv, OwnInv, ChannelOwned
  <2>3. dma_inflight' = 0
    BY <2>2, NobodyInside
  <2>4. \A u \in Task \ {t} : ~Inside(u)' /\ pc'[u] \in {"user", "acquire"} /\ cpu' # u
    BY <1>3, <2>1, <2>2 DEF Inside
  <2>5. Inside(t)'
    BY <2>1 DEF Inside
  <2>6. ChannelOwned'
    BY <2>1, <2>3, <2>4, <2>5 DEF ChannelOwned
  <2>7. \A u \in Task : asleep'[u] => pc'[u] \in {"acquire", "dma"}
    BY <1>3, <2>1 DEF IInv, OwnInv
  <2>8. OwnInv'
    BY <2>1, <2>4, <2>5, <2>6, <2>7 DEF OwnInv
  <2>9. NoLostWakeup'
    BY <2>1, <2>4 DEF NoLostWakeup
  <2> QED
    BY <1>4, <1>6, <1>7, <1>8, <2>8, <2>9 DEF IInv
<1>10. CASE lock = 1
  <2>1. lock' = 1 /\ cpu' = NoTask /\ pc'[t] = "acquire"
    BY <1>1, <1>2, <1>10
  <2>2. \A u \in Task : Inside(u)' <=> Inside(u)
    BY <1>3, <2>1 DEF Inside
  <2>3. \A u \in Task : pc'[u] \notin {"user", "acquire"} => pc'[u] = pc[u]
    BY <1>3, <2>1
  <2>4. \A u \in Task : pc[u] \notin {"user", "acquire"} => pc'[u] = pc[u] /\ u # t
    BY <1>3
  <2>5. dma_inflight' # 0 => \E u \in Task : pc'[u] \in {"poll", "dma"}
    BY <2>4 DEF IInv, OwnInv, ChannelOwned
  <2>6. ChannelOwned'
    BY <1>10, <2>1, <2>2, <2>5 DEF IInv, OwnInv, ChannelOwned
  <2>7. \A u \in Task : asleep'[u] => pc'[u] \in {"acquire", "dma"}
    BY <1>3, <2>1 DEF IInv, OwnInv
  <2>8. \A u \in Task : pc'[u] \notin {"locked", "poll", "dmadone", "finish"}
    BY <2>3 DEF IInv, OwnInv
  <2>9. OwnInv'
    BY <2>1, <2>6, <2>7, <2>8 DEF OwnInv
  <2>10. NoLostWakeup'
    BY <1>3, <2>1 DEF IInv, NoLostWakeup
  <2> QED
    BY <1>4, <1>6, <1>7, <1>8, <2>9, <2>10 DEF IInv
<1>11. lock \in {0, 1}
  BY DEF IInv, TypeOK
<1> QED
  BY <1>9, <1>10, <1>11

LEMMA CallStep ==
    ASSUME IInv, NEW t \in Task, Call(t) \/ AcquireAgain(t)
    PROVE  IInv'
<1>1. /\ cpu = NoTask /\ Acquire(t)
      /\ UNCHANGED <<next, buf, result, cache, dma_enabled, dma_inflight, dma_result,
                     bounce, disk, job, active, intr, error, irq>>
  BY DEF Call, AcquireAgain, dmaVars, devVars
<1>2. pc[t] \in {"user", "acquire"} /\ ~asleep[t]
  BY DEF Call, AcquireAgain, IInv, OwnInv
<1>3. req' \in [Task -> Requests] /\ \A u \in Task \ {t} : req'[u] = req[u]
  BY DEF Call, AcquireAgain, IInv, TypeOK
<1> QED
  BY <1>1, <1>2, <1>3, AcquireStep

-----------------------------------------------------------------------------
(* Timers, signals, the interrupt and the device                           *)

LEMMA WakeStep ==
    ASSUME IInv, NEW t \in Task, Timeout(t) \/ Signal(t)
    PROVE  IInv'
<1>1. /\ asleep' = [asleep EXCEPT ![t] = FALSE]
      /\ UNCHANGED <<cpu, pc, req, next, buf, result, lock, cache, dma_enabled,
                     dma_inflight, dma_result, bounce, disk, job, active, intr, error, irq>>
  BY DEF Timeout, Signal, dmaVars, devVars
<1>2. asleep' \in [Task -> BOOLEAN] /\ \A u \in Task : asleep'[u] => asleep[u]
  BY <1>1 DEF IInv, TypeOK
<1>3. TypeOK' /\ CacheCoherent'
  BY <1>1, <1>2 DEF IInv, TypeOK, CacheCoherent
<1>4. OwnInv'
  BY <1>1, <1>2 DEF IInv, OwnInv, ChannelOwned, Inside
<1>5. DevInv'
  BY <1>1 DEF IInv, DevInv, InFlight, IsWrite, Here, Bounced
<1>6. WorkInv'
  BY <1>1 DEF IInv, WorkInv, Work, Copied, Bounced, Before, Here, IsWrite, Inside
<1>7. NoLostWakeup'
  BY <1>1, <1>2 DEF IInv, NoLostWakeup
<1> QED
  BY <1>3, <1>4, <1>5, <1>6, <1>7 DEF IInv

\* With nothing in flight the bits of the device tell nothing.
LEMMA IdleDeviceStep ==
    ASSUME IInv, dma_inflight = 0 \/ UNCHANGED <<job, active, error>>,
           job' \in [write : BOOLEAN, sec : Sectors, count : 0 .. MaxCount],
           active' => active,
           active' \in BOOLEAN, intr' \in BOOLEAN, error' \in BOOLEAN, irq' \in BOOLEAN,
           UNCHANGED <<cpu, pc, asleep, req, next, buf, result, lock, cache, dma_enabled,
                       dma_inflight, dma_result, bounce, disk>>
    PROVE  IInv'
<1>1. TypeOK' /\ CacheCoherent'
  BY DEF IInv, TypeOK, CacheCoherent
<1>2. OwnInv'
  BY DEF IInv, OwnInv, ChannelOwned, Inside
<1>3. DevInv'
  BY DEF IInv, DevInv, InFlight, IsWrite, Here, Bounced
<1>4. WorkInv'
  BY DEF IInv, WorkInv, Work, Copied, Bounced, Before, Here, IsWrite, Inside
<1>5. NoLostWakeup'
  BY DEF IInv, NoLostWakeup
<1> QED
  BY <1>1, <1>2, <1>3, <1>4, <1>5 DEF IInv

LEMMA AtaIrqStep ==
    ASSUME IInv, AtaIrq
    PROVE  IInv'
<1> USE AtaAssumption
<1>1. /\ cpu = NoTask /\ irq' = FALSE
      /\ UNCHANGED <<cpu, pc, req, next, buf, result, lock, cache, dma_enabled, bounce>>
  BY DEF AtaIrq
<1>2. CASE dma_enabled /\ dma_inflight # 0
  <2>1. PICK t \in Task : pc[t] \in {"poll", "dma"}
    BY <1>2 DEF IInv, OwnInv, ChannelOwned
  <2>2. pc[t] = "dma" /\ InFlight(t)
    BY <1>1, <1>2, <2>1 DEF InFlight, IInv, OwnInv
  <2>3. /\ StopEngine /\ dma_result' = CompletionResult /\ dma_inflight' = 0
        /\ asleep' = WokenByIrq
    BY <1>2 DEF AtaIrq
  <2>4. dma_result' \in {0, -1} /\ (dma_result' = 0 => ~active /\ ~error)
    BY <2>3 DEF CompletionResult
  <2> QED
    BY <1>1, <2>2, <2>3, <2>4, ChunkEnds
<1>3. CASE dma_enabled /\ dma_inflight = 0
  <2>1. StopEngine /\ UNCHANGED <<dma_result, dma_inflight, asleep>>
    BY <1>3 DEF AtaIrq
  <2>2. ~active
    BY <1>3 DEF IInv, DevInv
  <2>3. /\ UNCHANGED disk /\ active' = FALSE /\ intr' = FALSE /\ error' = FALSE
        /\ job' \in [write : BOOLEAN, sec : Sectors, count : 0 .. MaxCount]
    BY <2>1, <2>2 DEF StopEngine, NoJob, Sectors
  <2> QED
    BY <1>1, <1>3, <2>1, <2>3, IdleDeviceStep
<1>4. CASE ~dma_enabled
  <2>1. UNCHANGED <<disk, job, active, intr, error, dma_result, dma_inflight, asleep>>
    BY <1>4 DEF AtaIrq
  <2>2. /\ job' \in [write : BOOLEAN, sec : Sectors, count : 0 .. MaxCount]
        /\ active' \in BOOLEAN /\ intr' \in BOOLEAN /\ error' \in BOOLEAN
    BY <2>1 DEF IInv, TypeOK
  <2> QED
    BY <1>1, <2>1, <2>2, IdleDeviceStep
<1>5. dma_enabled \in BOOLEAN
  BY DEF IInv, TypeOK
<1> QED
  BY <1>2, <1>3, <1>4

\* The device ends the transfer it was given, or fails; the request it works
\* on is the owner's, and what it reads or writes is the owner's chunk.
LEMMA DeviceStep ==
    ASSUME IInv, DevComplete \/ DevError
    PROVE  IInv'
<1> USE AtaAssumption
<1>1. /\ active /\ active' = FALSE /\ intr' = TRUE /\ irq' = TRUE
      /\ UNCHANGED <<cpu, pc, asleep, req, next, buf, result, lock, cache, dma_enabled,
                     dma_inflight, dma_result, job>>
  BY DEF DevComplete, DevError, DeviceMayEnd, taskVars, dmaVars
<1>2. dma_inflight # 0
  BY <1>1 DEF IInv, DevInv
<1>3. PICK t \in Task : pc[t] \in {"poll", "dma"}
  BY <1>2 DEF IInv, OwnInv, ChannelOwned
<1>4. InFlight(t) /\ Inside(t) /\ pc[t] # "locked"
  BY <1>2, <1>3 DEF InFlight, Inside
<1>5. /\ job.write = IsWrite(t) /\ JobSpan = Here(t)
      /\ IsWrite(t) => \A s \in Here(t) : bounce[s] = req[t].value
      /\ job = [write |-> IsWrite(t), sec |-> req[t].sec + next[t],
                count |-> Step(req[t], next[t])]
  BY <1>4 DEF IInv, DevInv, JobSpan, Here
<1>6. /\ next[t] < req[t].count /\ Copied(t, Before(t))
      /\ IsWrite(t) => \A i \in DOMAIN cache :
                           cache[i].valid => cache[i].sector \notin Span(req[t])
  BY <1>3, <1>4 DEF IInv, WorkInv, Work
<1>7. Here(t) \subseteq Sectors
  BY <1>6, HereFacts DEF IInv
<1>8. disk' \in {disk, Applied} /\ (job.write \/ disk' = disk)
  BY DEF DevComplete, DevError
<1>9. /\ disk' \in [Sectors -> Values] /\ Copied(t, Before(t))' /\ CacheCoherent'
      /\ disk' = Applied /\ IsWrite(t) => \A s \in Here(t) : disk'[s] = req[t].value
  BY <1>1, <1>4, <1>8, DiskWritten
<1>10. /\ bounce' \in [Sectors -> Values] /\ error' \in BOOLEAN
       /\ IsWrite(t) => bounce' = bounce
  <2>1. bounce \in [Sectors -> Values] /\ disk \in [Sectors -> Values] /\ error \in BOOLEAN
    BY DEF IInv, TypeOK
  <2> QED
    BY <1>5, <2>1 DEF DevComplete, DevError, dmaVars
<1>11. TypeOK'
  BY <1>1, <1>9, <1>10 DEF IInv, TypeOK
<1>12. ~error' => Bounced(t, Here(t))'
  <2> SUFFICES ASSUME ~error' PROVE Bounced(t, Here(t))'
    OBVIOUS
  <2>1. DevComplete
    BY DEF DevError
  <2>2. CASE IsWrite(t)
    <3>1. disk' = Applied
      BY <1>5, <2>1, <2>2 DEF DevComplete
    <3>2. \A s \in Here(t) : disk'[s] = req[t].value
      BY <1>9, <2>2, <3>1
    <3> QED
      BY <1>1, <2>2, <3>2 DEF Bounced, Here, IsWrite
  <2>3. CASE ~IsWrite(t)
    <3>1. /\ disk' = disk
          /\ bounce' = [s \in Sectors |-> IF s \in Here(t) THEN disk[s] ELSE bounce[s]]
      BY <1>5, <2>1, <2>3 DEF DevComplete
    <3>2. \A s \in Here(t) : disk'[s] = bounce'[s]
      BY <1>7, <3>1
    <3> QED
      BY <1>1, <2>3, <3>2 DEF Bounced, Here, IsWrite
  <2> QED
    BY <2>2, <2>3
<1>13. Work(t)'
  BY <1>1, <1>2, <1>3, <1>6, <1>9 DEF Work, IsWrite
<1>14. InFlight(t)' =>
           /\ job' = [write |-> IsWrite(t), sec |-> req[t].sec + next[t],
                      count |-> Step(req[t], next[t])]'
           /\ IsWrite(t)' => \A s \in Here(t)' : bounce'[s] = req'[t].value
           /\ ~active' /\ ~error' => Bounced(t, Here(t))'
  BY <1>1, <1>5, <1>10, <1>12 DEF IsWrite, Here
<1>15. /\ asleep'[t] => pc'[t] = "dma" /\ dma_inflight' # 0 /\ cpu' = NoTask
       /\ \/ cpu' = t
          \/ cpu' = NoTask /\ pc'[t] \in {"chunk", "flush", "pio", "dma"}
  <2>1. cpu \in {t, NoTask}
    BY <1>4 DEF IInv, TypeOK, OwnInv, ChannelOwned
  <2>2. pc[t] = "poll" => cpu = t
    BY DEF IInv, OwnInv
  <2>3. asleep[t] => cpu # t /\ pc[t] \in {"acquire", "dma"}
    BY DEF IInv, OwnInv
  <2> QED
    BY <1>1, <1>2, <1>3, <2>1, <2>2, <2>3
<1>16. \A u \in Task \ {t} : pc'[u] = pc[u] /\ next'[u] = next[u] /\ (asleep'[u] => asleep[u])
  BY <1>1
<1>17. pc'[t] \in {"poll", "dma"} /\ dma_inflight' # 0 /\ ~active' /\ UNCHANGED lock
  BY <1>1, <1>2, <1>3
<1> QED
  BY <1>4, <1>9, <1>11, <1>13, <1>14, <1>15, <1>16, <1>17, OwnerStep

-----------------------------------------------------------------------------
(* The theorems                                                            *)

LEMMA NextIInv == IInv /\ [Next]_vars => IInv'
<1> SUFFICES ASSUME IInv, [Next]_vars PROVE IInv'
  OBVIOUS
<1>1. ASSUME NEW t \in Task, Call(t) \/ AcquireAgain(t) PROVE IInv'
  BY <1>1, CallStep
<1>2. ASSUME NEW t \in Task, Yield(t) \/ GoOn(t) PROVE IInv'
  BY <1>2, YieldStep
<1>3. ASSUME NEW t \in Task, KernelStep(t) PROVE IInv'
  BY <1>3, LockedHitOrMiss, StartChunkStep, PollCompletesStep, PollGivesUpStep,
     AfterSleepStep, DmaDoneStep, CommandFailsStep, FlushStep, PioStep, FinishStep
  DEF KernelStep
<1>4. ASSUME NEW t \in Task, Timeout(t) \/ Signal(t) PROVE IInv'
  BY <1>4, WakeStep
<1>5. CASE AtaIrq
  BY <1>5, AtaIrqStep
<1>6. CASE DevComplete \/ DevError
  BY <1>6, DeviceStep
<1>7. CASE UNCHANGED vars
  <2>1. UNCHANGED <<cpu, pc, asleep, req, next, buf, result, lock, cache, dma_enabled,
                    dma_inflight, dma_result, bounce, disk, job, active, intr, error, irq>>
    BY <1>7 DEF vars, taskVars, dmaVars, devVars
  <2>2. /\ job' \in [write : BOOLEAN, sec : Sectors, count : 0 .. MaxCount]
        /\ active' \in BOOLEAN /\ intr' \in BOOLEAN /\ error' \in BOOLEAN
        /\ irq' \in BOOLEAN
    BY <2>1 DEF IInv, TypeOK
  <2> QED
    BY <2>1, <2>2, IdleDeviceStep
<1> QED
  BY <1>1, <1>2, <1>3, <1>4, <1>5, <1>6, <1>7 DEF Next

\* The inductive invariant holds in every reachable state of the driver.
THEOREM AtaInvariant == Spec => []IInv
BY InitIInv, NextIInv, PTL DEF Spec

\* Every variable of the driver keeps its type: no entry, chunk or sector
\* index leaves its range (ata_cache, the chunk loop of
\* ata_dma_transfer_locked).
THEOREM TypeCorrect == Spec => []TypeOK
<1>1. IInv => TypeOK
  BY DEF IInv
<1> QED
  BY <1>1, AtaInvariant, PTL

\* A valid cache entry holds what the disk holds, for any number of tasks
\* and whatever transfers fail, time out or fall back (ata_cache_find,
\* ata_cache_store, ata_cache_invalidate).
THEOREM CacheStaysCoherent == Spec => []CacheCoherent
<1>1. IInv => CacheCoherent
  BY DEF IInv
<1> QED
  BY <1>1, AtaInvariant, PTL

\* A call that returns 0 has moved every sector of its request, by DMA, by
\* the fallback to PIO or by both (ata_dma_transfer_locked, ata_dma_wait,
\* ata_dma_irq).
THEOREM SuccessMeansDone == Spec => []SuccessIsReal
<1>1. IInv => SuccessIsReal
  BY DEF IInv, WorkInv, Work, Copied, IsWrite, SuccessIsReal
<1> QED
  BY <1>1, AtaInvariant, PTL

\* The channel and its bounce buffer have one owner, who holds the mutex
\* (acquire_mutex, ata_dma_inflight).
THEOREM OneOwner == Spec => []ChannelOwned
<1>1. IInv => ChannelOwned
  BY DEF IInv, OwnInv
<1> QED
  BY <1>1, AtaInvariant, PTL

\* Nobody sleeps on a free mutex with no one left to wake him, nor for a
\* request that has ended (release_mutex, ata_dma_irq).
THEOREM WakeupsKept == Spec => []NoLostWakeup
<1>1. IInv => NoLostWakeup
  BY DEF IInv
<1> QED
  BY <1>1, AtaInvariant, PTL
=============================================================================
