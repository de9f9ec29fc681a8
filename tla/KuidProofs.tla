----------------------------- MODULE KuidProofs -----------------------------
(***************************************************************************)
(* Theorems about Kuid for every number of applications, shells, windows   *)
(* and serial numbers, every size of the pipes and every length of an      *)
(* answer.                                                                 *)
(***************************************************************************)
EXTENDS Kuid, SequenceTheorems, FiniteSetTheorems, TLAPS

-----------------------------------------------------------------------------
(* The inductive invariant                                                 *)

States == {"unborn", "read", "work", "write", "runs", "dead", "reaped"}

Types ==
    /\ state \in [Process -> States]
    /\ inq \in [Process -> Seq(0 .. Serials)]
    /\ outq \in [Process -> Seq(Header)]
    /\ serial \in [Process -> 1 .. Serials]
    /\ todo \in [Process -> Header]
    /\ \A p \in Process : state[p] = "write" => todo[p].chunks > 0
    /\ left \in Nat

\* What kuid is occupied with.
Waiting(c) == kpc \in {"reply", "display"} /\ cur = c
KuidInv ==
    /\ win \subseteq Client
    /\ shell \in Shell \cup {None}
    /\ kpc \in {"reply", "display"} => cur \in win
    /\ kpc = "wait" => cur \in Shell \cup {None} \cup (Client \ win)

\* Pieces that p is still going to write.
Pending(p) == IF state[p] = "write" THEN todo[p].chunks ELSE 0

\* No exchange with the window c is going on.
Idle(c) == inq[c] = <<>> /\ outq[c] = <<>> /\ state[c] \in {"read", "dead"}

\* kuid waits for the header: c has not read the event, is at work on it, has
\* answered, or has died on the way.
Asked(c) ==
    \/ state[c] = "read" /\ inq[c] = <<serial[c]>> /\ outq[c] = <<>>
    \/ state[c] = "work" /\ inq[c] = <<>> /\ outq[c] = <<>>
    \/ /\ state[c] \in {"read", "write"} /\ inq[c] = <<>> /\ outq[c] # <<>>
       /\ Len(outq[c]) + Pending(c) = 1 + Head(outq[c]).chunks
    \/ /\ state[c] = "dead" /\ inq[c] = <<>>
       /\ outq[c] # <<>> => Len(outq[c]) <= 1 + Head(outq[c]).chunks

\* kuid reads the drawing commands: no more of them come than announced.
Drawing(c) ==
    /\ left > 0 /\ inq[c] = <<>>
    /\ \/ state[c] \in {"read", "write"} /\ Len(outq[c]) + Pending(c) = left
       \/ state[c] = "dead" /\ Len(outq[c]) <= left

Window(c) ==
    /\ ~Waiting(c) => Idle(c)
    /\ Waiting(c) /\ kpc = "reply" => Asked(c)
    /\ Waiting(c) /\ kpc = "display" => Drawing(c)

\* What is known of an application, with and without a window.
Application(c) ==
    /\ c \in win => Window(c)
    /\ state[c] = "unborn" => c \notin win /\ inq[c] = <<>> /\ outq[c] = <<>>
    /\ Len(inq[c]) <= IF c \in win THEN 1 ELSE 2

IInv == Types /\ KuidInv /\ \A c \in Client : Application(c)

LEMMA InitIInv == Init => IInv
<1> SUFFICES ASSUME Init PROVE IInv
  OBVIOUS
<1> USE KuidAssumption
<1>1. shell \in Shell
  BY DEF Init
<1>2. Types
  <2>1. 1 \in 1 .. Serials /\ Profile \in Header
    BY DEF Profile, Header
  <2>2. state \in [Process -> States]
    BY DEF Init, States
  <2>3. inq \in [Process -> Seq(0 .. Serials)] /\ outq \in [Process -> Seq(Header)]
    BY DEF Init
  <2>4. serial \in [Process -> 1 .. Serials] /\ todo \in [Process -> Header] /\ left \in Nat
    BY <2>1 DEF Init
  <2>5. \A p \in Process : state[p] # "write"
    BY DEF Init
  <2> QED
    BY <2>2, <2>3, <2>4, <2>5 DEF Types
<1>3. KuidInv
  BY <1>1 DEF Init, KuidInv
<1>4. ASSUME NEW c \in Client PROVE Application(c)
  <2>1. c \in Process /\ c # shell
    BY <1>1 DEF Process
  <2>2. state[c] = "unborn" /\ inq[c] = <<>> /\ outq[c] = <<>> /\ c \notin win
    BY <2>1 DEF Init
  <2> QED
    BY <2>2 DEF Application
<1> QED
  BY <1>2, <1>3, <1>4 DEF IInv

-----------------------------------------------------------------------------
(* Steps that do not concern an application                                *)

LEMMA Untouched ==
    ASSUME NEW c \in Client, Application(c),
           state'[c] = state[c], inq'[c] = inq[c], outq'[c] = outq[c],
           serial'[c] = serial[c], todo'[c] = todo[c],
           c \in win' <=> c \in win,
           c \in win => (Waiting(c)' <=> Waiting(c)),
           c \in win /\ Waiting(c) => kpc' = kpc /\ left' = left
    PROVE  Application(c)'
<1>1. c \in win => Window(c)'
  <2> SUFFICES ASSUME c \in win PROVE Window(c)'
    OBVIOUS
  <2>1. Window(c)
    BY DEF Application
  <2>2. CASE ~Waiting(c)
    BY <2>1, <2>2 DEF Window, Idle
  <2>3. CASE Waiting(c)
    BY <2>1, <2>3 DEF Window, Asked, Drawing, Pending
  <2> QED
    BY <2>2, <2>3
<1> QED
  BY <1>1 DEF Application

\* kuid is at something else than an application, before and after.
LEMMA QuietStep ==
    ASSUME IInv, Types', UNCHANGED win,
           kpc \notin {"reply", "display"}, kpc' \notin {"reply", "display"},
           shell' \in Shell \cup {None},
           kpc' = "wait" => cur' \in Shell \cup {None},
           \A c \in Client : /\ state'[c] = state[c] /\ inq'[c] = inq[c] /\ outq'[c] = outq[c]
                             /\ serial'[c] = serial[c] /\ todo'[c] = todo[c]
    PROVE  IInv'
<1>1. ASSUME NEW c \in Client PROVE Application(c)'
  <2>1. Application(c) /\ ~Waiting(c) /\ ~Waiting(c)'
    BY DEF IInv, Waiting
  <2> QED
    BY <2>1, Untouched
<1>2. KuidInv'
  BY DEF IInv, KuidInv
<1> QED
  BY <1>1, <1>2 DEF IInv

LEMMA FollowingType ==
    ASSUME NEW s \in 1 .. Serials
    PROVE  Following(s) \in 1 .. Serials
BY KuidAssumption DEF Following

\* A shell is no application, and None is no process.
LEMMA ShellApart ==
    ASSUME IInv
    PROVE  /\ \A c \in Client : c \in Process /\ c # shell /\ c \notin Shell
           /\ shell # None => shell \in Process
BY KuidAssumption DEF IInv, KuidInv, Process

LEMMA SkipStep == ASSUME IInv, Skip PROVE IInv'
<1>1. /\ kpc = "loop" /\ UNCHANGED <<kpc, cur, left, win, shell, retired, serial, state, todo,
                                    holds, inq, outq>>
  BY DEF Skip, At, pvars
<1>2. Types' /\ shell' \in Shell \cup {None}
  BY <1>1 DEF IInv, Types, KuidInv
<1> QED
  BY <1>1, <1>2, QuietStep

LEMMA AskStep == ASSUME IInv, Ask PROVE IInv'
<1> USE KuidAssumption
<1>1. kpc = "loop" /\ kpc' \in {"loop", "sreply", "ask"}
      /\ UNCHANGED <<win, shell, retired, state, todo, holds, outq>>
  BY DEF Ask, At, ShellFails, Answered, pvars
<1>2. left' \in Nat
  BY DEF Ask, ShellFails, Answered, IInv, Types
<1>3. /\ serial' \in [Process -> 1 .. Serials]
      /\ \A c \in Client : serial'[c] = serial[c]
  <2>1. serial \in [Process -> 1 .. Serials]
    BY DEF IInv, Types
  <2>2. \A c \in Client : c \in Process /\ c # shell
    BY ShellApart
  <2>3. CASE serial' = [serial EXCEPT ![shell] = Following(@)]
    <3>1. shell \in Process => Following(serial[shell]) \in 1 .. Serials
      BY <2>1, FollowingType
    <3> QED
      BY <2>1, <2>2, <2>3, <3>1
  <2>4. CASE serial' = serial
    BY <2>1, <2>4
  <2> QED
    BY <2>3, <2>4 DEF Ask
<1>4. /\ inq' \in [Process -> Seq(0 .. Serials)]
      /\ \A c \in Client : inq'[c] = inq[c]
  <2>1. inq \in [Process -> Seq(0 .. Serials)]
    BY DEF IInv, Types
  <2>2. \A c \in Client : c \in Process /\ c # shell
    BY ShellApart
  <2>3. CASE inq' = [inq EXCEPT ![shell] = <<serial'[shell]>>]
    <3>1. shell \in Process => <<serial'[shell]>> \in Seq(0 .. Serials)
      BY <1>3
    <3> QED
      BY <2>1, <2>2, <2>3, <3>1
  <2>4. CASE inq' = inq
    BY <2>1, <2>4
  <2> QED
    BY <2>3, <2>4 DEF Ask
<1>5. Types' /\ shell' \in Shell \cup {None}
  BY <1>1, <1>2, <1>3, <1>4 DEF IInv, Types, KuidInv
<1> QED
  BY <1>1, <1>3, <1>4, <1>5, QuietStep

LEMMA WriteRequestStep == ASSUME IInv, WriteRequest PROVE IInv'
<1> USE KuidAssumption
<1>1. kpc = "ask" /\ kpc' \in {"loop", "sreply"}
      /\ UNCHANGED <<win, shell, retired, serial, state, todo, holds, outq>>
  BY DEF WriteRequest, ShellFails, Answered, pvars
<1>2. left' \in Nat
  BY DEF WriteRequest, ShellFails, Answered, IInv, Types
<1>3. /\ inq' \in [Process -> Seq(0 .. Serials)]
      /\ \A c \in Client : inq'[c] = inq[c]
  <2>1. inq \in [Process -> Seq(0 .. Serials)] /\ serial \in [Process -> 1 .. Serials]
    BY DEF IInv, Types
  <2>2. \A c \in Client : c \in Process /\ c # shell
    BY ShellApart
  <2>3. CASE inq' = [inq EXCEPT ![shell] = <<serial[shell]>>]
    <3>1. shell \in Process => <<serial[shell]>> \in Seq(0 .. Serials)
      BY <2>1
    <3> QED
      BY <2>1, <2>2, <2>3, <3>1
  <2>4. CASE inq' = inq
    BY <2>1, <2>4
  <2> QED
    BY <2>3, <2>4 DEF WriteRequest
<1>4. Types' /\ shell' \in Shell \cup {None}
  BY <1>1, <1>2, <1>3 DEF IInv, Types, KuidInv
<1> QED
  BY <1>1, <1>3, <1>4, QuietStep

\* A piece is read from the shell.
LEMMA ShellRead ==
    ASSUME IInv, outq[shell] # <<>>, outq' = [outq EXCEPT ![shell] = Tail(@)]
    PROVE  /\ outq' \in [Process -> Seq(Header)]
           /\ \A c \in Client : outq'[c] = outq[c]
<1>1. outq \in [Process -> Seq(Header)]
  BY DEF IInv, Types
<1>2. \A c \in Client : c \in Process /\ c # shell
  BY ShellApart
<1>3. shell \in Process => Tail(outq[shell]) \in Seq(Header)
  BY <1>1
<1> QED
  BY <1>1, <1>2, <1>3

LEMMA ShellAnswerStep == ASSUME IInv, ShellAnswer \/ ShellExpire PROVE IInv'
<1>1. kpc = "sreply" /\ kpc' = "loop" /\ left' = 0
      /\ UNCHANGED <<win, shell, retired, serial, state, todo, holds, inq>>
  BY DEF ShellAnswer, ShellExpire, ShellFails, Answered, pvars
<1>2. outq' \in [Process -> Seq(Header)] /\ \A c \in Client : outq'[c] = outq[c]
  BY ShellRead DEF ShellAnswer, ShellExpire, IInv, Types
<1>3. Types' /\ shell' \in Shell \cup {None}
  BY <1>1, <1>2 DEF IInv, Types, KuidInv
<1> QED
  BY <1>1, <1>2, <1>3, QuietStep

LEMMA ReadProfileStep == ASSUME IInv, ReadProfile PROVE IInv'
<1>1. kpc = "profile" /\ kpc' \in {"loop", "wait"}
      /\ UNCHANGED <<left, win, retired, serial, state, todo, holds, inq>>
  BY DEF ReadProfile, pvars
<1>2. outq' \in [Process -> Seq(Header)] /\ \A c \in Client : outq'[c] = outq[c]
  BY ShellRead DEF ReadProfile, IInv, Types
<1>3. shell' \in Shell \cup {None} /\ (kpc' = "wait" => cur' \in Shell \cup {None})
  BY DEF ReadProfile, IInv, KuidInv
<1>4. Types'
  BY <1>1, <1>2 DEF IInv, Types
<1> QED
  BY <1>1, <1>2, <1>3, <1>4, QuietStep

LEMMA WaitStep == ASSUME IInv, Wait PROVE IInv'
<1>1. /\ kpc = "wait" /\ kpc' = "loop" /\ cur \notin win
      /\ state' = [state EXCEPT ![cur] = "reaped"]
      /\ UNCHANGED <<left, win, shell, retired, serial, todo, holds, inq, outq>>
  BY KuidAssumption DEF Wait, IInv, KuidInv
<1>2. state' \in [Process -> States]
  BY <1>1 DEF IInv, Types, States
<1>3. Types'
  <2>1. ASSUME NEW q \in Process, state'[q] = "write" PROVE todo'[q].chunks > 0
    BY <1>1, <2>1 DEF IInv, Types
  <2> QED
    BY <1>1, <1>2, <2>1 DEF IInv, Types
<1>4. ASSUME NEW c \in Client PROVE Application(c)'
  <2>1. Application(c) /\ c \in Process /\ ~Waiting(c) /\ ~Waiting(c)'
    BY <1>1 DEF IInv, Process, Waiting
  <2>2. CASE c = cur
    <3>1. c \notin win' /\ state'[c] = "reaped" /\ Len(inq'[c]) <= 2
      BY <1>1, <2>1, <2>2 DEF IInv, Types, Application
    <3> QED
      BY <3>1 DEF Application
  <2>3. CASE c # cur
    <3>1. state'[c] = state[c]
      BY <1>1, <2>1, <2>3
    <3> QED
      BY <1>1, <2>1, <3>1, Untouched
  <2> QED
    BY <2>2, <2>3
<1>5. KuidInv'
  BY <1>1 DEF IInv, KuidInv
<1> QED
  BY <1>3, <1>4, <1>5 DEF IInv

LEMMA RestartStep == ASSUME IInv, Restart PROVE IInv'
<1> USE KuidAssumption
<1>1. kpc = "restart" /\ kpc' \in {"loop", "profile"} /\ shell' \in Shell \cup {None}
      /\ serial' = [serial EXCEPT ![shell] = 1] /\ outq' = [outq EXCEPT ![shell] = <<>>]
      /\ UNCHANGED <<cur, left, win, retired, todo, inq>>
  BY DEF Restart
<1>2. \A c \in Client : c \in Process /\ c # shell /\ c \notin Shell
  BY ShellApart
<1>3. state' \in [Process -> States] /\ \A c \in Client : state'[c] = state[c]
  <2>1. state \in [Process -> States]
    BY DEF IInv, Types
  <2>2. \/ state' = [state EXCEPT ![shell] = "reaped"]
        \/ \E s \in Shell : state' = [state EXCEPT ![shell] = "reaped", ![s] = "work"]
    BY DEF Restart
  <2> QED
    BY <1>2, <2>1, <2>2 DEF States
<1>4. serial' \in [Process -> 1 .. Serials] /\ \A c \in Client : serial'[c] = serial[c]
  <2>1. serial \in [Process -> 1 .. Serials] /\ 1 \in 1 .. Serials
    BY DEF IInv, Types
  <2> QED
    BY <1>1, <1>2, <2>1
<1>5. outq' \in [Process -> Seq(Header)] /\ \A c \in Client : outq'[c] = outq[c]
  <2>1. <<>> \in Seq(Header)
    OBVIOUS
  <2> QED
    BY <1>1, <1>2, <2>1 DEF IInv, Types
<1>6. ASSUME NEW q \in Process, state'[q] = "write" PROVE todo'[q].chunks > 0
  <2>1. \/ state' = [state EXCEPT ![shell] = "reaped"]
        \/ \E s \in Shell : state' = [state EXCEPT ![shell] = "reaped", ![s] = "work"]
    BY DEF Restart
  <2>2. state[q] = "write"
    BY <1>6, <2>1 DEF IInv, Types
  <2> QED
    BY <1>1, <2>2 DEF IInv, Types
<1>7. Types'
  BY <1>1, <1>3, <1>4, <1>5, <1>6 DEF IInv, Types
<1> QED
  BY <1>1, <1>3, <1>4, <1>5, <1>7, QuietStep

-----------------------------------------------------------------------------
(* What an application does                                                *)

\* Another process takes a step.
LEMMA OtherStep ==
    ASSUME IInv, NEW p \in Process, NEW c \in Client, c # p, UNCHANGED kvars,
           state'[c] = state[c], inq'[c] = inq[c], outq'[c] = outq[c], todo'[c] = todo[c]
    PROVE  Application(c)'
<1>1. Application(c) /\ (Waiting(c)' <=> Waiting(c)) /\ kpc' = kpc /\ left' = left
      /\ win' = win /\ serial' = serial
  BY DEF IInv, Waiting, kvars
<1> QED
  BY <1>1, Untouched

LEMMA ReadStep ==
    ASSUME IInv, NEW p \in Process, PRead(p)
    PROVE  IInv'
<1> USE KuidAssumption
<1>1. /\ state[p] = "read" /\ inq[p] # <<>> /\ Head(inq[p]) # Close
      /\ inq' = [inq EXCEPT ![p] = Tail(inq[p])]
      /\ state' = [state EXCEPT ![p] = "work"]
      /\ todo' = [todo EXCEPT ![p] = [serial |-> Head(inq[p]), chunks |-> 0]]
      /\ UNCHANGED <<kvars, holds, outq>>
  BY DEF PRead
<1>2. /\ state \in [Process -> States] /\ inq \in [Process -> Seq(0 .. Serials)]
      /\ outq \in [Process -> Seq(Header)] /\ todo \in [Process -> Header]
  BY DEF IInv, Types
<1>3. /\ Tail(inq[p]) \in Seq(0 .. Serials) /\ Head(inq[p]) \in 0 .. Serials
      /\ Len(Tail(inq[p])) = Len(inq[p]) - 1
  BY <1>1, <1>2
<1>4. Types'
  <2>1. [serial |-> Head(inq[p]), chunks |-> 0] \in Header
    BY <1>3 DEF Header
  <2>2. state' \in [Process -> States]
    BY <1>1, <1>2 DEF States
  <2>3. inq' \in [Process -> Seq(0 .. Serials)] /\ todo' \in [Process -> Header]
    BY <1>1, <1>2, <1>3, <2>1
  <2>4. ASSUME NEW q \in Process, state'[q] = "write" PROVE todo'[q].chunks > 0
    BY <1>1, <1>2, <2>4 DEF IInv, Types
  <2> QED
    BY <1>1, <2>2, <2>3, <2>4 DEF IInv, Types, kvars
<1>5. ASSUME NEW c \in Client PROVE Application(c)'
  <2>1. Application(c) /\ c \in Process
    BY DEF IInv, Process
  <2>2. CASE c # p
    <3>1. /\ state'[c] = state[c] /\ inq'[c] = inq[c] /\ outq'[c] = outq[c]
          /\ todo'[c] = todo[c]
      BY <1>1, <1>2, <2>1, <2>2
    <3> QED
      BY <1>1, <2>2, <3>1, OtherStep
  <2>3. CASE c = p
    <3>1. /\ state'[c] = "work" /\ inq'[c] = Tail(inq[c]) /\ outq'[c] = outq[c]
      BY <1>1, <1>2, <2>1, <2>3
    <3>2. Len(inq'[c]) <= IF c \in win' THEN 1 ELSE 2
      <4>1. Len(inq[c]) \in Nat /\ win' = win
        BY <1>1, <1>2, <2>1 DEF kvars
      <4> QED
        BY <1>3, <2>1, <2>3, <3>1, <4>1 DEF Application
    <3>3. ASSUME c \in win PROVE Window(c)'
      <4>1. Window(c)
        BY <2>1, <3>3 DEF Application
      <4>2. Waiting(c) /\ kpc = "reply" /\ inq[c] = <<serial[c]>> /\ outq[c] = <<>>
        BY <1>1, <2>3, <3>3, <4>1 DEF Window, Idle, Asked, Drawing, Waiting
      <4>3. Tail(inq[c]) = <<>>
        BY <4>2
      <4>4. Asked(c)'
        BY <3>1, <4>2, <4>3 DEF Asked
      <4> QED
        BY <1>1, <4>2, <4>4 DEF Window, Waiting, kvars
    <3> QED
      BY <1>1, <3>1, <3>2, <3>3 DEF Application, kvars
  <2> QED
    BY <2>2, <2>3
<1>6. KuidInv'
  BY <1>1 DEF IInv, KuidInv, kvars
<1> QED
  BY <1>4, <1>5, <1>6 DEF IInv

LEMMA PlusOne ==
    ASSUME NEW l \in Nat, NEW m \in Nat
    PROVE  (l + 1) + m = l + (m + 1)
OBVIOUS

\* A piece is added to what kuid has not read yet.
LEMMA WriteStep ==
    ASSUME IInv, NEW p \in Process, NEW n \in 0 .. MaxChunks, NEW piece \in Header,
           \/ state[p] = "work" /\ piece.chunks = n
           \/ state[p] = "write" /\ todo[p].chunks = n + 1,
           outq' = [outq EXCEPT ![p] = Append(@, piece)],
           todo' \in [Process -> Header],
           \A c \in Process \ {p} : todo'[c] = todo[c],
           n > 0 => todo'[p].chunks = n,
           state' = [state EXCEPT ![p] = IF n = 0 THEN "read" ELSE "write"],
           UNCHANGED <<kvars, holds, inq>>
    PROVE  IInv'
<1> USE KuidAssumption
<1>1. /\ state \in [Process -> States] /\ inq \in [Process -> Seq(0 .. Serials)]
      /\ outq \in [Process -> Seq(Header)] /\ todo \in [Process -> Header]
  BY DEF IInv, Types
<1>2. /\ Append(outq[p], piece) \in Seq(Header) /\ Append(outq[p], piece) # <<>>
      /\ Len(Append(outq[p], piece)) = Len(outq[p]) + 1 /\ Len(outq[p]) \in Nat
      /\ Head(Append(outq[p], piece)) = IF outq[p] = <<>> THEN piece ELSE Head(outq[p])
  BY <1>1
<1>3. Types'
  <2>1. state' \in [Process -> States]
    BY <1>1 DEF States
  <2>2. outq' \in [Process -> Seq(Header)]
    BY <1>1, <1>2
  <2>3. ASSUME NEW q \in Process, state'[q] = "write" PROVE todo'[q].chunks > 0
    BY <1>1, <2>3 DEF IInv, Types
  <2> QED
    BY <2>1, <2>2, <2>3 DEF IInv, Types, kvars
<1>4. ASSUME NEW c \in Client PROVE Application(c)'
  <2>1. Application(c) /\ c \in Process
    BY DEF IInv, Process
  <2>2. CASE c # p
    <3>1. /\ state'[c] = state[c] /\ inq'[c] = inq[c] /\ outq'[c] = outq[c]
          /\ todo'[c] = todo[c]
      BY <1>1, <2>1, <2>2
    <3> QED
      BY <2>2, <3>1, OtherStep
  <2>3. CASE c = p
    <3>1. /\ state'[c] = (IF n = 0 THEN "read" ELSE "write") /\ inq'[c] = inq[c]
          /\ outq'[c] = Append(outq[c], piece) /\ outq'[c] # <<>>
          /\ Len(outq'[c]) = Len(outq[c]) + 1 /\ Len(outq[c]) \in Nat
          /\ Head(outq'[c]) = IF outq[c] = <<>> THEN piece ELSE Head(outq[c])
          /\ Pending(c)' = n /\ n \in Nat
          /\ Len(outq'[c]) + Pending(c)' = Len(outq[c]) + (n + 1)
      <4>1. /\ state'[c] = (IF n = 0 THEN "read" ELSE "write") /\ inq'[c] = inq[c]
            /\ outq'[c] = Append(outq[c], piece)
        BY <1>1, <2>1, <2>3
      <4>2. /\ outq'[c] # <<>> /\ Len(outq'[c]) = Len(outq[c]) + 1 /\ Len(outq[c]) \in Nat
            /\ Head(outq'[c]) = IF outq[c] = <<>> THEN piece ELSE Head(outq[c])
        BY <1>2, <2>3, <4>1
      <4>3. n \in Nat /\ (n = 0 \/ n > 0)
        OBVIOUS
      <4>4. Pending(c)' = n
        <5>1. CASE n = 0
          BY <4>1, <5>1 DEF Pending
        <5>2. CASE n > 0
          BY <2>3, <4>1, <5>2 DEF Pending
        <5> QED
          BY <4>3, <5>1, <5>2
      <4>5. Len(outq'[c]) + Pending(c)' = Len(outq[c]) + (n + 1)
        <5>1. CASE n = 0
          BY <4>1, <4>2, <5>1 DEF Pending
        <5>2. CASE n > 0
          <6>1. state'[c] = "write" /\ todo'[c].chunks = n
            BY <2>3, <4>1, <5>2
          <6>2. (Len(outq[c]) + 1) + n = Len(outq[c]) + (n + 1)
            BY <4>2, <4>3, PlusOne, Zenon
          <6>3. Len(outq'[c]) + n = Len(outq[c]) + (n + 1)
            <7>1. Len(outq'[c]) = Len(outq[c]) + 1
              BY <4>2
            <7> QED
              BY <6>2, <7>1, Zenon
          <6> QED
            BY <6>1, <6>3 DEF Pending
        <5> QED
          BY <4>3, <5>1, <5>2
      <4> QED
        BY <4>1, <4>2, <4>3, <4>4, <4>5
    <3>2. state[c] = "work" \/ (state[c] = "write" /\ Pending(c) = n + 1)
      BY <2>3 DEF Pending
    <3>3. ASSUME c \in win PROVE Window(c)'
      <4>1. Window(c) /\ Waiting(c)
        BY <2>1, <3>2, <3>3 DEF Application, Window, Idle
      <4>2. CASE kpc = "reply"
        <5>1. Asked(c)
          BY <4>1, <4>2 DEF Window
        <5>2. CASE state[c] = "work"
          <6>1. outq[c] = <<>> /\ inq[c] = <<>> /\ piece.chunks = n
            BY <2>3, <5>1, <5>2 DEF Asked
          <6>2. Len(outq'[c]) + Pending(c)' = 1 + Head(outq'[c]).chunks
            BY <3>1, <6>1
          <6> QED
            BY <3>1, <4>1, <4>2, <6>1, <6>2 DEF Window, Asked, Waiting, kvars
        <5>3. CASE state[c] = "write"
          <6>1. /\ outq[c] # <<>> /\ inq[c] = <<>> /\ Pending(c) = n + 1
                /\ Len(outq[c]) + Pending(c) = 1 + Head(outq[c]).chunks
            BY <3>2, <5>1, <5>3 DEF Asked
          <6>2. Len(outq'[c]) + Pending(c)' = 1 + Head(outq'[c]).chunks
            BY <3>1, <6>1
          <6> QED
            BY <3>1, <4>1, <4>2, <6>1, <6>2 DEF Window, Asked, Waiting, kvars
        <5> QED
          BY <3>2, <5>2, <5>3
      <4>3. CASE kpc = "display"
        <5>1. /\ left > 0 /\ inq[c] = <<>> /\ Pending(c) = n + 1
              /\ Len(outq[c]) + Pending(c) = left
          BY <3>2, <4>1, <4>3 DEF Window, Drawing
        <5>2. Len(outq'[c]) + Pending(c)' = left
          BY <3>1, <5>1
        <5> QED
          BY <3>1, <4>1, <4>3, <5>1, <5>2 DEF Window, Drawing, Waiting, kvars
      <4> QED
        BY <4>1, <4>2, <4>3 DEF Waiting
    <3> QED
      BY <2>1, <3>1, <3>3 DEF Application, kvars
  <2> QED
    BY <2>2, <2>3
<1>5. KuidInv'
  BY DEF IInv, KuidInv, kvars
<1> QED
  BY <1>3, <1>4, <1>5 DEF IInv

LEMMA ReplyStep ==
    ASSUME IInv, NEW p \in Process, PReply(p)
    PROVE  IInv'
<1>1. PICK n \in 0 .. MaxChunks :
          /\ outq' = [outq EXCEPT ![p] = Append(@, [todo[p] EXCEPT !.chunks = n])]
          /\ todo' = [todo EXCEPT ![p] = IF n = 0 THEN Profile ELSE [todo[p] EXCEPT !.chunks = n]]
          /\ state' = [state EXCEPT ![p] = IF n = 0 THEN "read" ELSE "write"]
  <2>1. 0 \in 0 .. MaxChunks
    BY KuidAssumption
  <2> QED
    BY <2>1 DEF PReply
<1>2. state[p] = "work" /\ UNCHANGED <<kvars, holds, inq>>
  BY DEF PReply
<1>3. todo \in [Process -> Header]
  BY DEF IInv, Types
<1>4. [todo[p] EXCEPT !.chunks = n] \in Header /\ [todo[p] EXCEPT !.chunks = n].chunks = n
  BY <1>3 DEF Header
<1>5. Profile \in Header
  BY KuidAssumption DEF Profile, Header
<1>6. /\ todo' \in [Process -> Header] /\ (n > 0 => todo'[p].chunks = n)
      /\ \A c \in Process \ {p} : todo'[c] = todo[c]
  BY <1>1, <1>3, <1>4, <1>5
<1> QED
  BY <1>1, <1>2, <1>4, <1>6, WriteStep

LEMMA ChunkStep ==
    ASSUME IInv, NEW p \in Process, PChunk(p)
    PROVE  IInv'
<1> DEFINE n == todo[p].chunks - 1
<1>1. /\ state[p] = "write"
      /\ outq' = [outq EXCEPT ![p] = Append(@, Chunk)]
      /\ todo' = [todo EXCEPT ![p] = IF todo[p].chunks = 1 THEN Profile
                                     ELSE [todo[p] EXCEPT !.chunks = n]]
      /\ state' = [state EXCEPT ![p] = IF todo[p].chunks = 1 THEN "read" ELSE "write"]
      /\ UNCHANGED <<kvars, holds, inq>>
  <2>1. todo' = [todo EXCEPT ![p] = IF todo[p].chunks = 1 THEN Profile
                                   ELSE [todo[p] EXCEPT !.chunks = n]]
    BY Zenon DEF PChunk
  <2>2. /\ state[p] = "write"
        /\ outq' = [outq EXCEPT ![p] = Append(@, Chunk)]
        /\ UNCHANGED <<kvars, holds, inq>>
    BY DEF PChunk
  <2>3. state' = [state EXCEPT ![p] = IF todo[p].chunks = 1 THEN "read" ELSE "write"]
    BY DEF PChunk
  <2> HIDE DEF n
  <2> QED
    BY <2>1, <2>2, <2>3
<1>2. todo \in [Process -> Header]
  BY DEF IInv, Types
<1>3. n \in 0 .. MaxChunks /\ todo[p].chunks = n + 1 /\ (todo[p].chunks = 1 <=> n = 0)
  <2>1. todo[p].chunks \in 1 .. MaxChunks
    BY <1>1, <1>2, KuidAssumption DEF Header, IInv, Types
  <2> QED
    BY <2>1, KuidAssumption
<1>4. [todo[p] EXCEPT !.chunks = n] \in Header /\ [todo[p] EXCEPT !.chunks = n].chunks = n
  BY <1>2, <1>3 DEF Header
<1>5. Profile \in Header /\ Chunk \in Header
  BY KuidAssumption DEF Profile, Chunk, Header
<1> HIDE DEF n
<1>6. /\ todo' \in [Process -> Header] /\ (n > 0 => todo'[p].chunks = n)
      /\ \A c \in Process \ {p} : todo'[c] = todo[c]
  BY <1>1, <1>2, <1>3, <1>4, <1>5
<1>7. state' = [state EXCEPT ![p] = IF n = 0 THEN "read" ELSE "write"]
  BY <1>1, <1>3
<1> QED
  BY <1>1, <1>3, <1>5, <1>6, <1>7, WriteStep
\* A process ends, of its own accord or not.
LEMMA EndStep ==
    ASSUME IInv, NEW p \in Process, Alive(p), Ends(p)
    PROVE  IInv'
<1> USE KuidAssumption
<1>1. /\ state' = [state EXCEPT ![p] = "dead"] /\ todo' = [todo EXCEPT ![p] = Profile]
      /\ inq' = [inq EXCEPT ![p] = <<>>]
      /\ outq' = IF p \in win \/ p = shell THEN outq ELSE [outq EXCEPT ![p] = <<>>]
      /\ UNCHANGED kvars
  BY DEF Ends
<1>2. /\ state \in [Process -> States] /\ inq \in [Process -> Seq(0 .. Serials)]
      /\ outq \in [Process -> Seq(Header)] /\ todo \in [Process -> Header]
  BY DEF IInv, Types
<1>3. Types'
  <2>1. state' \in [Process -> States]
    BY <1>1, <1>2 DEF States
  <2>2. Profile \in Header
    BY DEF Profile, Header
  <2>3. /\ inq' \in [Process -> Seq(0 .. Serials)] /\ outq' \in [Process -> Seq(Header)]
        /\ todo' \in [Process -> Header]
    BY <1>1, <1>2, <2>2
  <2>4. ASSUME NEW q \in Process, state'[q] = "write" PROVE todo'[q].chunks > 0
    BY <1>1, <1>2, <2>4 DEF IInv, Types
  <2> QED
    BY <1>1, <2>1, <2>3, <2>4 DEF IInv, Types, kvars
<1>4. ASSUME NEW c \in Client PROVE Application(c)'
  <2>1. Application(c) /\ c \in Process
    BY DEF IInv, Process
  <2>2. CASE c # p
    <3>1. /\ state'[c] = state[c] /\ inq'[c] = inq[c] /\ outq'[c] = outq[c]
          /\ todo'[c] = todo[c]
      BY <1>1, <1>2, <2>1, <2>2
    <3> QED
      BY <1>1, <2>2, <3>1, OtherStep
  <2>3. CASE c = p
    <3>1. state'[c] = "dead" /\ inq'[c] = <<>> /\ Len(inq'[c]) = 0
          /\ (c \in win => outq'[c] = outq[c])
      BY <1>1, <1>2, <2>1, <2>3
    <3>2. ASSUME c \in win PROVE Window(c)'
      <4>1. Window(c) /\ outq'[c] = outq[c] /\ state[c] # "dead"
        BY <2>1, <2>3, <3>1, <3>2 DEF Application, Alive
      <4>2. Len(outq[c]) \in Nat /\ Pending(c) \in Nat
        BY <1>2, <2>1 DEF Pending, Header
      <4>3. Waiting(c)' <=> Waiting(c)
        BY <1>1 DEF Waiting, kvars
      <4>4. CASE ~Waiting(c)
        BY <3>1, <4>1, <4>3, <4>4 DEF Window, Idle
      <4>5. CASE Waiting(c) /\ kpc = "reply"
        <5>1. Asked(c)
          BY <4>1, <4>5 DEF Window
        <5>2. outq[c] # <<>> => Len(outq[c]) <= 1 + Head(outq[c]).chunks
          <6> SUFFICES ASSUME outq[c] # <<>>
                       PROVE  Len(outq[c]) <= 1 + Head(outq[c]).chunks
            OBVIOUS
          <6>1. Len(outq[c]) + Pending(c) = 1 + Head(outq[c]).chunks
            BY <4>1, <5>1 DEF Asked
          <6>2. Head(outq[c]) \in Header
            BY <1>2, <2>1
          <6>3. Head(outq[c]).chunks \in Nat
            BY <6>2 DEF Header
          <6> QED
            BY <4>2, <6>1, <6>3
        <5>3. Asked(c)'
          BY <3>1, <4>1, <5>2 DEF Asked
        <5> QED
          BY <1>1, <4>3, <4>5, <5>3 DEF Window, kvars
      <4>6. CASE Waiting(c) /\ kpc = "display"
        <5>1. left > 0 /\ left \in Nat /\ Len(outq[c]) + Pending(c) = left
          BY <4>1, <4>6 DEF Window, Drawing, IInv, Types
        <5>2. Len(outq[c]) <= left
          BY <4>2, <5>1
        <5>3. Drawing(c)'
          BY <1>1, <3>1, <4>1, <5>1, <5>2 DEF Drawing, kvars
        <5> QED
          BY <1>1, <4>3, <4>6, <5>3 DEF Window, kvars
      <4> QED
        BY <4>4, <4>5, <4>6 DEF Waiting
    <3> QED
      BY <1>1, <2>1, <3>1, <3>2 DEF Application, kvars
  <2> QED
    BY <2>2, <2>3
<1>5. KuidInv'
  BY <1>1 DEF IInv, KuidInv, kvars
<1> QED
  BY <1>3, <1>4, <1>5 DEF IInv

LEMMA ProcessStep ==
    ASSUME IInv, NEW p \in Process, PStep(p) \/ PDie(p)
    PROVE  IInv'
<1>1. CASE PRead(p)
  BY <1>1, ReadStep
<1>2. CASE PReply(p)
  BY <1>2, ReplyStep
<1>3. CASE PChunk(p)
  BY <1>3, ChunkStep
<1>4. CASE PLeave(p) \/ PBroken(p) \/ PDie(p)
  <2>1. Alive(p) /\ Ends(p)
    BY <1>4 DEF PLeave, PBroken, PDie, Alive
  <2> QED
    BY <2>1, EndStep
<1> QED
  BY <1>1, <1>2, <1>3, <1>4 DEF PStep

-----------------------------------------------------------------------------
(* What kuid does with its windows                                         *)

\* Windows are given up, with the event CLOSE.
LEMMA ReleaseStep ==
    ASSUME IInv, NEW S \in SUBSET win, Release(S, TRUE),
           \A c \in win \ S : ~Waiting(c),
           kpc' \notin {"reply", "display"},
           shell' \in Shell \cup {None}, kpc' = "wait" => cur' \in Shell \cup {None},
           left' \in Nat, UNCHANGED todo,
           outq' \in [Process -> Seq(Header)],
           \A c \in Client \ S : outq'[c] = outq[c]
    PROVE  IInv'
<1> USE KuidAssumption
<1> DEFINE ended == {c \in S : state[c] = "dead"}
<1>1. /\ win' = win \ S
      /\ inq' = [c \in Process |-> IF c \in S /\ Alive(c) THEN Append(inq[c], Close) ELSE inq[c]]
      /\ state' = [c \in Process |-> IF c \in ended THEN "reaped" ELSE state[c]]
      /\ serial' = [c \in Process |-> IF c \in S THEN 1 ELSE serial[c]]
  BY DEF Release
<1>2. /\ state \in [Process -> States] /\ inq \in [Process -> Seq(0 .. Serials)]
      /\ serial \in [Process -> 1 .. Serials]
  BY DEF IInv, Types
<1>3. Types'
  <2>1. state' \in [Process -> States]
    BY <1>1, <1>2 DEF States
  <2>2. inq' \in [Process -> Seq(0 .. Serials)]
    <3>1. ASSUME NEW q \in Process PROVE Append(inq[q], Close) \in Seq(0 .. Serials)
      BY <1>2 DEF Close
    <3> QED
      BY <1>1, <1>2, <3>1
  <2>3. serial' \in [Process -> 1 .. Serials]
    BY <1>1, <1>2
  <2>4. ASSUME NEW q \in Process, state'[q] = "write" PROVE todo'[q].chunks > 0
    BY <1>1, <2>4 DEF IInv, Types
  <2> QED
    BY <2>1, <2>2, <2>3, <2>4 DEF IInv, Types
<1>4. ASSUME NEW c \in Client PROVE Application(c)'
  <2>1. Application(c) /\ c \in Process
    BY DEF IInv, Process
  <2>2. CASE c \notin S
    <3>1. /\ state'[c] = state[c] /\ inq'[c] = inq[c] /\ outq'[c] = outq[c]
          /\ serial'[c] = serial[c] /\ todo'[c] = todo[c]
          /\ (c \in win' <=> c \in win) /\ ~Waiting(c)'
      BY <1>1, <2>1, <2>2 DEF Waiting
    <3> QED
      BY <2>1, <2>2, <3>1, Untouched
  <2>3. CASE c \in S
    <3>1. c \notin win' /\ state'[c] # "unborn"
      BY <1>1, <2>1, <2>3 DEF Application
    <3>2. Len(inq[c]) \in Nat /\ Len(inq[c]) <= 1 /\ inq[c] \in Seq(0 .. Serials)
      BY <1>2, <2>1, <2>3 DEF Application
    <3>3. Len(Append(inq[c], Close)) = Len(inq[c]) + 1
      BY <3>2 DEF Close
    <3>4. inq'[c] = Append(inq[c], Close) \/ inq'[c] = inq[c]
      BY <1>1, <2>1
    <3>5. Len(inq'[c]) <= 2
      BY <3>2, <3>3, <3>4
    <3> QED
      BY <3>1, <3>5 DEF Application
  <2> QED
    BY <2>2, <2>3
<1>5. KuidInv'
  BY <1>1 DEF IInv, KuidInv
<1> QED
  BY <1>3, <1>4, <1>5 DEF IInv

\* An exchange with c fails; a piece from it may have been read before.
LEMMA DropStep ==
    ASSUME IInv, NEW c \in win, Drop(c), \A d \in win \ {c} : ~Waiting(d),
           UNCHANGED <<shell, todo>>,
           outq' \in [Process -> Seq(Header)],
           \A d \in Client \ {c} : outq'[d] = outq[d]
    PROVE  IInv'
<1>1. Release({c}, TRUE) /\ kpc' = "loop" /\ left' \in Nat
  BY DEF Drop
<1>2. shell' \in Shell \cup {None}
  BY DEF IInv, KuidInv
<1>3. {c} \in SUBSET win
  OBVIOUS
<1> QED
  BY <1>1, <1>2, <1>3, ReleaseStep

\* While kuid is in its loop no exchange is going on.
LEMMA LoopIdle ==
    ASSUME IInv, kpc = "loop"
    PROVE  \A c \in Client : ~Waiting(c) /\ (c \in win => Idle(c))
BY DEF IInv, Application, Window, Waiting

LEMMA SendStep == ASSUME IInv, NEW c \in Client, Send(c) PROVE IInv'
<1>1. kpc = "loop" /\ c \in win /\ c \in Process /\ UNCHANGED <<running, shell, todo, holds, outq>>
  BY DEF Send, At, Process
<1>2. \A d \in Client : ~Waiting(d) /\ (d \in win => Idle(d))
  BY <1>1, LoopIdle
<1>3. CASE ~Alive(c)
  <2>1. Drop(c)
    BY <1>3 DEF Send
  <2>2. \A d \in win : ~Waiting(d)
    BY <1>2 DEF IInv, KuidInv
  <2>3. outq' \in [Process -> Seq(Header)]
    BY <1>1 DEF IInv, Types
  <2> QED
    BY <1>1, <2>1, <2>2, <2>3, DropStep
<1>4. CASE Alive(c)
  <2> DEFINE f == Following(serial[c])
  <2>1. /\ serial' = [serial EXCEPT ![c] = f] /\ inq' = [inq EXCEPT ![c] = Append(inq[c], f)]
        /\ kpc' = "reply" /\ cur' = c /\ UNCHANGED <<left, win, retired, state>>
    BY <1>4 DEF Send
  <2>2. f \in 1 .. Serials
    BY <1>1, FollowingType DEF IInv, Types
  <2>3. /\ state \in [Process -> States] /\ inq \in [Process -> Seq(0 .. Serials)]
        /\ outq \in [Process -> Seq(Header)] /\ serial \in [Process -> 1 .. Serials]
    BY DEF IInv, Types
  <2> HIDE DEF f
  <2>4. Idle(c) /\ state[c] = "read"
    BY <1>1, <1>2, <1>4 DEF Idle, Alive
  <2>5. serial'[c] = f /\ inq'[c] = <<f>> /\ Len(inq'[c]) = 1
    <3>1. Append(inq[c], f) = <<f>> /\ Len(<<f>>) = 1
      BY <2>2, <2>4 DEF Idle
    <3> QED
      BY <1>1, <2>1, <2>3, <3>1
  <2>6. Types'
    <3>1. serial' \in [Process -> 1 .. Serials]
      BY <2>1, <2>2, <2>3
    <3>2. Append(inq[c], f) \in Seq(0 .. Serials)
      BY <1>1, <2>2, <2>3
    <3>3. inq' \in [Process -> Seq(0 .. Serials)]
      BY <2>1, <2>3, <3>2
    <3> QED
      BY <1>1, <2>1, <3>1, <3>3 DEF IInv, Types
  <2>7. ASSUME NEW d \in Client PROVE Application(d)'
    <3>1. Application(d) /\ d \in Process
      BY DEF IInv, Process
    <3>2. CASE d # c
      <4>1. /\ state'[d] = state[d] /\ inq'[d] = inq[d] /\ outq'[d] = outq[d]
            /\ serial'[d] = serial[d] /\ todo'[d] = todo[d]
            /\ (d \in win' <=> d \in win) /\ ~Waiting(d) /\ ~Waiting(d)'
        BY <1>1, <1>2, <2>1, <2>3, <3>1, <3>2 DEF Waiting
      <4> QED
        BY <3>1, <4>1, Untouched
    <3>3. CASE d = c
      <4>1. Asked(d)'
        BY <1>1, <2>1, <2>4, <2>5, <3>3 DEF Asked, Idle
      <4>2. Window(d)'
        BY <2>1, <3>3, <4>1 DEF Window, Waiting
      <4>3. Len(inq'[d]) = 1 /\ state'[d] = "read"
        BY <2>1, <2>4, <2>5, <3>3
      <4> QED
        BY <4>2, <4>3 DEF Application
    <3> QED
      BY <3>2, <3>3
  <2>8. KuidInv'
    BY <1>1, <2>1 DEF IInv, KuidInv
  <2> QED
    BY <2>6, <2>7, <2>8 DEF IInv
<1> QED
  BY <1>3, <1>4

LEMMA OpenStep == ASSUME IInv, NEW c \in Client, Open(c) PROVE IInv'
<1>1. /\ kpc = "loop" /\ c \in Process /\ state[c] = "unborn"
      /\ state' = [state EXCEPT ![c] = "read"] /\ win' = win \cup {c}
      /\ inq' = [inq EXCEPT ![c] = <<serial[c]>>] /\ kpc' = "reply" /\ cur' = c
      /\ UNCHANGED <<left, running, shell, retired, serial, todo, outq>>
  BY DEF Open, At, Process
<1>2. \A d \in Client : ~Waiting(d)
  BY <1>1, LoopIdle
<1>3. /\ state \in [Process -> States] /\ inq \in [Process -> Seq(0 .. Serials)]
      /\ outq \in [Process -> Seq(Header)] /\ serial \in [Process -> 1 .. Serials]
  BY DEF IInv, Types
<1>4. outq[c] = <<>>
  BY <1>1 DEF IInv, Application
<1>5. Types'
  <2>1. <<serial[c]>> \in Seq(0 .. Serials)
    BY <1>1, <1>3, KuidAssumption
  <2>2. inq' \in [Process -> Seq(0 .. Serials)]
    BY <1>1, <1>3, <2>1
  <2>3. state' \in [Process -> States]
    BY <1>1, <1>3 DEF States
  <2>4. ASSUME NEW q \in Process, state'[q] = "write" PROVE todo'[q].chunks > 0
    BY <1>1, <1>3, <2>4 DEF IInv, Types
  <2> QED
    BY <1>1, <2>2, <2>3, <2>4 DEF IInv, Types
<1>6. ASSUME NEW d \in Client PROVE Application(d)'
  <2>1. Application(d) /\ d \in Process
    BY DEF IInv, Process
  <2>2. CASE d # c
    <3>1. /\ state'[d] = state[d] /\ inq'[d] = inq[d] /\ outq'[d] = outq[d]
          /\ serial'[d] = serial[d] /\ todo'[d] = todo[d]
          /\ (d \in win' <=> d \in win) /\ ~Waiting(d) /\ ~Waiting(d)'
      BY <1>1, <1>2, <1>3, <2>1, <2>2 DEF Waiting
    <3> QED
      BY <2>1, <3>1, Untouched
  <2>3. CASE d = c
    <3>1. state'[d] = "read" /\ inq'[d] = <<serial'[d]>> /\ outq'[d] = <<>> /\ Len(inq'[d]) = 1
      BY <1>1, <1>3, <1>4, <2>3
    <3>2. Asked(d)'
      BY <3>1 DEF Asked
    <3>3. Window(d)'
      BY <1>1, <2>3, <3>2 DEF Window, Waiting
    <3> QED
      BY <3>1, <3>3 DEF Application
  <2> QED
    BY <2>2, <2>3
<1>7. KuidInv'
  BY <1>1 DEF IInv, KuidInv
<1> QED
  BY <1>5, <1>6, <1>7 DEF IInv

LEMMA OpenExclusiveStep == ASSUME IInv, NEW c \in Client, OpenExclusive(c) PROVE IInv'
<1>1. /\ kpc = "loop" /\ c \in Process /\ state[c] = "unborn"
      /\ state' = [state EXCEPT ![c] = "runs"] /\ kpc' = "wait" /\ cur' = c
      /\ UNCHANGED <<left, running, win, shell, retired, serial, todo, inq, outq>>
  BY DEF OpenExclusive, At, Process
<1>2. c \notin win
  BY <1>1 DEF IInv, Application
<1>3. Types'
  <2>1. state' \in [Process -> States]
    BY <1>1 DEF IInv, Types, States
  <2>2. ASSUME NEW q \in Process, state'[q] = "write" PROVE todo'[q].chunks > 0
    BY <1>1, <2>2 DEF IInv, Types
  <2> QED
    BY <1>1, <2>1, <2>2 DEF IInv, Types
<1>4. ASSUME NEW d \in Client PROVE Application(d)'
  <2>1. Application(d) /\ d \in Process /\ ~Waiting(d) /\ ~Waiting(d)'
    BY <1>1 DEF IInv, Process, Waiting
  <2>2. CASE d = c
    <3>1. d \notin win' /\ state'[d] = "runs" /\ inq'[d] = inq[d] /\ Len(inq[d]) <= 2
      BY <1>1, <1>2, <2>1, <2>2 DEF IInv, Types, Application
    <3> QED
      BY <3>1 DEF Application
  <2>3. CASE d # c
    <3>1. state'[d] = state[d]
      BY <1>1, <2>1, <2>3
    <3> QED
      BY <1>1, <2>1, <3>1, Untouched
  <2> QED
    BY <2>2, <2>3
<1>5. KuidInv'
  BY <1>1, <1>2 DEF IInv, KuidInv
<1> QED
  BY <1>3, <1>4, <1>5 DEF IInv

LEMMA CloseStep == ASSUME IInv, NEW c \in Client, CloseWindow(c) PROVE IInv'
<1>1. kpc = "loop" /\ {c} \in SUBSET win /\ Release({c}, TRUE)
      /\ UNCHANGED <<kpc, cur, left, running, shell, todo, holds, outq>>
  BY DEF CloseWindow, At
<1>2. \A d \in win : ~Waiting(d)
  BY <1>1, LoopIdle DEF IInv, KuidInv
<1>3. shell' \in Shell \cup {None} /\ left' \in Nat /\ outq' \in [Process -> Seq(Header)]
  BY <1>1 DEF IInv, KuidInv, Types
<1> QED
  BY <1>1, <1>2, <1>3, ReleaseStep

LEMMA QuitStep == ASSUME IInv, Quit PROVE IInv'
<1>1. kpc = "loop" /\ Release(win, TRUE) /\ kpc' \in {"done", "wait"}
      /\ cur' = shell /\ shell' = None /\ UNCHANGED <<turn, left, running, todo, holds, outq>>
  BY DEF Quit
<1>2. cur' \in Shell \cup {None} /\ left' \in Nat /\ outq' \in [Process -> Seq(Header)]
  BY <1>1 DEF IInv, KuidInv, Types
<1>3. win \in SUBSET win /\ \A d \in win \ win : ~Waiting(d)
  OBVIOUS
<1> QED
  BY <1>1, <1>2, <1>3, ReleaseStep

\* kuid takes one piece from the window whose answer it awaits.
LEMMA TakePiece ==
    ASSUME IInv, kpc \in {"reply", "display"}, outq[cur] # <<>>,
           outq' = [outq EXCEPT ![cur] = Tail(@)]
    PROVE  /\ cur \in win /\ cur \in Client /\ cur \in Process
           /\ outq' \in [Process -> Seq(Header)] /\ outq'[cur] = Tail(outq[cur])
           /\ Len(outq[cur]) \in Nat \ {0} /\ Len(outq'[cur]) = Len(outq[cur]) - 1
           /\ Len(outq[cur]) = 1 => outq'[cur] = <<>>
           /\ Head(outq[cur]) \in Header
           /\ \A d \in Client \ {cur} : outq'[d] = outq[d] /\ ~Waiting(d)
<1>1. cur \in win /\ cur \in Client /\ cur \in Process
  BY DEF IInv, KuidInv, Process
<1>2. outq \in [Process -> Seq(Header)]
  BY DEF IInv, Types
<1>3. /\ Tail(outq[cur]) \in Seq(Header) /\ Head(outq[cur]) \in Header
      /\ Len(outq[cur]) \in Nat \ {0} /\ Len(Tail(outq[cur])) = Len(outq[cur]) - 1
      /\ Len(outq[cur]) = 1 => Tail(outq[cur]) = <<>>
  BY <1>1, <1>2
<1>4. outq' \in [Process -> Seq(Header)] /\ outq'[cur] = Tail(outq[cur])
  BY <1>1, <1>2, <1>3
<1>5. \A d \in Client \ {cur} : outq'[d] = outq[d] /\ ~Waiting(d)
  BY <1>2 DEF Waiting, Process
<1> QED
  BY <1>1, <1>3, <1>4, <1>5

\* The piece is what was due: the answer is complete or goes on.
LEMMA PieceStep ==
    ASSUME IInv, kpc \in {"reply", "display"}, outq[cur] # <<>>,
           outq' = [outq EXCEPT ![cur] = Tail(@)],
           NEW n \in Nat,
           IF kpc = "reply" THEN n = Head(outq[cur]).chunks ELSE n = left - 1,
           left' = n,
           IF n = 0 THEN kpc' = "loop" ELSE kpc' = "display" /\ cur' = cur,
           UNCHANGED <<win, state, serial, inq, shell, todo>>
    PROVE  IInv'
<1>1. /\ cur \in win /\ cur \in Client /\ cur \in Process
      /\ outq' \in [Process -> Seq(Header)] /\ outq'[cur] = Tail(outq[cur])
      /\ Len(outq[cur]) \in Nat \ {0} /\ Len(outq'[cur]) = Len(outq[cur]) - 1
      /\ Len(outq[cur]) = 1 => outq'[cur] = <<>>
      /\ \A d \in Client \ {cur} : outq'[d] = outq[d] /\ ~Waiting(d)
  BY TakePiece
<1>2. Types'
  BY <1>1 DEF IInv, Types
<1>3. /\ inq[cur] = <<>>
      /\ \/ /\ state[cur] \in {"read", "write"} /\ Pending(cur) \in Nat
            /\ Len(outq[cur]) + Pending(cur) = n + 1
            /\ state[cur] = "write" => Pending(cur) > 0
         \/ state[cur] = "dead" /\ Len(outq[cur]) <= n + 1
  <2>1. Window(cur) /\ Waiting(cur)
    BY <1>1 DEF IInv, Application, Waiting
  <2>2. Pending(cur) \in Nat /\ (state[cur] = "write" => Pending(cur) > 0)
    BY <1>1 DEF Pending, IInv, Types, Header
  <2>3. CASE kpc = "reply"
    <3>1. Asked(cur) /\ n = Head(outq[cur]).chunks
      BY <2>1, <2>3 DEF Window
    <3>2. CASE state[cur] = "dead"
      BY <3>1, <3>2 DEF Asked
    <3>3. CASE state[cur] # "dead"
      <4>1. /\ inq[cur] = <<>> /\ state[cur] \in {"read", "write"}
            /\ Len(outq[cur]) + Pending(cur) = 1 + n
        BY <3>1, <3>3 DEF Asked
      <4> QED
        BY <2>2, <4>1
    <3> QED
      BY <3>2, <3>3
  <2>4. CASE kpc = "display"
    <3>1. Drawing(cur) /\ left = n + 1
      BY <2>1, <2>4 DEF Window, IInv, Types
    <3> QED
      BY <2>2, <3>1 DEF Drawing
  <2> QED
    BY <2>3, <2>4
<1>4. ASSUME NEW d \in Client PROVE Application(d)'
  <2>1. Application(d) /\ d \in Process
    BY DEF IInv, Process
  <2>2. CASE d # cur
    <3>1. outq'[d] = outq[d] /\ ~Waiting(d) /\ ~Waiting(d)'
      BY <1>1, <2>2 DEF Waiting
    <3> QED
      BY <2>1, <3>1, Untouched
  <2>3. CASE d = cur
    <3>1. CASE n = 0
      <4>1. state[cur] \in {"read", "dead"} /\ Len(outq[cur]) = 1
        BY <1>1, <1>3, <3>1
      <4>2. Idle(d)' /\ ~Waiting(d)'
        BY <1>1, <1>3, <2>3, <3>1, <4>1 DEF Idle, Waiting
      <4> QED
        BY <2>1, <4>2 DEF Application, Window
    <3>2. CASE n # 0
      <4>1. kpc' = "display" /\ cur' = cur /\ left' = n /\ n > 0
        BY <3>2
      <4>2. \/ state[cur] \in {"read", "write"} /\ Len(outq'[cur]) + Pending(cur) = n
            \/ state[cur] = "dead" /\ Len(outq'[cur]) <= n
        <5>1. Len(outq[cur]) \in Nat \ {0} /\ Len(outq'[cur]) = Len(outq[cur]) - 1
          BY <1>1
        <5>2. CASE state[cur] = "dead"
          <6>1. Len(outq[cur]) <= n + 1
            BY <1>3, <5>2
          <6> QED
            BY <5>1, <5>2, <6>1
        <5>3. CASE state[cur] # "dead"
          <6>1. /\ state[cur] \in {"read", "write"} /\ Pending(cur) \in Nat
                /\ Len(outq[cur]) + Pending(cur) = n + 1
            BY <1>3, <5>3
          <6>2. (Len(outq[cur]) - 1) + Pending(cur) = n
            BY <5>1, <6>1
          <6> QED
            BY <5>1, <6>1, <6>2
        <5> QED
          BY <5>2, <5>3
      <4>3. Drawing(d)'
        BY <1>3, <2>3, <4>1, <4>2 DEF Drawing, Pending
      <4> QED
        BY <2>1, <2>3, <4>1, <4>3 DEF Application, Window, Waiting
    <3> QED
      BY <3>1, <3>2
  <2> QED
    BY <2>2, <2>3
<1>5. KuidInv'
  BY <1>1 DEF IInv, KuidInv
<1> QED
  BY <1>2, <1>4, <1>5 DEF IInv

\* The exchange fails at this piece.
LEMMA RefusedStep ==
    ASSUME IInv, kpc \in {"reply", "display"}, outq[cur] # <<>>,
           outq' = [outq EXCEPT ![cur] = Tail(@)],
           Drop(cur), UNCHANGED <<shell, todo>>
    PROVE  IInv'
<1>1. /\ cur \in win /\ outq' \in [Process -> Seq(Header)]
      /\ \A d \in Client \ {cur} : outq'[d] = outq[d] /\ ~Waiting(d)
  BY TakePiece
<1>2. \A d \in win \ {cur} : ~Waiting(d)
  BY <1>1 DEF IInv, KuidInv
<1> QED
  BY <1>1, <1>2, DropStep

LEMMA ReadHeaderStep == ASSUME IInv, ReadHeader PROVE IInv'
<1>1. /\ kpc = "reply" /\ outq[cur] # <<>> /\ outq' = [outq EXCEPT ![cur] = Tail(@)]
      /\ UNCHANGED <<turn, running, shell, todo, holds>>
  BY DEF ReadHeader
<1>2. CASE Drop(cur)
  BY <1>1, <1>2, RefusedStep
<1>3. CASE ~Drop(cur)
  <2> DEFINE n == Head(outq[cur]).chunks
  <2>1. /\ IF n = 0 THEN Answered ELSE kpc' = "display" /\ left' = n /\ UNCHANGED cur
        /\ UNCHANGED <<win, retired, state, serial, inq>>
    BY <1>3 DEF ReadHeader
  <2>2. n \in Nat
    BY <1>1, TakePiece DEF Header
  <2> HIDE DEF n
  <2>3. left' = n /\ IF n = 0 THEN kpc' = "loop" ELSE kpc' = "display" /\ cur' = cur
    BY <2>1 DEF Answered
  <2> USE DEF n
  <2> QED
    BY <1>1, <2>1, <2>2, <2>3, PieceStep
<1> QED
  BY <1>2, <1>3

LEMMA ReadChunkStep == ASSUME IInv, ReadChunk PROVE IInv'
<1>1. /\ kpc = "display" /\ outq[cur] # <<>> /\ outq' = [outq EXCEPT ![cur] = Tail(@)]
      /\ UNCHANGED <<turn, running, shell, todo, holds>>
  BY DEF ReadChunk
<1>2. CASE Drop(cur)
  BY <1>1, <1>2, RefusedStep
<1>3. CASE ~Drop(cur)
  <2>1. /\ IF left = 1 THEN Answered ELSE left' = left - 1 /\ UNCHANGED <<kpc, cur>>
        /\ UNCHANGED <<win, retired, state, serial, inq>>
    BY <1>3 DEF ReadChunk
  <2>2. left \in Nat /\ left > 0
    <3>1. cur \in win /\ cur \in Client /\ Waiting(cur)
      BY <1>1, TakePiece DEF Waiting
    <3> QED
      BY <1>1, <3>1 DEF IInv, Types, Application, Window, Drawing
  <2>3. left - 1 \in Nat /\ left' = left - 1
        /\ IF left - 1 = 0 THEN kpc' = "loop" ELSE kpc' = "display" /\ cur' = cur
    BY <1>1, <2>1, <2>2 DEF Answered
  <2> QED
    BY <1>1, <2>1, <2>3, PieceStep
<1> QED
  BY <1>2, <1>3

LEMMA ExpireStep == ASSUME IInv, Expire PROVE IInv'
<1>1. /\ kpc \in {"reply", "display"} /\ Drop(cur)
      /\ UNCHANGED <<turn, running, shell, todo, holds, outq>>
  BY DEF Expire
<1>2. cur \in win /\ \A d \in win \ {cur} : ~Waiting(d)
  BY <1>1 DEF IInv, KuidInv, Waiting
<1>3. outq' \in [Process -> Seq(Header)]
  BY <1>1 DEF IInv, Types
<1> QED
  BY <1>1, <1>2, <1>3, DropStep

\* Windows whose process has gone are taken off, what they left is reaped.
LEMMA PollStep == ASSUME IInv, Poll PROVE IInv'
<1> DEFINE gone == {c \in win : state[c] = "dead"}
           leftOver == {c \in retired : state[c] = "dead"}
<1>1. /\ kpc = "loop" /\ kpc' \in {"loop", "restart"} /\ win' = win \ gone
      /\ state' = [p \in Process |-> IF p \in gone \cup leftOver THEN "reaped" ELSE state[p]]
      /\ serial' = [p \in Process |-> IF p \in gone THEN 1 ELSE serial[p]]
      /\ UNCHANGED <<cur, left, running, shell, todo, holds, inq, outq>>
  BY DEF Poll, At
<1>2. state \in [Process -> States] /\ serial \in [Process -> 1 .. Serials]
  BY DEF IInv, Types
<1>3. Types'
  <2>1. state' \in [Process -> States]
    BY <1>1, <1>2 DEF States
  <2>2. serial' \in [Process -> 1 .. Serials]
    BY <1>1, <1>2, KuidAssumption
  <2>3. ASSUME NEW q \in Process, state'[q] = "write" PROVE todo'[q].chunks > 0
    BY <1>1, <2>3 DEF IInv, Types
  <2> QED
    BY <1>1, <2>1, <2>2, <2>3 DEF IInv, Types
<1>4. ASSUME NEW c \in Client PROVE Application(c)'
  <2>1. Application(c) /\ c \in Process /\ ~Waiting(c) /\ ~Waiting(c)'
    BY <1>1 DEF IInv, Process, Waiting
  <2>2. CASE c \in gone \cup leftOver
    <3>1. c \notin win' /\ state'[c] = "reaped" /\ inq'[c] = inq[c]
      BY <1>1, <2>1, <2>2
    <3>2. inq[c] \in Seq(0 .. Serials)
      BY <2>1 DEF IInv, Types
    <3>3. Len(inq[c]) <= 2
      BY <2>1, <3>2 DEF Application
    <3> QED
      BY <3>1, <3>3 DEF Application
  <2>3. CASE c \notin gone \cup leftOver
    <3>1. /\ state'[c] = state[c] /\ serial'[c] = serial[c] /\ (c \in win' <=> c \in win)
          /\ inq'[c] = inq[c] /\ outq'[c] = outq[c] /\ todo'[c] = todo[c]
      BY <1>1, <2>1, <2>3
    <3> QED
      BY <2>1, <3>1, Untouched
  <2> QED
    BY <2>2, <2>3
<1>5. KuidInv'
  BY <1>1 DEF IInv, KuidInv
<1> QED
  BY <1>3, <1>4, <1>5 DEF IInv

-----------------------------------------------------------------------------
LEMMA StutterIInv == ASSUME IInv, UNCHANGED vars PROVE IInv'
<1>1. UNCHANGED kvars /\ UNCHANGED <<state, todo, holds, inq, outq>>
  BY DEF vars, pvars
<1>2. ASSUME NEW c \in Client PROVE Application(c)'
  <2>1. Application(c) /\ (Waiting(c)' <=> Waiting(c)) /\ win' = win /\ serial' = serial
        /\ kpc' = kpc /\ left' = left
    BY <1>1 DEF IInv, Waiting, kvars
  <2> QED
    BY <1>1, <2>1, Untouched
<1>3. Types' /\ KuidInv'
  BY <1>1 DEF IInv, Types, KuidInv, kvars
<1> QED
  BY <1>2, <1>3 DEF IInv

LEMMA NextIInv == IInv /\ [Next]_vars => IInv'
<1> SUFFICES ASSUME IInv, [Next]_vars PROVE IInv'
  OBVIOUS
<1>1. CASE UNCHANGED vars
  BY <1>1, StutterIInv
<1>2. ASSUME NEW p \in Process, PStep(p) \/ PDie(p) PROVE IInv'
  BY <1>2, ProcessStep
<1>3. ASSUME NEW c \in Client,
             Send(c) \/ Open(c) \/ OpenExclusive(c) \/ CloseWindow(c)
      PROVE  IInv'
  BY <1>3, SendStep, OpenStep, OpenExclusiveStep, CloseStep
<1>4. CASE Exchange
  BY <1>4, ReadHeaderStep, ReadChunkStep, ExpireStep DEF Exchange
<1>5. CASE Ask \/ ShellExchange
  BY <1>5, AskStep, WriteRequestStep, ShellAnswerStep DEF ShellExchange
<1>6. CASE ReadProfile \/ Wait \/ Poll \/ Restart
  BY <1>6, ReadProfileStep, WaitStep, PollStep, RestartStep
<1>7. CASE Skip \/ Quit
  BY <1>7, SkipStep, QuitStep
<1> QED
  BY <1>1, <1>2, <1>3, <1>4, <1>5, <1>6, <1>7 DEF Next, KuidStep, Input

LEMMA IInvInStep == IInv => InStep
<1> SUFFICES ASSUME IInv PROVE InStep
  OBVIOUS
<1>1. ASSUME NEW c \in win, kpc \notin {"reply", "display"} \/ cur # c
      PROVE  inq[c] = <<>> /\ outq[c] = <<>> /\ state[c] \in {"read", "dead"}
  BY <1>1 DEF IInv, KuidInv, Application, Window, Waiting, Idle
<1>2. ASSUME NEW c \in Client PROVE Len(inq[c]) <= InCap
  <2>1. Application(c) /\ inq[c] \in Seq(0 .. Serials)
    BY DEF IInv, Types, Process
  <2>2. Len(inq[c]) \in Nat /\ Len(inq[c]) <= 2
    BY <2>1 DEF Application
  <2> QED
    BY <2>2, KuidAssumption
<1> QED
  BY <1>1, <1>2 DEF InStep

(* kuid and every application that keeps to the protocol of kui_client.c   *)
(* stay in step, wherever the applications stall or die: outside an        *)
(* exchange nothing is left in the pipes of a window, so an answer is the  *)
(* answer to what was asked, and no input pipe ever holds more than two    *)
(* events, so kui_write_all(), which has no deadline, never puts the       *)
(* display server to sleep in release_window_index() or                    *)
(* send_window_event().                                                    *)
THEOREM StaysInStep == Spec => []InStep
<1>1. Init => IInv
  BY InitIInv
<1>2. IInv /\ [Next]_vars => IInv'
  BY NextIInv
<1>3. IInv => InStep
  BY IInvInStep
<1> QED
  BY <1>1, <1>2, <1>3, PTL DEF Spec

-----------------------------------------------------------------------------
(* The type invariant: where kuid is, its two tables, the output pipes     *)

Control ==
    /\ kpc \in {"profile", "loop", "reply", "display", "ask", "sreply",
                "restart", "wait", "done"}
    /\ turn \in 1 .. 3 /\ left \in 0 .. MaxChunks /\ running \in BOOLEAN
    /\ cur \in Process \cup {None}
    /\ (shell = None => kpc \in {"wait", "done"} \/ (kpc = "loop" /\ turn = 1 /\ ~running))
    /\ kpc = "wait" => IF cur \in Client THEN shell # None /\ cur \notin retired
                       ELSE shell = None /\ turn = 1 /\ ~running

Tables ==
    /\ IsFiniteSet(win) /\ Cardinality(win) <= MaxWindows
    /\ IsFiniteSet(retired) /\ Cardinality(retired) <= MaxWindows
    /\ retired \subseteq Client \ win
    /\ \A p \in win \cup retired : state[p] # "reaped"
    /\ \A p \in retired : state[p] # "unborn"

Bounded == \A p \in Process : Len(outq[p]) <= OutCap

TInv == IInv /\ Control /\ Tables /\ Bounded

LEMMA InitTInv == Init => TInv
<1> SUFFICES ASSUME Init PROVE TInv
  OBVIOUS
<1> USE KuidAssumption
<1>1. IInv
  BY InitIInv
<1>2. Control
  <2>1. shell \in Shell /\ shell # None
    BY DEF Init
  <2> QED
    BY <2>1 DEF Init, Control
<1>3. Tables
  BY FS_EmptySet DEF Init, Tables
<1>4. Bounded
  <2>1. ASSUME NEW p \in Process PROVE Len(outq[p]) = 0
    BY DEF Init
  <2> QED
    BY <2>1 DEF Bounded
<1> QED
  BY <1>1, <1>2, <1>3, <1>4 DEF TInv

LEMMA PassStep == ASSUME Control, Pass PROVE turn' \in 1 .. 3
BY DEF Control, Pass, Turn

LEMMA ControlStep == ASSUME TInv, Next, IInv' PROVE Control'
<1> USE KuidAssumption
<1>1. Control /\ IInv
  BY DEF TInv
<1>2. ASSUME NEW place, At(place)
      PROVE  kpc = "loop" /\ shell # None
  BY <1>1, <1>2 DEF At, Control
<1>3. 0 \in 0 .. MaxChunks
  OBVIOUS
<1>4. ASSUME NEW p \in Process, PStep(p) \/ PDie(p) PROVE Control'
  <2>1. UNCHANGED kvars
    BY <1>4 DEF PStep, PDie, PRead, PLeave, PReply, PChunk, PBroken, Ends
  <2> QED
    BY <1>1, <2>1 DEF Control, kvars
<1>5. ASSUME NEW c \in Client,
             Send(c) \/ Open(c) \/ OpenExclusive(c) \/ CloseWindow(c)
      PROVE  Control'
  <2>1. kpc = "loop" /\ shell # None
    BY <1>2, <1>5 DEF Send, Open, OpenExclusive, CloseWindow
  <2>2. turn' \in 1 .. 3
    BY <1>1, <1>5, PassStep DEF Send, Open, OpenExclusive, CloseWindow
  <2>3. CASE OpenExclusive(c)
    <3>1. /\ kpc' = "wait" /\ cur' = c /\ c \in Process /\ c \notin retired
          /\ UNCHANGED <<left, running, shell, retired>>
      BY <2>3 DEF OpenExclusive, TInv, Tables, Process
    <3> QED
      BY <1>1, <2>1, <2>2, <3>1 DEF Control
  <2>4. CASE Send(c) \/ Open(c) \/ CloseWindow(c)
    <3>1. kpc' \in {"loop", "reply"} /\ cur' \in Process \cup {None}
          /\ left' \in 0 .. MaxChunks /\ UNCHANGED <<running, shell>>
      BY <1>1, <1>3, <2>1, <2>4 DEF Send, Open, CloseWindow, Drop, Control, Process
    <3> QED
      BY <1>1, <2>1, <2>2, <3>1 DEF Control
  <2> QED
    BY <1>5, <2>3, <2>4
<1>6. CASE Exchange
  <2>1. kpc \in {"reply", "display"} /\ UNCHANGED <<turn, running, shell>>
    BY <1>6 DEF Exchange, ReadHeader, ReadChunk, Expire
  <2>2. shell # None
    BY <1>1, <2>1 DEF Control
  <2>3. kpc' \in {"loop", "display"} /\ cur' \in Process \cup {None}
    BY <1>1, <1>6 DEF Exchange, ReadHeader, ReadChunk, Expire, Drop, Answered, Control
  <2>4. left' \in 0 .. MaxChunks
    <3>1. CASE left' = 0
      BY <1>3, <3>1
    <3>2. CASE ReadHeader /\ left' = Head(outq[cur]).chunks
      <4>1. Head(outq[cur]) \in Header
        BY <1>1, <3>2, TakePiece DEF ReadHeader
      <4> QED
        BY <3>2, <4>1 DEF Header
    <3>3. CASE ReadChunk /\ left # 1 /\ left' = left - 1
      <4>1. left > 0
        <5>1. cur \in win /\ cur \in Client /\ Waiting(cur) /\ kpc = "display"
          BY <1>1, <3>3, TakePiece DEF Waiting, ReadChunk
        <5> QED
          BY <1>1, <5>1 DEF IInv, Types, Application, Window, Drawing
      <4> QED
        BY <1>1, <3>3, <4>1 DEF Control
    <3> QED
      BY <1>6, <3>1, <3>2, <3>3
      DEF Exchange, ReadHeader, ReadChunk, Expire, Drop, Answered
  <2> QED
    BY <1>1, <2>1, <2>2, <2>3, <2>4 DEF Control
<1>7. CASE Ask
  <2>1. shell # None /\ turn' \in 1 .. 3
    BY <1>1, <1>2, <1>7, PassStep DEF Ask
  <2>2. kpc' \in {"loop", "sreply", "ask"} /\ UNCHANGED shell
        /\ cur' \in {cur, None} /\ left' \in {left, 0} /\ running' \in {running, FALSE}
    BY <1>7 DEF Ask, ShellFails, Answered
  <2> QED
    BY <1>1, <1>3, <2>1, <2>2 DEF Control
<1>8. CASE ShellExchange
  <2>1. kpc \in {"ask", "sreply"} /\ UNCHANGED <<turn, shell>>
        /\ kpc' \in {"loop", "sreply"}
        /\ cur' \in {cur, None} /\ left' \in {left, 0} /\ running' \in {running, FALSE}
    BY <1>8 DEF ShellExchange, WriteRequest, ShellAnswer, ShellExpire, ShellFails, Answered
  <2> QED
    BY <1>1, <1>3, <2>1 DEF Control
<1>9. CASE ReadProfile
  <2>1. shell # None /\ shell \in Process
    BY <1>1, <1>9, ShellApart DEF Control, ReadProfile
  <2>2. UNCHANGED left
        /\ \/ kpc' = "loop" /\ UNCHANGED <<turn, cur, running, shell>>
           \/ kpc' = "wait" /\ cur' = shell /\ shell' = None /\ running' = FALSE /\ turn' = 1
    BY <1>9 DEF ReadProfile
  <2>3. left' \in 0 .. MaxChunks /\ cur' \in Process \cup {None} /\ running' \in BOOLEAN
    BY <1>1, <2>1, <2>2 DEF Control
  <2>4. turn' \in 1 .. 3
    BY <1>1, <2>2 DEF Control
  <2>5. shell \notin Client
    BY <1>1, ShellApart
  <2> QED
    BY <2>1, <2>2, <2>3, <2>4, <2>5 DEF Control
<1>10. CASE Wait
  BY <1>1, <1>10 DEF Wait, Control
<1>11. CASE Poll
  <2>1. shell # None /\ turn' \in 1 .. 3
    BY <1>1, <1>2, <1>11, PassStep DEF Poll
  <2>2. kpc' \in {"loop", "restart"} /\ UNCHANGED <<cur, left, running, shell>>
    BY <1>11 DEF Poll
  <2> QED
    BY <1>1, <2>1, <2>2 DEF Control
<1>12. CASE Restart
  <2>1. kpc' \in {"loop", "profile"} /\ UNCHANGED <<cur, left>>
        /\ \/ shell' = None /\ running' = FALSE /\ turn' = 1 /\ kpc' = "loop"
           \/ shell' # None /\ UNCHANGED <<running, turn>>
    BY <1>12 DEF Restart
  <2>2. left' \in 0 .. MaxChunks /\ cur' \in Process \cup {None} /\ running' \in BOOLEAN
    BY <1>1, <2>1 DEF Control
  <2>3. turn' \in 1 .. 3
    BY <1>1, <2>1 DEF Control
  <2> QED
    BY <2>1, <2>2, <2>3 DEF Control
<1>13. CASE Skip
  <2>1. kpc = "loop" /\ shell # None /\ turn' \in 1 .. 3
    BY <1>1, <1>2, <1>13, PassStep DEF Skip
  <2>2. UNCHANGED <<kpc, cur, left, shell>> /\ running' \in {running, FALSE}
    BY <1>13 DEF Skip
  <2> QED
    BY <1>1, <2>1, <2>2 DEF Control
<1>14. CASE Quit
  <2>1. cur' \in Process \cup {None} /\ cur' \notin Client
    BY <1>1, <1>14, ShellApart DEF Quit
  <2> QED
    BY <1>1, <1>14, <2>1 DEF Quit, Control
<1> QED
  BY <1>4, <1>5, <1>6, <1>7, <1>8, <1>9, <1>10, <1>11, <1>12, <1>13, <1>14
  DEF Next, KuidStep, Input

\* What a window leaves behind is remembered while there is room.
LEMMA ReleaseTables ==
    ASSUME TInv, NEW S \in SUBSET win, Release(S, TRUE)
    PROVE  Tables'
<1> DEFINE ended == {c \in S : state[c] = "dead"}
<1>1. win \subseteq Client /\ Tables
  BY DEF TInv, IInv, KuidInv
<1>2. PICK R \in SUBSET (S \ ended) :
          Cardinality(retired \cup R) <= MaxWindows /\ retired' = retired \cup R
  BY DEF Release
<1>3. win' = win \ S
      /\ state' = [c \in Process |-> IF c \in ended THEN "reaped" ELSE state[c]]
  BY DEF Release
<1>4. IsFiniteSet(win') /\ Cardinality(win') <= MaxWindows
  <2>1. win' \subseteq win /\ IsFiniteSet(win) /\ Cardinality(win) <= MaxWindows
    BY <1>1, <1>3 DEF Tables
  <2>2. IsFiniteSet(win') /\ Cardinality(win') <= Cardinality(win)
    BY <2>1, FS_Subset
  <2> QED
    BY <2>1, <2>2, FS_CardinalityType, KuidAssumption
<1>5. IsFiniteSet(retired') /\ Cardinality(retired') <= MaxWindows
  <2>1. R \subseteq win /\ IsFiniteSet(win) /\ IsFiniteSet(retired)
    BY <1>1, <1>2 DEF Tables
  <2>2. IsFiniteSet(R)
    BY <2>1, FS_Subset
  <2> QED
    BY <1>2, <2>1, <2>2, FS_Union
<1>6. retired' \subseteq Client \ win'
  BY <1>1, <1>2, <1>3 DEF Tables
<1>7. ASSUME NEW p \in win' \cup retired' PROVE state'[p] # "reaped"
  <2>1. p \in win \cup retired /\ p \notin ended /\ p \in Process
    BY <1>1, <1>2, <1>3 DEF Tables, Process
  <2> QED
    BY <1>1, <1>3, <2>1 DEF Tables
<1>8. ASSUME NEW p \in retired' PROVE state'[p] # "unborn"
  <2>1. p \in Process /\ p \in Client /\ (p \in retired \/ p \in win)
    BY <1>1, <1>2 DEF Tables, Process
  <2>2. state[p] # "unborn"
    BY <1>1, <2>1 DEF TInv, IInv, Application, Tables
  <2> QED
    BY <1>3, <2>1, <2>2
<1> QED
  BY <1>4, <1>5, <1>6, <1>7, <1>8 DEF Tables

\* The tables are left alone, and no application is reaped or forgotten.
LEMMA TablesKept ==
    ASSUME TInv, UNCHANGED <<win, retired>>,
           \A c \in Client : \/ state'[c] = state[c]
                             \/ state'[c] \notin {"reaped", "unborn"}
    PROVE  Tables'
BY DEF TInv, IInv, KuidInv, Tables

LEMMA TablesStep == ASSUME TInv, Next PROVE Tables'
<1> USE KuidAssumption
<1>1. Tables /\ IInv /\ Control /\ win \subseteq Client
  BY DEF TInv, IInv, KuidInv
<1>2. \A c \in Client : c \in Process /\ c # shell /\ c \notin Shell
  BY <1>1, ShellApart
<1>3. state \in [Process -> States]
  BY <1>1 DEF IInv, Types
<1>4. ASSUME NEW p \in Process, PStep(p) \/ PDie(p) PROVE Tables'
  <2>1. UNCHANGED kvars
        /\ \E v \in {"read", "work", "write", "dead"} : state' = [state EXCEPT ![p] = v]
    <3>1. UNCHANGED kvars
      BY <1>4 DEF PStep, PDie, PRead, PLeave, PReply, PChunk, PBroken, Ends
    <3>2. \/ state' = [state EXCEPT ![p] = "work"] \/ state' = [state EXCEPT ![p] = "dead"]
          \/ state' = [state EXCEPT ![p] = "read"] \/ state' = [state EXCEPT ![p] = "write"]
      <4>1. CASE PReply(p) \/ PChunk(p)
        BY <4>1 DEF PReply, PChunk
      <4>2. CASE ~(PReply(p) \/ PChunk(p))
        BY <1>4, <4>2 DEF PStep, PDie, PRead, PLeave, PBroken, Ends
      <4> QED
        BY <4>1, <4>2
    <3> QED
      BY <3>1, <3>2
  <2> QED
    BY <1>2, <1>3, <2>1, TablesKept DEF kvars
<1>5. ASSUME NEW c \in Client, Open(c) PROVE Tables'
  <2>1. /\ state[c] = "unborn" /\ Cardinality(win) < MaxWindows
        /\ state' = [state EXCEPT ![c] = "read"] /\ win' = win \cup {c} /\ retired' = retired
    BY <1>5 DEF Open
  <2>2. c \notin win /\ c \notin retired
    BY <1>1, <2>1 DEF IInv, Application, Tables
  <2>3. IsFiniteSet(win') /\ Cardinality(win') = Cardinality(win) + 1 /\ Cardinality(win) \in Nat
    BY <1>1, <2>1, <2>2, FS_AddElement, FS_CardinalityType DEF Tables
  <2>4. Cardinality(win') <= MaxWindows
    BY <2>1, <2>3
  <2>5. \A d \in Client : state'[d] = IF d = c THEN "read" ELSE state[d]
    BY <1>2, <1>3, <2>1
  <2> QED
    BY <1>1, <2>1, <2>2, <2>3, <2>4, <2>5 DEF Tables
<1>6. ASSUME NEW c \in Client, Send(c) \/ OpenExclusive(c) \/ CloseWindow(c) PROVE Tables'
  <2>1. CASE OpenExclusive(c)
    <3>1. UNCHANGED <<win, retired>> /\ state' = [state EXCEPT ![c] = "runs"]
      BY <2>1 DEF OpenExclusive
    <3>2. \A d \in Client : state'[d] = IF d = c THEN "runs" ELSE state[d]
      BY <1>2, <1>3, <3>1
    <3> QED
      BY <3>1, <3>2, TablesKept
  <2>2. CASE c \in win /\ Release({c}, TRUE)
    <3>1. {c} \in SUBSET win
      BY <2>2
    <3> QED
      BY <2>2, <3>1, ReleaseTables
  <2>3. CASE Send(c) /\ ~Release({c}, TRUE)
    <3>1. UNCHANGED <<win, retired, state>>
      BY <2>3 DEF Send, Drop
    <3> QED
      BY <3>1, TablesKept
  <2> QED
    BY <1>6, <2>1, <2>2, <2>3 DEF Send, CloseWindow
<1>7. CASE Exchange
  <2>1. kpc \in {"reply", "display"}
    BY <1>7 DEF Exchange, ReadHeader, ReadChunk, Expire
  <2>2. {cur} \in SUBSET win
    BY <1>1, <2>1 DEF IInv, KuidInv
  <2>3. CASE Release({cur}, TRUE)
    BY <2>2, <2>3, ReleaseTables
  <2>4. CASE ~Release({cur}, TRUE)
    <3>1. UNCHANGED <<win, retired, state>>
      BY <1>7, <2>4 DEF Exchange, ReadHeader, ReadChunk, Expire, Drop
    <3> QED
      BY <3>1, TablesKept
  <2> QED
    BY <2>3, <2>4
<1>8. CASE Ask \/ ShellExchange \/ ReadProfile \/ Skip
  <2>1. UNCHANGED <<win, retired, state>>
    BY <1>8 DEF Ask, ShellExchange, WriteRequest, ShellAnswer, ShellExpire, ReadProfile, Skip, pvars
  <2> QED
    BY <2>1, TablesKept
<1>9. CASE Wait
  <2>1. kpc = "wait" /\ state' = [state EXCEPT ![cur] = "reaped"] /\ UNCHANGED <<win, retired>>
    BY <1>9 DEF Wait
  <2>2. cur \notin win \cup retired
    BY <1>1, <2>1 DEF IInv, KuidInv, Control, Tables
  <2>3. \A c \in Client : state'[c] = IF c = cur THEN "reaped" ELSE state[c]
    BY <1>2, <1>3, <2>1
  <2> QED
    BY <1>1, <2>1, <2>2, <2>3 DEF Tables
<1>10. CASE Restart
  <2>1. UNCHANGED <<win, retired>>
        /\ \/ state' = [state EXCEPT ![shell] = "reaped"]
           \/ \E s \in Shell : state' = [state EXCEPT ![shell] = "reaped", ![s] = "work"]
    BY <1>10 DEF Restart
  <2>2. \A c \in Client : state'[c] = state[c]
    BY <1>2, <1>3, <2>1
  <2> QED
    BY <2>1, <2>2, TablesKept
<1>11. CASE Quit
  BY <1>11, ReleaseTables DEF Quit
<1>12. CASE Poll
  <2> DEFINE gone == {c \in win : state[c] = "dead"}
             leftOver == {c \in retired : state[c] = "dead"}
  <2>1. /\ win' = win \ gone /\ retired' = retired \ leftOver
        /\ state' = [p \in Process |-> IF p \in gone \cup leftOver THEN "reaped" ELSE state[p]]
    BY <1>12 DEF Poll
  <2>2. IsFiniteSet(win') /\ Cardinality(win') <= MaxWindows
    <3>1. win' \subseteq win /\ IsFiniteSet(win) /\ Cardinality(win) <= MaxWindows
      BY <1>1, <2>1 DEF Tables
    <3>2. IsFiniteSet(win') /\ Cardinality(win') <= Cardinality(win)
      BY <3>1, FS_Subset
    <3> QED
      BY <3>1, <3>2, FS_CardinalityType
  <2>3. IsFiniteSet(retired') /\ Cardinality(retired') <= MaxWindows
    <3>1. retired' \subseteq retired /\ IsFiniteSet(retired) /\ Cardinality(retired) <= MaxWindows
      BY <1>1, <2>1 DEF Tables
    <3>2. IsFiniteSet(retired') /\ Cardinality(retired') <= Cardinality(retired)
      BY <3>1, FS_Subset
    <3> QED
      BY <3>1, <3>2, FS_CardinalityType
  <2>4. retired' \subseteq Client \ win'
    BY <1>1, <2>1 DEF Tables
  <2>5. ASSUME NEW p \in win' \cup retired'
        PROVE  p \in Process /\ p \in win \cup retired /\ state'[p] = state[p]
    <3>1. p \in win \cup retired /\ p \in Client
      BY <1>1, <2>1 DEF Tables
    <3>2. p \notin gone \cup leftOver
      BY <1>1, <2>1 DEF Tables
    <3> QED
      BY <1>2, <2>1, <3>1, <3>2
  <2>6. \A p \in retired' : p \in retired
    BY <2>1
  <2> QED
    BY <1>1, <2>2, <2>3, <2>4, <2>5, <2>6 DEF Tables
<1> QED
  BY <1>4, <1>5, <1>6, <1>7, <1>8, <1>9, <1>10, <1>11, <1>12 DEF Next, KuidStep, Input

\* A pipe for answers is emptied or read, or a piece is written that fits.
LEMMA PipeBounded ==
    ASSUME TInv, NEW p,
           \/ outq' = outq
           \/ outq' = [outq EXCEPT ![p] = <<>>]
           \/ outq[p] # <<>> /\ outq' = [outq EXCEPT ![p] = Tail(@)]
           \/ \E h \in Header : Len(outq[p]) < OutCap /\ outq' = [outq EXCEPT ![p] = Append(@, h)]
    PROVE  Bounded'
<1>1. outq \in [Process -> Seq(Header)] /\ Bounded
  BY DEF TInv, IInv, Types
<1>2. ASSUME NEW q \in Process PROVE Len(outq'[q]) <= OutCap
  <2>1. Len(outq[q]) \in Nat /\ Len(outq[q]) <= OutCap
    BY <1>1 DEF Bounded
  <2>2. CASE outq'[q] = outq[q] \/ outq'[q] = <<>>
    BY <2>1, <2>2, KuidAssumption
  <2>3. CASE outq[q] # <<>> /\ outq'[q] = Tail(outq[q])
    <3>1. Len(Tail(outq[q])) = Len(outq[q]) - 1
      BY <1>1, <2>3
    <3> QED
      BY <2>1, <2>3, <3>1, KuidAssumption
  <2>4. CASE \E h \in Header : Len(outq[q]) < OutCap /\ outq'[q] = Append(outq[q], h)
    <3>1. PICK h \in Header : Len(outq[q]) < OutCap /\ outq'[q] = Append(outq[q], h)
      BY <2>4
    <3>2. Len(Append(outq[q], h)) = Len(outq[q]) + 1
      BY <1>1
    <3> QED
      BY <2>1, <3>1, <3>2, KuidAssumption
  <2> QED
    BY <1>1, <2>2, <2>3, <2>4
<1> QED
  BY <1>2 DEF Bounded

LEMMA BoundedStep == ASSUME TInv, Next PROVE Bounded'
<1> USE KuidAssumption
<1>1. todo \in [Process -> Header]
  BY DEF TInv, IInv, Types
<1>2. ASSUME NEW p \in Process, PReply(p) PROVE Bounded'
  <2>1. PICK n \in 0 .. MaxChunks :
            /\ Len(outq[p]) < OutCap
            /\ outq' = [outq EXCEPT ![p] = Append(@, [todo[p] EXCEPT !.chunks = n])]
    <3>1. 0 \in 0 .. MaxChunks
      OBVIOUS
    <3> QED
      BY <1>2, <3>1 DEF PReply
  <2>2. [todo[p] EXCEPT !.chunks = n] \in Header
    BY <1>1 DEF Header
  <2> QED
    BY <2>1, <2>2, PipeBounded
<1>3. ASSUME NEW p \in Process, PChunk(p) PROVE Bounded'
  <2>1. Len(outq[p]) < OutCap /\ outq' = [outq EXCEPT ![p] = Append(@, Chunk)]
    BY <1>3 DEF PChunk
  <2>2. Chunk \in Header
    BY DEF Chunk, Profile, Header
  <2> QED
    BY <2>1, <2>2, PipeBounded
<1>4. ASSUME NEW p \in Process, PRead(p) \/ PLeave(p) \/ PBroken(p) \/ PDie(p) PROVE Bounded'
  <2>1. outq' = outq \/ outq' = [outq EXCEPT ![p] = <<>>]
    BY <1>4 DEF PRead, PLeave, PBroken, PDie, Ends
  <2> QED
    BY <2>1, PipeBounded
<1>5. ASSUME NEW c \in Client,
             Send(c) \/ Open(c) \/ OpenExclusive(c) \/ CloseWindow(c)
      PROVE  Bounded'
  <2>1. outq' = outq
    BY <1>5 DEF Send, Open, OpenExclusive, CloseWindow
  <2> QED
    BY <2>1, PipeBounded
<1>6. CASE Exchange
  <2>1. outq' = outq \/ (outq[cur] # <<>> /\ outq' = [outq EXCEPT ![cur] = Tail(@)])
    BY <1>6 DEF Exchange, ReadHeader, ReadChunk, Expire
  <2> QED
    BY <2>1, PipeBounded
<1>7. CASE ShellExchange \/ ReadProfile \/ Restart
  <2>1. \/ outq' = outq \/ outq' = [outq EXCEPT ![shell] = <<>>]
        \/ outq[shell] # <<>> /\ outq' = [outq EXCEPT ![shell] = Tail(@)]
    BY <1>7 DEF ShellExchange, WriteRequest, ShellAnswer, ShellExpire, ReadProfile, Restart
  <2> QED
    BY <2>1, PipeBounded
<1>8. CASE Ask \/ Wait \/ Poll \/ Skip \/ Quit
  <2>1. outq' = outq
    BY <1>8 DEF Ask, Wait, Poll, Skip, Quit
  <2> QED
    BY <2>1, PipeBounded
<1> QED
  BY <1>2, <1>3, <1>4, <1>5, <1>6, <1>7, <1>8 DEF Next, KuidStep, Input, PStep

LEMMA NextTInv == TInv /\ [Next]_vars => TInv'
<1> SUFFICES ASSUME TInv, [Next]_vars PROVE TInv'
  OBVIOUS
<1>1. IInv'
  BY NextIInv DEF TInv
<1>2. CASE UNCHANGED vars
  BY <1>1, <1>2 DEF TInv, Control, Tables, Bounded, vars, kvars, pvars
<1>3. CASE Next
  BY <1>1, <1>3, ControlStep, TablesStep, BoundedStep DEF TInv
<1> QED
  BY <1>2, <1>3

(* The tables of windows and of retired processes stay within MAX_WINDOWS  *)
(* and apart, a process is reaped once and only after it has left both,    *)
(* and without a shell nothing is left for kuid but to close: no branch    *)
(* of desktop_shell_run() uses a connection that stop_shell() has closed.  *)
THEOREM StaysTyped == Spec => []TypeOK
<1>1. Init => TInv
  BY InitTInv
<1>2. TInv /\ [Next]_vars => TInv'
  BY NextTInv
<1>3. TInv => TypeOK
  <2>1. 1 .. Len(Turn) = 1 .. 3
    BY DEF Turn
  <2> QED
    BY <2>1 DEF TInv, IInv, KuidInv, Control, Tables, Bounded, TypeOK
<1> QED
  BY <1>1, <1>2, <1>3, PTL DEF Spec
=============================================================================
