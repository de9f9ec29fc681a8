-------------------------------- MODULE Kuid --------------------------------
(***************************************************************************)
(* The desktop: kuid (extras/desktop/shell.c), the applications that talk  *)
(* to it through extras/kui/kui_client.c, and its shell                    *)
(* (extras/kuid/aqua_shell.c).  Each of the processes kuid starts has two  *)
(* pipes: kuid writes one event or request and reads one response, a       *)
(* header and then the drawing commands.  kuid is one thread.  An          *)
(* application keeps to the protocol of kui_client.c (it answers what it   *)
(* has read, and once), and may stall or die at any point of it.  Any      *)
(* other program runs on the whole screen while kuid waits for its end.    *)
(*                                                                         *)
(* A pipe holds whole messages: InCap events (1292 bytes of 4096), one     *)
(* shell request (3260 bytes), OutCap pieces of a response; the answer of  *)
(* the shell is one piece.  Which window an input goes to, and what a      *)
(* response asks for, is left to choice.                                   *)
(***************************************************************************)
EXTENDS Naturals, Sequences, FiniteSets

CONSTANTS Client,     \* application processes
          Shell,      \* shell processes, the first and its restart
          None,
          InCap,      \* events that fit in an input pipe
          OutCap,     \* pieces of a response that fit in an output pipe
          MaxWindows, \* MAX_WINDOWS
          MaxChunks,  \* bound: pieces of drawing commands in a response
          Serials     \* bound: serial numbers before they wrap

ASSUME KuidAssumption ==
    /\ Client \cap Shell = {} /\ Shell # {} /\ None \notin Client \cup Shell
    /\ InCap \in Nat \ {0, 1} /\ OutCap \in Nat \ {0} /\ MaxWindows \in Nat
    /\ MaxChunks \in Nat /\ Serials \in Nat \ {0, 1}

Process == Client \cup Shell

VARIABLES
    kpc,      \* where kuid is: see TypeOK
    turn,     \* its place in a turn of the loop of desktop_shell_run()
    cur,      \* the window whose answer is awaited
    left,     \* pieces of the answer still to be read
    running,  \* the desktop is to go on
    win,      \* applications with a window
    shell,    \* the shell that kuid is connected to
    retired,  \* retired_window_pids
    serial,   \* window->serial, shell_serial
    state,    \* what a process does
    todo,     \* serial and pieces of the response it is writing
    holds,    \* processes whose pipe ends of kuid's it inherited at fork
    inq, outq \* its two pipes

kvars == <<kpc, turn, cur, left, running, win, shell, retired, serial>>
pvars == <<state, todo, holds>>
vars  == <<kvars, pvars, inq, outq>>

(* A turn of the loop: the mouse, the keys and the timers, of which the    *)
(* model takes one event or none, then poll() and the drawing of a frame.  *)
Turn == <<"input", "poll", "draw">>
Close == 0                      \* the event KUI_EVENT_CLOSE; others are their serial
Following(s) == (s % Serials) + 1
Header == [serial : 0..Serials, chunks : 0..MaxChunks]
Profile == [serial |-> 0, chunks |-> 0]
Chunk == Profile                \* not a header: no exchange has serial 0

Alive(p) == state[p] \in {"read", "work", "write", "runs"}
(* A pipe end of kuid's is open while kuid has it, or any process that     *)
(* inherited it lives: nothing is closed on exec.                          *)
Kept(p) == p \in win \/ p = shell \/ \E q \in Process : Alive(q) /\ p \in holds[q]
Inherited == win \cup (IF shell = None THEN {} ELSE {shell})

Init == /\ kpc = "profile" /\ turn = 1 /\ cur = None /\ left = 0 /\ running = TRUE
        /\ win = {} /\ retired = {}
        /\ shell = CHOOSE s \in Shell : TRUE
        /\ serial = [p \in Process |-> 1]
        /\ state = [p \in Process |-> IF p = shell THEN "work" ELSE "unborn"]
        /\ todo = [p \in Process |-> Profile]
        /\ holds = [p \in Process |-> {}]
        /\ inq = [p \in Process |-> <<>>] /\ outq = [p \in Process |-> <<>>]

----------------------------------------------------------------------------
(* A process: kui_client_read_event(), its work, kui_client_send().        *)

PRead(p) ==
    /\ state[p] = "read"
    /\ inq[p] # <<>> /\ Head(inq[p]) # Close
    /\ inq' = [inq EXCEPT ![p] = Tail(@)]
    /\ state' = [state EXCEPT ![p] = "work"]
    /\ todo' = [todo EXCEPT ![p] = [serial |-> Head(inq[p]), chunks |-> 0]]
    /\ UNCHANGED <<kvars, holds, outq>>

(* A process ends; kuid can still read what it has sent.                   *)
Ends(p) == /\ state' = [state EXCEPT ![p] = "dead"]
           /\ todo' = [todo EXCEPT ![p] = Profile]
           /\ holds' = [holds EXCEPT ![p] = {}]
           /\ inq' = [inq EXCEPT ![p] = <<>>]
           /\ outq' = IF p \in win \/ p = shell THEN outq ELSE [outq EXCEPT ![p] = <<>>]
           /\ UNCHANGED kvars

(* It leaves at the event CLOSE or at the end of its input.                *)
PLeave(p) ==
    /\ state[p] = "read"
    /\ IF inq[p] = <<>> THEN ~Kept(p) ELSE Head(inq[p]) = Close
    /\ Ends(p)

(* The header, then the pieces; SIGPIPE ends it when nobody can read.      *)
PReply(p) ==
    /\ state[p] = "work" /\ Kept(p) /\ Len(outq[p]) < OutCap
    /\ \E n \in IF p \in Shell THEN {0} ELSE 0..MaxChunks :
          /\ outq' = [outq EXCEPT ![p] = Append(@, [todo[p] EXCEPT !.chunks = n])]
          /\ todo' = [todo EXCEPT ![p] = IF n = 0 THEN Profile ELSE [@ EXCEPT !.chunks = n]]
          /\ state' = [state EXCEPT ![p] = IF n = 0 THEN "read" ELSE "write"]
    /\ UNCHANGED <<kvars, holds, inq>>

PChunk(p) ==
    /\ state[p] = "write" /\ Kept(p) /\ Len(outq[p]) < OutCap
    /\ outq' = [outq EXCEPT ![p] = Append(@, Chunk)]
    /\ todo' = [todo EXCEPT ![p] = IF @.chunks = 1 THEN Profile ELSE [@ EXCEPT !.chunks = todo[p].chunks - 1]]
    /\ state' = [state EXCEPT ![p] = IF todo[p].chunks = 1 THEN "read" ELSE "write"]
    /\ UNCHANGED <<kvars, holds, inq>>

PBroken(p) ==
    /\ state[p] \in {"work", "write"} /\ ~Kept(p)
    /\ Ends(p)

PDie(p) ==
    /\ Alive(p)
    /\ Ends(p)

----------------------------------------------------------------------------
(* Parts of kuid's steps.                                                  *)

Pass == turn' = (turn % Len(Turn)) + 1
At(place) == kpc = "loop" /\ Turn[turn] = place /\ (turn = 1 => running)

(* Mutant: retire_window_process() remembers a process it has just reaped. *)
ReleaseMutant(S, notify) ==
    LET ended == {c \in S : state[c] = "dead"}
    IN  /\ win' = win \ S
        /\ inq' = [c \in Process |-> IF c \in S /\ notify /\ Alive(c) THEN Append(inq[c], Close) ELSE inq[c]]
        /\ state' = [c \in Process |-> IF c \in ended THEN "reaped" ELSE state[c]]
        /\ serial' = [c \in Process |-> IF c \in S THEN 1 ELSE serial[c]]
        /\ retired' = retired \cup S

(* release_window_index() of the windows S; notify sends them CLOSE first. *)
(* retire_window_process() reaps a process that has ended, remembers one   *)
(* that has not, and forgets it when the table is full.                    *)
Release(S, notify) ==
    LET ended == {c \in S : state[c] = "dead"}
    IN  /\ win' = win \ S
        /\ inq' = [c \in Process |-> IF c \in S /\ notify /\ Alive(c) THEN Append(inq[c], Close) ELSE inq[c]]
        /\ state' = [c \in Process |-> IF c \in ended THEN "reaped" ELSE state[c]]
        /\ serial' = [c \in Process |-> IF c \in S THEN 1 ELSE serial[c]]
        /\ \E R \in SUBSET (S \ ended) :
              /\ Cardinality(retired \cup R) <= MaxWindows
              /\ R = S \ ended \/ Cardinality(retired \cup R) = MaxWindows
              /\ retired' = retired \cup R

(* An exchange has failed: close_window_index().                           *)
Drop(c) == /\ Release({c}, TRUE)
           /\ kpc' = "loop" /\ cur' = None /\ left' = 0

Answered == kpc' = "loop" /\ cur' = None /\ left' = 0

----------------------------------------------------------------------------
(* send_window_event(): kui_write_all(), then kui_read_all_timeout() of    *)
(* the header and of the commands.                                         *)

Send(c) ==
    /\ At("input")
    /\ c \in win /\ Pass
    /\ IF Alive(c)
       THEN /\ serial' = [serial EXCEPT ![c] = Following(@)]
            /\ inq' = [inq EXCEPT ![c] = Append(@, Following(serial[c]))]
            /\ kpc' = "reply" /\ cur' = c
            /\ UNCHANGED <<left, win, retired, state>>
       ELSE Drop(c)
    /\ UNCHANGED <<running, shell, todo, holds, outq>>

(* open_application(): the new process inherits every pipe end of kuid's.  *)
Open(c) ==
    /\ At("input")
    /\ state[c] = "unborn" /\ Cardinality(win) < MaxWindows /\ Pass
    /\ state' = [state EXCEPT ![c] = "read"]
    /\ holds' = [holds EXCEPT ![c] = Inherited]
    /\ win' = win \cup {c}
    /\ inq' = [inq EXCEPT ![c] = <<serial[c]>>]
    /\ kpc' = "reply" /\ cur' = c
    /\ UNCHANGED <<left, running, shell, retired, serial, todo, outq>>

(* run_exclusive(): a program without a window gets screen and input, and  *)
(* kuid sleeps in waitpid() until it has ended (Wait).                     *)
OpenExclusive(c) ==
    /\ At("input")
    /\ state[c] = "unborn" /\ Pass
    /\ state' = [state EXCEPT ![c] = "runs"]
    /\ holds' = [holds EXCEPT ![c] = Inherited]
    /\ kpc' = "wait" /\ cur' = c
    /\ UNCHANGED <<left, running, win, shell, retired, serial, todo, inq, outq>>

CloseWindow(c) ==
    /\ At("input")
    /\ c \in win /\ Pass
    /\ Release({c}, TRUE)
    /\ UNCHANGED <<kpc, cur, left, running, shell, todo, holds, outq>>

ReadHeader ==
    /\ kpc = "reply" /\ outq[cur] # <<>>
    /\ outq' = [outq EXCEPT ![cur] = Tail(@)]
    /\ LET h == Head(outq[cur])
       IN  \/ /\ h.serial = serial[cur]
              /\ IF h.chunks = 0 THEN Answered
                 ELSE kpc' = "display" /\ left' = h.chunks /\ UNCHANGED cur
              /\ UNCHANGED <<win, retired, state, serial, inq>>
           \/ Drop(cur)     \* another serial, or contents that kuid refuses
    /\ UNCHANGED <<turn, running, shell, todo, holds>>

ReadChunk ==
    /\ kpc = "display" /\ outq[cur] # <<>>
    /\ outq' = [outq EXCEPT ![cur] = Tail(@)]
    /\ \/ /\ IF left = 1 THEN Answered ELSE left' = left - 1 /\ UNCHANGED <<kpc, cur>>
          /\ UNCHANGED <<win, retired, state, serial, inq>>
       \/ left = 1 /\ Drop(cur)
    /\ UNCHANGED <<turn, running, shell, todo, holds>>

(* Mutant: an answer that is late only costs the window a frame.           *)
ExpireMutant ==
    /\ kpc \in {"reply", "display"} /\ outq[cur] = <<>>
    /\ Answered
    /\ UNCHANGED <<turn, running, win, retired, shell, serial, pvars, inq, outq>>

(* Nothing to read: the process has ended or the time is over.             *)
Expire ==
    /\ kpc \in {"reply", "display"} /\ outq[cur] = <<>>
    /\ Drop(cur)
    /\ UNCHANGED <<turn, running, shell, todo, holds, outq>>

----------------------------------------------------------------------------
(* shell_exchange(): the same with the shell, a pointer event or a frame.  *)
(* A failure ends the desktop at the end of the turn.                      *)

ShellFails == running' = FALSE /\ Answered

Ask ==
    /\ At("input") \/ At("draw")
    /\ Pass
    /\ IF Alive(shell)
       THEN /\ serial' = [serial EXCEPT ![shell] = Following(@)]
            /\ kpc' = IF inq[shell] = <<>> THEN "sreply" ELSE "ask"
            /\ inq' = IF inq[shell] = <<>> THEN [inq EXCEPT ![shell] = <<serial'[shell]>>] ELSE inq
            /\ UNCHANGED <<cur, left, running>>
       ELSE ShellFails /\ UNCHANGED <<serial, inq>>
    /\ UNCHANGED <<win, shell, retired, pvars, outq>>

(* kui_write_all() sleeps while an older request fills the pipe.           *)
WriteRequest ==
    /\ kpc = "ask" /\ inq[shell] = <<>>
    /\ IF Alive(shell)
       THEN /\ inq' = [inq EXCEPT ![shell] = <<serial[shell]>>] /\ kpc' = "sreply"
            /\ UNCHANGED <<cur, left, running>>
       ELSE ShellFails /\ UNCHANGED inq
    /\ UNCHANGED <<turn, win, shell, retired, serial, pvars, outq>>

ShellAnswer ==
    /\ kpc = "sreply" /\ outq[shell] # <<>>
    /\ outq' = [outq EXCEPT ![shell] = Tail(@)]
    /\ IF Head(outq[shell]).serial = serial[shell] THEN Answered /\ UNCHANGED running ELSE ShellFails
    /\ UNCHANGED <<turn, win, shell, retired, serial, pvars, inq>>

ShellExpire ==
    /\ kpc = "sreply" /\ outq[shell] = <<>>
    /\ ShellFails
    /\ UNCHANGED <<turn, win, shell, retired, serial, pvars, inq, outq>>

----------------------------------------------------------------------------
(* start_shell() reads the profile; stop_shell() closes the pipes and      *)
(* waits for the process, and so does a start that fails.  No waitpid() of *)
(* these has a deadline.                                                   *)

ReadProfile ==
    /\ kpc = "profile"
    /\ \/ /\ outq[shell] # <<>>
          /\ outq' = [outq EXCEPT ![shell] = Tail(@)]
          /\ kpc' = "loop" /\ UNCHANGED <<turn, cur, running, shell>>
       \/ /\ outq[shell] = <<>>
          /\ kpc' = "wait" /\ cur' = shell /\ shell' = None
          /\ running' = FALSE /\ turn' = 1 /\ UNCHANGED outq
    /\ UNCHANGED <<left, win, retired, serial, pvars, inq>>

Wait ==
    /\ kpc = "wait" /\ state[cur] = "dead"
    /\ state' = [state EXCEPT ![cur] = "reaped"]
    /\ kpc' = "loop" /\ cur' = None
    /\ UNCHANGED <<turn, left, running, win, shell, retired, serial, todo, holds, inq, outq>>

----------------------------------------------------------------------------
(* Mutant: poll_gui_clients() looks at the shell only.                     *)
PollMutant ==
    LET left_over == {c \in retired : state[c] = "dead"}
    IN  /\ At("poll") /\ Pass
        /\ retired' = retired \ left_over
        /\ state' = [p \in Process |-> IF p \in left_over THEN "reaped" ELSE state[p]]
        /\ kpc' = IF state[shell] = "dead" THEN "restart" ELSE "loop"
        /\ UNCHANGED <<cur, left, running, shell, win, serial, todo, holds, inq, outq>>

(* reap_retired_windows() and poll_gui_clients(): windows whose process    *)
(* has gone are taken off; a shell that has gone is started once more.     *)

Poll ==
    LET gone == {c \in win : state[c] = "dead"}
        left_over == {c \in retired : state[c] = "dead"}
    IN  /\ At("poll") /\ Pass
        /\ win' = win \ gone /\ retired' = retired \ left_over
        /\ state' = [p \in Process |-> IF p \in gone \cup left_over THEN "reaped" ELSE state[p]]
        /\ serial' = [p \in Process |-> IF p \in gone THEN 1 ELSE serial[p]]
        /\ kpc' = IF state[shell] = "dead" THEN "restart" ELSE "loop"
        /\ UNCHANGED <<cur, left, running, shell, todo, holds, inq, outq>>

Restart ==
    /\ kpc = "restart"
    /\ LET fresh == {s \in Shell : state[s] = "unborn"}
       IN  IF fresh = {}
           THEN /\ shell' = None /\ running' = FALSE /\ turn' = 1 /\ kpc' = "loop"
                /\ state' = [state EXCEPT ![shell] = "reaped"] /\ UNCHANGED holds
           ELSE \E s \in fresh :
                /\ shell' = s /\ kpc' = "profile"
                /\ state' = [state EXCEPT ![shell] = "reaped", ![s] = "work"]
                /\ holds' = [holds EXCEPT ![s] = win] /\ UNCHANGED <<running, turn>>
    /\ serial' = [serial EXCEPT ![shell] = 1] /\ outq' = [outq EXCEPT ![shell] = <<>>]
    /\ UNCHANGED <<cur, left, win, retired, todo, inq>>

(* Nothing to do in this part of the turn, or the user leaves (Alt+Q).     *)
Skip ==
    /\ At("input") \/ At("draw")
    /\ Pass
    /\ running' \in {running} \cup (IF At("input") THEN {FALSE} ELSE {})
    /\ UNCHANGED <<kpc, cur, left, win, shell, retired, serial, pvars, inq, outq>>

(* After the loop: every window is closed, then the shell is stopped.      *)
Quit ==
    /\ kpc = "loop" /\ turn = 1 /\ ~running
    /\ Release(win, TRUE)
    /\ kpc' = IF shell = None THEN "done" ELSE "wait"
    /\ cur' = shell /\ shell' = None
    /\ UNCHANGED <<turn, left, running, todo, holds, outq>>

Input == \E c \in Client : Send(c) \/ Open(c) \/ OpenExclusive(c) \/ CloseWindow(c)
Exchange == ReadHeader \/ ReadChunk \/ Expire
ShellExchange == WriteRequest \/ ShellAnswer \/ ShellExpire
KuidStep ==
    \/ Input \/ Exchange \/ Ask \/ ShellExchange \/ ReadProfile \/ Wait
    \/ Poll \/ Restart \/ Skip \/ Quit
PStep(p) == PRead(p) \/ PLeave(p) \/ PReply(p) \/ PChunk(p) \/ PBroken(p)

Next == KuidStep \/ \E p \in Process : PStep(p) \/ PDie(p)

Spec == Init /\ [][Next]_vars

(* kuid is scheduled and its deadlines pass; the shell is a program that   *)
(* does not stall.  An application may stop at any point for ever.         *)
ShellStep == \E s \in Shell : PStep(s)
Fairness == WF_vars(KuidStep) /\ WF_vars(ShellStep)
FairSpec == Spec /\ Fairness

----------------------------------------------------------------------------
TypeOK ==
    /\ kpc \in {"profile", "loop", "reply", "display", "ask", "sreply",
                "restart", "wait", "done"}
    /\ turn \in 1..Len(Turn) /\ left \in 0..MaxChunks /\ running \in BOOLEAN
    /\ cur \in Process \cup {None} /\ (kpc \in {"reply", "display"} => cur \in win)
    /\ shell \in Shell \cup {None}
    /\ (shell = None => kpc \in {"wait", "done"} \/ (kpc = "loop" /\ turn = 1 /\ ~running))
    /\ win \subseteq Client /\ Cardinality(win) <= MaxWindows
    /\ retired \subseteq Client \ win /\ Cardinality(retired) <= MaxWindows
    /\ \A p \in Process : Len(outq[p]) <= OutCap
    /\ \A p \in win \cup retired : state[p] # "reaped"

(* kuid and an application stay in step: outside an exchange with it, the  *)
(* pipes of every window are empty and its process waits for an event or   *)
(* is gone.  So the serial of an answer is the one asked for, and kuid     *)
(* never sleeps in write() to an application (kui_write_all() has no       *)
(* deadline): even the event CLOSE after an exchange that failed fits.     *)
InStep ==
    /\ \A c \in win : (kpc \notin {"reply", "display"} \/ cur # c)
          => inq[c] = <<>> /\ outq[c] = <<>> /\ state[c] \in {"read", "dead"}
    /\ \A c \in Client : Len(inq[c]) <= InCap

(* Wherever an application stalls or dies, an exchange with it ends; and a *)
(* window whose process has gone is taken off the screen (shell.c:2174     *)
(* "A client can disappear between poll() and an event write"), unless a   *)
(* program that has the whole screen never ends: kuid then waits for ever. *)
WholeScreen == kpc = "wait" /\ cur \in Client /\ Alive(cur)

DesktopLives ==
    /\ (kpc \in {"reply", "display"}) ~> (kpc = "loop")
    /\ (\A c \in Client : (c \in win /\ state[c] = "dead") ~> (c \notin win)) \/ <>[]WholeScreen

(* README.md:168: "bounded poll-driven response reads prevent a            *)
(* disconnected or stalled client from blocking the display server         *)
(* forever": a desktop that is told to end does end.                       *)
Quits == ~running ~> (kpc = "done")
============================================================================
