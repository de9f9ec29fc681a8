------------------------------ MODULE PtyProofs ------------------------------
(***************************************************************************)
(* Theorems about Pty for every number of processes, every size of the     *)
(* queues, every length of a read or write and every setting in use.       *)
(***************************************************************************)
EXTENDS Pty, WellFoundedInduction, SequenceTheorems, TLAPS

-----------------------------------------------------------------------------
(* Induction over the bytes of a write.                                    *)

LEMMA LeastElement ==
    ASSUME NEW T, T \subseteq Nat, T # {}
    PROVE  \E x \in T : \A y \in T : x <= y
<1> DEFINE R == {p \in Nat \X Nat : p[1] < p[2]}
<1>1. R = OpToRel(<, Nat)
  BY DEF OpToRel
<1>2. IsWellFoundedOn(R, Nat)
  BY <1>1, NatLessThanWellFounded
<1>3. PICK x \in T : \A y \in T : ~(<<y, x>> \in R)
  <2> HIDE DEF R
  <2> QED
    BY <1>2, WFMin
<1>4. \A y \in T : ~(y < x)
  <2> TAKE y \in T
  <2>1. <<y, x>> \in Nat \X Nat
    OBVIOUS
  <2> QED
    BY <1>3, <2>1
<1> QED
  BY <1>4

\* Induction up to n, for the set T of the numbers of which something holds.
LEMMA UpTo ==
    ASSUME NEW n \in Nat, NEW T, 0 \in T, \A i \in 0 .. n : i \in T /\ i < n => i + 1 \in T
    PROVE  0 .. n \subseteq T
<1> SUFFICES ASSUME (0 .. n) \ T # {} PROVE FALSE
  OBVIOUS
<1>1. PICK x \in (0 .. n) \ T : \A y \in (0 .. n) \ T : x <= y
  <2>1. (0 .. n) \ T \subseteq Nat
    OBVIOUS
  <2> QED
    BY <2>1, LeastElement
<1>2. x # 0 /\ x - 1 \in 0 .. n /\ x - 1 < x /\ x - 1 < n /\ (x - 1) + 1 = x
  BY <1>1
<1>3. x - 1 \in T
  BY <1>1, <1>2
<1> QED
  BY <1>1, <1>2, <1>3

\* A sequence of steps, each of which keeps to S, can be taken one by one.
Keeps(n, S, step) == \A i \in 1 .. n, x \in S : step[i][x] \in S

Iterates(n, S, a, step, f) ==
    f \in [0 .. n -> S] /\ f[0] = a /\ \A i \in 1 .. n : f[i] = step[i][f[i - 1]]

LEMMA Iterate ==
    ASSUME NEW n \in Nat, NEW S, NEW a \in S, NEW step, Keeps(n, S, step)
    PROVE  \E f : Iterates(n, S, a, step, f)
<1> USE DEF Keeps, Iterates
<1> DEFINE T == {k \in 0 .. n : \E f \in [0 .. k -> S] :
                                   f[0] = a /\ \A i \in 1 .. k : f[i] = step[i][f[i - 1]]}
<1>1. 0 \in T
  <2> DEFINE f == [j \in 0 .. 0 |-> a]
  <2>1. f \in [0 .. 0 -> S] /\ f[0] = a /\ \A i \in 1 .. 0 : f[i] = step[i][f[i - 1]]
    OBVIOUS
  <2> HIDE DEF f
  <2> QED
    BY <2>1
<1>2. ASSUME NEW k \in 0 .. n, k \in T, k < n PROVE k + 1 \in T
  <2>1. PICK f \in [0 .. k -> S] : f[0] = a /\ \A i \in 1 .. k : f[i] = step[i][f[i - 1]]
    BY <1>2
  <2> DEFINE g == [j \in 0 .. k + 1 |-> IF j = k + 1 THEN step[k + 1][f[k]] ELSE f[j]]
  <2>2. f[k] \in S /\ k + 1 \in 1 .. n
    BY <1>2
  <2>3. step[k + 1][f[k]] \in S
    BY <2>2
  <2>4. g \in [0 .. k + 1 -> S]
    BY <2>1, <2>3
  <2>5. g[0] = a
    BY <2>1
  <2>6. ASSUME NEW i \in 1 .. k + 1 PROVE g[i] = step[i][g[i - 1]]
    <3>1. i - 1 \in 0 .. k + 1 /\ i - 1 # k + 1 /\ i \in 0 .. k + 1
      BY <1>2
    <3>2. g[i - 1] = f[i - 1]
      BY <3>1
    <3>3. CASE i = k + 1
      <4>1. i - 1 = k
        BY <1>2, <3>3
      <4> QED
        BY <3>1, <3>2, <3>3, <4>1
    <3>4. CASE i # k + 1
      <4>1. i \in 1 .. k
        BY <1>2, <3>4
      <4> QED
        BY <2>1, <3>1, <3>2, <3>4, <4>1
    <3> QED
      BY <3>3, <3>4
  <2> HIDE DEF g
  <2> QED
    BY <1>2, <2>2, <2>4, <2>5, <2>6
<1>3. n \in T
  <2> HIDE DEF T
  <2>1. 0 .. n \subseteq T
    BY <1>1, <1>2, UpTo
  <2> QED
    BY <2>1
<1> QED
  BY <1>3

-----------------------------------------------------------------------------
(* The line discipline.                                                    *)

Disciplines == [in : 0 .. Size, out : 0 .. Size, line : 0 .. Size, eof : BOOLEAN,
                left : Seq(Byte), sig : BOOLEAN, echoed : BOOLEAN, cleared : BOOLEAN]

Full(st) == st.in >= Size \/ (termios.icanon /\ LineFull(st))

\* The byte b is refused.
Refuses(st, b, t) == Full(t) /\ t = [st EXCEPT !.left = Append(@, b)]

\* A byte is taken.
Takes(st, t) ==
    /\ st.left = <<>> /\ st.in < Size /\ t.left = <<>>
    /\ st.in + st.line <= Size /\ (st.line > 0 => termios.icanon) => t.in + t.line <= Size
    /\ t.line > 0 => st.line > 0 \/ termios.icanon
    /\ ~t.echoed => ~st.echoed /\ (t.out = st.out \/ t.out = 0)
    /\ ~t.cleared => ~st.cleared /\ t.out >= st.out

TermiosSet == [icanon : BOOLEAN, echo : BOOLEAN, isig : BOOLEAN, noflsh : BOOLEAN, tostop : BOOLEAN]

LEMMA DisciplineFields ==
    ASSUME NEW st \in Disciplines
    PROVE  /\ st.in \in 0 .. Size /\ st.out \in 0 .. Size /\ st.line \in 0 .. Size
           /\ st.eof \in BOOLEAN /\ st.left \in Seq(Byte)
           /\ st.sig \in BOOLEAN /\ st.echoed \in BOOLEAN /\ st.cleared \in BOOLEAN
BY DEF Disciplines

\* Echoing changes the output queue only.
LEMMA EchoedFacts ==
    ASSUME NEW st \in Disciplines, NEW n \in Nat, termios \in TermiosSet
    PROVE  LET t == Echoed(st, n)
           IN  /\ t \in Disciplines
               /\ t.in = st.in /\ t.line = st.line /\ t.left = st.left /\ t.eof = st.eof
               /\ t.sig = st.sig /\ t.cleared = st.cleared
               /\ st.echoed => t.echoed
               /\ t.out >= st.out
               /\ ~t.echoed => t.out = st.out
<1>1. Size \in Nat
  BY PtyAssumption
<1>2. Least(Size, st.out + n) \in 0 .. Size /\ Least(Size, st.out + n) >= st.out
  BY <1>1, DisciplineFields DEF Least
<1>3. CASE termios.echo
  BY <1>2, <1>3 DEF Echoed, Disciplines
<1>4. CASE ~termios.echo
  BY <1>4 DEF Echoed, Disciplines
<1> QED
  BY <1>3, <1>4

LEMMA FlushedFacts ==
    ASSUME NEW st \in Disciplines
    PROVE  LET t == Flushed(st)
           IN  /\ t \in Disciplines
               /\ t.out = st.out /\ t.line = 0 /\ t.left = st.left /\ t.cleared = st.cleared
               /\ t.echoed = st.echoed
<1>1. Size \in Nat
  BY PtyAssumption
<1> DEFINE k == Least(Size, st.in + st.line)
<1>2. k \in 0 .. Size
  BY <1>1, DisciplineFields DEF Least
<1> DEFINE u == [st EXCEPT !.in = k]
<1>3. Flushed(st) = [u EXCEPT !.line = 0]
  BY DEF Flushed
<1> HIDE DEF k
<1>4. /\ u \in Disciplines /\ u.out = st.out /\ u.left = st.left
      /\ u.cleared = st.cleared /\ u.echoed = st.echoed
  BY <1>2 DEF Disciplines
<1> HIDE DEF u
<1> QED
  BY <1>1, <1>3, <1>4 DEF Disciplines

LEMMA TypedFacts ==
    ASSUME termios \in TermiosSet, NEW st \in Disciplines, NEW b \in Byte, st.left # <<>> => Full(st)
    PROVE  /\ Typed(st, b) \in Disciplines
           /\ Refuses(st, b, Typed(st, b)) \/ Takes(st, Typed(st, b))
<1> DEFINE t == Typed(st, b)
           line == termios.icanon /\ b \notin {"erase", "kill", "eof"}
           refused == [st EXCEPT !.left = Append(@, b)]
           cut == [st EXCEPT !.left = <<b>>]
           cleared == [st EXCEPT !.sig = TRUE, !.in = 0, !.out = 0, !.line = 0, !.cleared = TRUE]
           intr == Echoed(IF termios.noflsh THEN [st EXCEPT !.sig = TRUE] ELSE cleared, 3)
           erase == Echoed([st EXCEPT !.line = @ - 1], 3)
           kill == Echoed([st EXCEPT !.line = 0], 1)
           ended == [st EXCEPT !.eof = TRUE]
           flushed == Flushed(st)
           longer == Echoed([st EXCEPT !.line = @ + 1], 1)
           raw == [st EXCEPT !.in = @ + 1]
<1> SUFFICES t \in Disciplines /\ (Refuses(st, b, t) \/ Takes(st, t))
  OBVIOUS
<1>0. t = IF st.left # <<>> \/ st.in >= Size THEN refused
          ELSE IF b = "intr" /\ termios.isig THEN intr
          ELSE IF ~termios.icanon THEN raw
          ELSE CASE b = "erase" -> IF st.line = 0 THEN st ELSE erase
                 [] b = "kill" -> kill
                 [] b = "eof" -> IF st.line = 0 THEN ended ELSE flushed
                 [] OTHER -> IF LineFull(st) THEN cut
                             ELSE IF b = "newline" THEN Flushed(longer) ELSE longer
  BY Zenon DEF Typed
<1> HIDE DEF t, refused, cut, cleared, intr, erase, kill, ended, flushed, longer, raw
<1>1. Size \in Nat \ {0}
  BY PtyAssumption
<1>2. /\ st.in \in 0 .. Size /\ st.out \in 0 .. Size /\ st.line \in 0 .. Size
      /\ st.left \in Seq(Byte)
      /\ st.echoed \in BOOLEAN /\ st.cleared \in BOOLEAN
  BY DisciplineFields
<1>3. CASE st.left # <<>> \/ st.in >= Size
  <2>1. t = [st EXCEPT !.left = Append(@, b)]
    BY <1>0, <1>3 DEF refused
  <2>2. t \in Disciplines
    BY SMTT(30), <2>1 DEF Disciplines
  <2>3. Full(t)
    BY <1>3, <2>1 DEF Full, LineFull, Disciplines
  <2> QED
    BY <2>1, <2>2, <2>3 DEF Refuses
<1> DEFINE room == st.left = <<>> /\ ~(st.in >= Size)
<1>4. CASE room /\ b = "intr" /\ termios.isig
  <2> DEFINE u == IF termios.noflsh THEN [st EXCEPT !.sig = TRUE] ELSE cleared
  <2>1. t = Echoed(u, 3)
    <3>1. t = intr
      BY <1>0, <1>4
    <3> QED
      BY <3>1 DEF intr
  <2>2. cleared \in Disciplines /\ cleared.left = <<>> /\ cleared.in = 0 /\ cleared.out = 0
        /\ cleared.line = 0 /\ cleared.cleared /\ cleared.echoed = st.echoed
    <3> DEFINE v == [st EXCEPT !.in = 0]
               w == [v EXCEPT !.out = 0]
    <3>1. cleared = [w EXCEPT !.sig = TRUE, !.line = 0, !.cleared = TRUE]
      BY DEF cleared, Disciplines
    <3>2. v \in Disciplines /\ v.left = <<>> /\ v.in = 0 /\ v.echoed = st.echoed
      BY <1>1, <1>4 DEF Disciplines
    <3> HIDE DEF v
    <3>3. w \in Disciplines /\ w.left = <<>> /\ w.in = 0 /\ w.out = 0 /\ w.echoed = st.echoed
      BY <1>1, <3>2 DEF Disciplines
    <3> DEFINE x == [w EXCEPT !.line = 0]
    <3> HIDE DEF w
    <3>4. x \in Disciplines /\ x.left = <<>> /\ x.in = 0 /\ x.out = 0 /\ x.line = 0 /\ x.echoed = st.echoed
      BY <1>1, <3>3 DEF Disciplines
    <3>5. cleared = [x EXCEPT !.sig = TRUE, !.cleared = TRUE]
      BY <3>1, <3>3 DEF Disciplines
    <3> HIDE DEF x
    <3> QED
      BY <3>4, <3>5 DEF Disciplines
  <2>3. /\ u \in Disciplines /\ u.left = <<>> /\ u.echoed = st.echoed
        /\ u.out = st.out \/ (u.out = 0 /\ u.cleared)
        /\ ~u.cleared => ~st.cleared
        /\ u.in <= st.in /\ u.line <= st.line
        /\ u.line > 0 => st.line > 0
    <3>1. CASE termios.noflsh
      <4>1. u = [st EXCEPT !.sig = TRUE]
        BY <3>1
      <4> HIDE DEF u
      <4>2. /\ u \in Disciplines /\ u.left = st.left /\ u.echoed = st.echoed /\ u.out = st.out
            /\ u.cleared = st.cleared /\ u.in = st.in /\ u.line = st.line
        BY <4>1 DEF Disciplines
      <4> QED
        BY <1>1, <1>2, <1>4, <4>2
    <3>2. CASE ~termios.noflsh
      <4>1. u = cleared
        BY <3>2
      <4> HIDE DEF u
      <4> QED
        BY <1>2, <1>4, <2>2, <4>1
    <3> QED
      BY <3>1, <3>2
  <2> HIDE DEF u
  <2>4. /\ t \in Disciplines /\ t.in = u.in /\ t.line = u.line /\ t.left = u.left
        /\ t.cleared = u.cleared /\ t.out >= u.out
        /\ u.echoed => t.echoed
        /\ ~t.echoed => t.out = u.out
    BY <2>1, <2>3, EchoedFacts
  <2>5. u.in \in Nat /\ u.line \in Nat /\ u.out \in Nat
    BY <2>3, DisciplineFields, <1>1
  <2> QED
    BY <1>1, <1>2, <1>4, <2>3, <2>4, <2>5 DEF Takes
<1> DEFINE plain == room /\ ~(b = "intr" /\ termios.isig)
<1>5. CASE plain /\ b = "erase" /\ termios.icanon
  <2>1. CASE st.line = 0
    <3>1. t = st
      BY <1>0, <1>5, <2>1
    <3> QED
      BY <1>1, <1>2, <1>5, <3>1 DEF Takes
  <2>2. CASE st.line # 0
    <3> DEFINE u == [st EXCEPT !.line = @ - 1]
    <3>1. t = Echoed(u, 3)
      BY <1>0, <1>5, <2>2 DEF erase
    <3>2. /\ u \in Disciplines /\ u.left = <<>> /\ u.echoed = st.echoed /\ u.out = st.out
          /\ u.cleared = st.cleared /\ u.in = st.in /\ u.line = st.line - 1
      BY <1>1, <1>2, <1>5, <2>2 DEF Disciplines
    <3> HIDE DEF u
    <3>3. /\ t \in Disciplines /\ t.in = u.in /\ t.line = u.line /\ t.left = u.left
          /\ t.cleared = u.cleared /\ t.out >= u.out
          /\ u.echoed => t.echoed
          /\ ~t.echoed => t.out = u.out
      BY <3>1, <3>2, EchoedFacts
    <3> QED
      BY <1>1, <1>2, <1>5, <2>2, <3>2, <3>3 DEF Takes
  <2> QED
    BY <2>1, <2>2
<1>6. CASE plain /\ b = "kill" /\ termios.icanon
  <2> DEFINE u == [st EXCEPT !.line = 0]
  <2>1. t = Echoed(u, 1)
    BY <1>0, <1>6 DEF kill
  <2>2. /\ u \in Disciplines /\ u.left = <<>> /\ u.echoed = st.echoed /\ u.out = st.out
        /\ u.cleared = st.cleared /\ u.in = st.in /\ u.line = 0
    BY <1>1, <1>2, <1>6 DEF Disciplines
  <2> HIDE DEF u
  <2>3. /\ t \in Disciplines /\ t.in = u.in /\ t.line = u.line /\ t.left = u.left
        /\ t.cleared = u.cleared /\ t.out >= u.out
        /\ u.echoed => t.echoed
        /\ ~t.echoed => t.out = u.out
    BY <2>1, <2>2, EchoedFacts
  <2> QED
    BY <1>1, <1>2, <1>6, <2>2, <2>3 DEF Takes
<1>7. CASE plain /\ b = "eof" /\ termios.icanon
  <2>1. CASE st.line = 0
    <3>1. t = [st EXCEPT !.eof = TRUE]
      BY <1>0, <1>7, <2>1 DEF ended
    <3>2. /\ t \in Disciplines /\ t.left = <<>> /\ t.echoed = st.echoed /\ t.out = st.out
          /\ t.cleared = st.cleared /\ t.in = st.in /\ t.line = 0
      BY <1>1, <1>2, <1>7, <2>1, <3>1 DEF Disciplines
    <3> QED
      BY <1>1, <1>2, <1>7, <2>1, <3>2 DEF Takes
  <2>2. CASE st.line # 0
    <3>1. t = Flushed(st)
      BY <1>0, <1>7, <2>2 DEF flushed
    <3>2. /\ t \in Disciplines
          /\ t.out = st.out /\ t.line = 0 /\ t.left = st.left /\ t.cleared = st.cleared
          /\ t.echoed = st.echoed
      BY <3>1, FlushedFacts
    <3>3. t.in \in 0 .. Size
      BY <3>2, DisciplineFields
    <3> QED
      BY <1>1, <1>2, <1>7, <3>2, <3>3 DEF Takes
  <2> QED
    BY <2>1, <2>2
<1>8. CASE plain /\ line /\ LineFull(st)
  <2>1. t = [st EXCEPT !.left = <<b>>]
    BY <1>0, <1>8 DEF cut
  <2>2. <<b>> = Append(st.left, b)
    BY <1>8
  <2>3. t = [st EXCEPT !.left = Append(@, b)]
    BY <2>1, <2>2 DEF Disciplines
  <2>4. t \in Disciplines /\ t.in = st.in /\ t.line = st.line
    BY SMTT(30), <2>3 DEF Disciplines
  <2>5. Full(t)
    BY <1>8, <2>4 DEF Full, LineFull
  <2> QED
    BY <2>3, <2>4, <2>5 DEF Refuses
<1>9. CASE plain /\ line /\ ~LineFull(st)
  <2> DEFINE v == [st EXCEPT !.line = @ + 1]
             u == Echoed(v, 1)
  <2>1. t = IF b = "newline" THEN Flushed(u) ELSE u
    BY <1>0, <1>9 DEF longer
  <2>2. st.line + 1 \in 0 .. Size /\ st.in + (st.line + 1) <= Size
    BY <1>1, <1>2, <1>9 DEF LineFull
  <2>3. /\ v \in Disciplines /\ v.left = <<>> /\ v.echoed = st.echoed /\ v.out = st.out
        /\ v.cleared = st.cleared /\ v.in = st.in /\ v.line = st.line + 1
    BY <1>1, <1>2, <1>9, <2>2 DEF Disciplines
  <2> HIDE DEF v
  <2>4. /\ u \in Disciplines /\ u.in = v.in /\ u.line = v.line /\ u.left = v.left
        /\ u.cleared = v.cleared /\ u.out >= v.out
        /\ v.echoed => u.echoed
        /\ ~u.echoed => u.out = v.out
    BY <2>3, EchoedFacts
  <2> HIDE DEF u
  <2>5. /\ t \in Disciplines /\ t.out = u.out /\ t.left = <<>>
        /\ t.cleared = u.cleared /\ t.echoed = u.echoed
        /\ (t.in = u.in /\ t.line = u.line) \/ t.line = 0
    BY <2>1, <2>3, <2>4, FlushedFacts
  <2>6. t.in \in 0 .. Size
    BY <2>5, DisciplineFields
  <2> QED
    BY <1>1, <1>2, <1>9, <2>2, <2>3, <2>4, <2>5, <2>6 DEF Takes
<1>10. CASE plain /\ ~termios.icanon
  <2>1. t = [st EXCEPT !.in = @ + 1]
    BY <1>0, <1>10 DEF raw
  <2>2. /\ t \in Disciplines /\ t.left = <<>> /\ t.echoed = st.echoed /\ t.out = st.out
        /\ t.cleared = st.cleared /\ t.in = st.in + 1 /\ t.line = st.line
    BY <1>1, <1>2, <1>10, <2>1 DEF Disciplines
  <2> QED
    BY <1>1, <1>2, <1>10, <2>2 DEF Takes
<1> QED
  BY <1>3, <1>4, <1>5, <1>6, <1>7, <1>8, <1>9, <1>10 DEF TermiosSet

\* What n bytes have made of the state a, t now.
Since(a, t, n) ==
    /\ t \in Disciplines
    /\ t.left # <<>> => Full(t)
    /\ a.in + a.line <= Size /\ (a.line > 0 => termios.icanon) => t.in + t.line <= Size
    /\ t.line > 0 => a.line > 0 \/ termios.icanon
    /\ ~t.echoed => t.out = a.out \/ t.out = 0
    /\ ~t.cleared => t.out >= a.out
    /\ Len(t.left) <= n
    /\ Len(t.left) = n => /\ t.in = a.in /\ t.out = a.out /\ t.line = a.line /\ t.eof = a.eof
                          /\ ~t.echoed /\ ~t.cleared
    /\ a.in >= Size => Len(t.left) = n

LEMMA SinceStep ==
    ASSUME termios \in TermiosSet, NEW a \in Disciplines, NEW t, NEW n \in Nat, NEW b \in Byte,
           Since(a, t, n)
    PROVE  Since(a, Typed(t, b), n + 1)
<1> DEFINE u == Typed(t, b)
<1> SUFFICES Since(a, u, n + 1)
  OBVIOUS
<1>1. Size \in Nat \ {0}
  BY PtyAssumption
<1>2. t \in Disciplines /\ (t.left # <<>> => Full(t))
  BY DEF Since
<1>3. u \in Disciplines /\ (Refuses(t, b, u) \/ Takes(t, u))
  BY <1>2, TypedFacts
<1> HIDE DEF u
<1>4. /\ t.in \in 0 .. Size /\ t.out \in 0 .. Size /\ t.line \in 0 .. Size
      /\ u.in \in 0 .. Size /\ u.out \in 0 .. Size /\ u.line \in 0 .. Size
      /\ a.in \in 0 .. Size /\ a.out \in 0 .. Size /\ a.line \in 0 .. Size
      /\ t.left \in Seq(Byte) /\ u.left \in Seq(Byte)
  BY <1>2, <1>3, DisciplineFields
<1>5. CASE Refuses(t, b, u)
  <2>1. /\ u.left = Append(t.left, b) /\ u.in = t.in /\ u.out = t.out /\ u.line = t.line
        /\ u.eof = t.eof /\ u.echoed = t.echoed /\ u.cleared = t.cleared
    BY <1>2, <1>5 DEF Refuses, Disciplines
  <2>2. Len(u.left) = Len(t.left) + 1
    BY <1>4, <2>1
  <2>3. Full(u)
    BY <1>5 DEF Refuses
  <2>4. Len(t.left) \in Nat
    BY <1>4
  <2> QED
    BY <1>3, <1>4, <2>1, <2>2, <2>3, <2>4 DEF Since
<1>6. CASE Takes(t, u)
  <2>1. Len(t.left) = 0 /\ Len(u.left) = 0
    BY <1>6 DEF Takes
  <2>2. ~(a.in >= Size)
    <3> SUFFICES ASSUME a.in >= Size PROVE FALSE
      OBVIOUS
    <3>1. n = 0 /\ t.in = a.in
      BY <2>1 DEF Since
    <3> QED
      BY <1>1, <1>4, <1>6, <3>1 DEF Takes
  <2>3. a.in + a.line <= Size /\ (a.line > 0 => termios.icanon) => u.in + u.line <= Size
    BY <1>6 DEF Since, Takes
  <2>4. u.line > 0 => a.line > 0 \/ termios.icanon
    BY <1>6 DEF Since, Takes
  <2>5. ~u.echoed => u.out = a.out \/ u.out = 0
    BY <1>6 DEF Since, Takes
  <2>6. ~u.cleared => u.out >= a.out
    BY <1>1, <1>4, <1>6 DEF Since, Takes
  <2>7. u.left = <<>>
    BY <1>6 DEF Takes
  <2> QED
    BY <1>3, <2>1, <2>2, <2>3, <2>4, <2>5, <2>6, <2>7 DEF Since
<1> QED
  BY <1>3, <1>5, <1>6

Start == [in |-> slave_input, out |-> master_input, line |-> canonical_length,
          eof |-> slave_eof_pending, left |-> <<>>,
          sig |-> FALSE, echoed |-> FALSE, cleared |-> FALSE]

\* The states after each of the bytes exist, and are what Typed makes of them.
LEMMA DisciplineSteps ==
    ASSUME termios \in TermiosSet, Start \in Disciplines, NEW s \in Seq(Byte)
    PROVE  \E g : /\ g[0] = Start
                  /\ \A i \in 1 .. Len(s) : g[i] = Typed(g[i - 1], s[i])
                  /\ Discipline(s) = g[Len(s)]
<1> DEFINE n == Len(s)
           S == {st \in Disciplines : st.left # <<>> => Full(st)}
           step == [i \in 1 .. n |-> [x \in S |-> Typed(x, s[i])]]
           F(g) == g = [i \in 0 .. n |-> IF i = 0 THEN Start ELSE Typed(g[i - 1], s[i])]
<1>1. n \in Nat /\ \A i \in 1 .. n : s[i] \in Byte
  OBVIOUS
<1>2. Start \in S
  BY DEF Start
<1>3. ASSUME NEW x \in S, NEW b \in Byte PROVE Typed(x, b) \in S
  <2>1. x \in Disciplines /\ (x.left # <<>> => Full(x))
    OBVIOUS
  <2> DEFINE u == Typed(x, b)
  <2>2. u \in Disciplines /\ (Refuses(x, b, u) \/ Takes(x, u))
    BY <2>1, TypedFacts
  <2> HIDE DEF u
  <2>3. u.left # <<>> => Full(u)
    BY <2>2 DEF Refuses, Takes
  <2> QED
    BY <2>2, <2>3 DEF u
<1> HIDE DEF n, S
<1>4. \A i \in 1 .. n, x \in S : step[i][x] \in S
  BY <1>1, <1>3
<1>5. PICK g : g \in [0 .. n -> S] /\ g[0] = Start /\ \A i \in 1 .. n : g[i] = step[i][g[i - 1]]
  <2> HIDE DEF step
  <2>1. n \in Nat
    BY <1>1
  <2>2. Keeps(n, S, step)
    BY <1>4 DEF Keeps
  <2>3. PICK g : Iterates(n, S, Start, step, g)
    BY <1>2, <2>1, <2>2, Iterate
  <2> QED
    BY <2>3 DEF Iterates
<1>6. ASSUME NEW i \in 1 .. n PROVE g[i] = Typed(g[i - 1], s[i])
  <2>1. i - 1 \in 0 .. n
    BY <1>1
  <2>2. g[i - 1] \in S
    BY <1>5, <2>1
  <2> QED
    BY <1>5, <2>2
<1>7. F(g)
  <2>1. ASSUME NEW i \in 0 .. n PROVE g[i] = IF i = 0 THEN Start ELSE Typed(g[i - 1], s[i])
    <3>1. CASE i = 0
      BY <1>5, <3>1
    <3>2. CASE i # 0
      <4>1. i \in 1 .. n
        BY <1>1, <3>2
      <4> QED
        BY <1>6, <3>2, <4>1
    <3> QED
      BY <3>1, <3>2
  <2> DEFINE h == [i \in 0 .. n |-> IF i = 0 THEN Start ELSE Typed(g[i - 1], s[i])]
  <2>2. \A i \in 0 .. n : g[i] = h[i]
    BY <2>1
  <2>3. g = h
    <3> HIDE DEF n, S
    <3> QED
      BY <1>5, <2>1, Zenon
  <2> QED
    BY <2>3
<1> DEFINE after == CHOOSE f : F(f)
<1>8. F(after)
  BY <1>7, Zenon
<1>9. Discipline(s) = after[n]
  BY DEF Discipline, Start, n
<1> HIDE DEF after
<1>10. after[0] = Start /\ \A i \in 1 .. n : after[i] = Typed(after[i - 1], s[i])
  <2>1. 0 \in 0 .. n /\ \A i \in 1 .. n : i \in 0 .. n /\ i # 0
    BY <1>1
  <2> QED
    BY <1>8, <2>1
<1> QED
  BY <1>9, <1>10 DEF n

LEMMA DisciplineFacts ==
    ASSUME termios \in TermiosSet, Start \in Disciplines, NEW s \in Seq(Byte)
    PROVE  Since(Start, Discipline(s), Len(s))
<1>1. PICK g : /\ g[0] = Start
               /\ \A i \in 1 .. Len(s) : g[i] = Typed(g[i - 1], s[i])
               /\ Discipline(s) = g[Len(s)]
  BY DisciplineSteps
<1> DEFINE n == Len(s)
           T == {i \in 0 .. n : Since(Start, g[i], i)}
<1>2. n \in Nat
  OBVIOUS
<1>3. 0 \in T
  <2>1. Size \in Nat
    BY PtyAssumption
  <2>2. /\ Start.left = <<>> /\ Start.in \in 0 .. Size /\ Start.out \in 0 .. Size
        /\ Start.line \in 0 .. Size /\ ~Start.echoed /\ ~Start.cleared
    BY DisciplineFields DEF Start
  <2>3. Since(Start, Start, 0)
    BY <2>1, <2>2 DEF Since
  <2> QED
    BY <1>1, <1>2, <2>3
<1>4. ASSUME NEW i \in 0 .. n, i \in T, i < n PROVE i + 1 \in T
  <2>1. i + 1 \in 1 .. n /\ i + 1 \in 0 .. n /\ (i + 1) - 1 = i /\ i \in Nat
    BY <1>2, <1>4
  <2>2. s[i + 1] \in Byte
    BY <2>1
  <2>3. Since(Start, Typed(g[i], s[i + 1]), i + 1)
    BY <1>4, <2>1, <2>2, SinceStep
  <2> QED
    BY <1>1, <2>1, <2>3
<1>5. 0 .. n \subseteq T
  <2> HIDE DEF T, n
  <2> QED
    BY <1>2, <1>3, <1>4, UpTo
<1> QED
  BY <1>1, <1>2, <1>5

-----------------------------------------------------------------------------
(* The inductive invariant.                                                *)

Kinds == Byte \cup {"char"}
Waits == {"read", "write"} \cup Polls

\* The line being edited can be longer than what is left of the queue, or
\* outlive ICANON, only after ICANON was switched off in the middle of it.
Queues ==
    /\ slave_input \in 0 .. Size /\ master_input \in 0 .. Size
    /\ canonical_length \in 0 .. Size
    /\ (slave_input + canonical_length <= Size \/ stranded)
    /\ (canonical_length > 0 => termios.icanon \/ stranded)
    /\ slave_eof_pending \in BOOLEAN /\ termios \in Modes
    /\ foreground_group \in Job \cup {None} /\ stranded \in BOOLEAN

\* A read that sleeps asks for something.
Tasks ==
    /\ pc \in [Proc -> {"user", "gone"} \cup Waits]
    /\ asleep \in [Proc -> BOOLEAN] /\ signalled \in [Proc -> BOOLEAN]
    /\ todo \in [Proc -> Seq(Kinds)]
    /\ \A p \in Proc : asleep[p] => pc[p] \in Waits
    /\ \A p \in Proc : pc[p] = "read" => Len(todo[p]) > 0
    /\ \A p \in Proc : pc[p] = "write" /\ p \in Terminal => todo[p] \in Seq(Byte)

NoInput(p) == IF p \in Terminal THEN master_input = 0 ELSE slave_input = 0 /\ ~slave_eof_pending
NoRoom(p) == IF p \in Terminal
             THEN slave_input + (IF termios.icanon THEN canonical_length ELSE 0) >= Size
             ELSE master_input >= Size

\* NoLostWakeup for p, by what a call waits for.
Dozing(p) ==
    asleep[p] => /\ ~signalled[p] /\ Peers(p) # {}
                 /\ pc[p] \in {"read", "pollin"} => NoInput(p)
                 /\ pc[p] = "pollout" => NoRoom(p)
                 /\ pc[p] = "write" => NoRoom(p) \/ p \in skipped

IInv == Queues /\ Tasks /\ \A p \in Proc : Dozing(p)

LEMMA Sizes == Size \in Nat \ {0} /\ MaxCount \in Nat \ {0}
BY PtyAssumption

LEMMA ModeFields == ASSUME NEW m \in Modes PROVE m \in TermiosSet
BY PtyAssumption DEF TermiosSet

LEMMA BytesAre ==
    ASSUME NEW n \in Nat
    PROVE  Bytes(n) \in Seq(Kinds) /\ Len(Bytes(n)) = n
BY DEF Bytes, Kinds

LEMMA InitIInv == Init => IInv
<1> SUFFICES ASSUME Init PROVE IInv
  OBVIOUS
<1>1. Queues
  <2>1. Default \in Modes
    BY PtyAssumption
  <2>2. slave_input = 0 /\ master_input = 0 /\ canonical_length = 0 /\ 0 + 0 <= Size /\ 0 \in 0 .. Size
    BY Sizes DEF Init
  <2>3. /\ slave_eof_pending = FALSE /\ termios = Default /\ foreground_group = None
        /\ stranded = FALSE
    BY DEF Init
  <2>4. slave_input \in 0 .. Size /\ master_input \in 0 .. Size /\ canonical_length \in 0 .. Size
    BY <2>2
  <2>5. slave_input + canonical_length <= Size /\ ~(canonical_length > 0)
    BY <2>2
  <2>6. slave_eof_pending \in BOOLEAN /\ stranded \in BOOLEAN
    BY <2>3
  <2>7. termios \in Modes /\ foreground_group \in Job \cup {None}
    BY <2>1, <2>3
  <2> QED
    BY <2>4, <2>5, <2>6, <2>7 DEF Queues
<1>2. Tasks
  BY DEF Init, Tasks, Waits, Polls
<1>3. \A p \in Proc : Dozing(p)
  BY DEF Init, Dozing
<1> QED
  BY <1>1, <1>2, <1>3 DEF IInv

LEMMA IInvProperties == IInv => TypeOK /\ NoLostWakeup
<1> SUFFICES ASSUME IInv PROVE TypeOK /\ NoLostWakeup
  OBVIOUS
<1>1. TypeOK
  BY DEF IInv, Queues, Tasks, Waits, TypeOK
<1>2. ASSUME NEW p \in Proc, asleep[p]
      PROVE  /\ ~signalled[p] /\ Peers(p) # {}
             /\ pc[p] = "read" => ~Ready(p, "pollin")
             /\ pc[p] = "write" => ~Ready(p, "pollout") \/ p \in skipped
             /\ pc[p] \in Polls => ~Ready(p, pc[p])
  <2>1. Dozing(p)
    BY DEF IInv
  <2>2. NoInput(p) => ~(IF p \in Terminal THEN master_input > 0 ELSE slave_input > 0 \/ slave_eof_pending)
    BY Sizes DEF NoInput, IInv, Queues
  <2>3. NoRoom(p) => ~(IF p \in Terminal
                       THEN slave_input + (IF termios.icanon THEN canonical_length ELSE 0) < Size
                       ELSE master_input < Size)
    BY Sizes DEF NoRoom, IInv, Queues
  <2> QED
    BY <1>2, <2>1, <2>2, <2>3 DEF Dozing, Ready, Polls
<1> QED
  BY <1>1, <1>2 DEF NoLostWakeup

-----------------------------------------------------------------------------
(* Returning and sleeping.                                                 *)

LEMMA ReturnTasks ==
    ASSUME Tasks, NEW p \in Proc, NEW W, NEW G, NEW S, Return(p, W, G, S)
    PROVE  Tasks'
<1>1. <<>> \in Seq(Kinds)
  OBVIOUS
<1>2. /\ pc' \in [Proc -> {"user", "gone"} \cup Waits] /\ pc'[p] = "user"
      /\ \A q \in Proc : q # p => pc'[q] = pc[q]
  BY DEF Tasks, Return
<1>3. todo' \in [Proc -> Seq(Kinds)] /\ \A q \in Proc : q # p => todo'[q] = todo[q]
  BY <1>1 DEF Tasks, Return
<1>4. /\ asleep' \in [Proc -> BOOLEAN] /\ \A q \in Proc : asleep'[q] => asleep[q] /\ q # p
      /\ signalled' \in [Proc -> BOOLEAN]
  BY DEF Tasks, Return
<1> QED
  BY <1>2, <1>3, <1>4 DEF Tasks

LEMMA BlockTasks ==
    ASSUME Tasks, NEW p \in Proc, NEW W, NEW G, NEW S, NEW c \in Waits, NEW s \in Seq(Kinds),
           c = "read" => Len(s) > 0, c = "write" /\ p \in Terminal => s \in Seq(Byte),
           Block(p, c, s, W, G, S)
    PROVE  Tasks'
<1>1. /\ pc' \in [Proc -> {"user", "gone"} \cup Waits] /\ pc'[p] = c
      /\ \A q \in Proc : q # p => pc'[q] = pc[q]
  BY DEF Tasks, Block
<1>2. todo' \in [Proc -> Seq(Kinds)] /\ todo'[p] = s /\ \A q \in Proc : q # p => todo'[q] = todo[q]
  BY DEF Tasks, Block
<1>3. /\ asleep' \in [Proc -> BOOLEAN] /\ \A q \in Proc : asleep'[q] => asleep[q] \/ q = p
      /\ signalled' \in [Proc -> BOOLEAN]
  BY DEF Tasks, Block
<1> QED
  BY <1>1, <1>2, <1>3 DEF Tasks

LEMMA PeersKept ==
    ASSUME Tasks, NEW p \in Proc, pc[p] # "gone", NEW c, c # "gone", pc' = [pc EXCEPT ![p] = c],
           NEW q \in Proc
    PROVE  Peers(q)' = Peers(q)
<1>1. \A x \in Proc : pc'[x] # "gone" <=> pc[x] # "gone"
  BY DEF Tasks
<1> QED
  BY <1>1 DEF Peers, Holders

\* What keeps q asleep once the queues have changed, if it is not woken and
\* the writers S are passed over.
Stays(q, S) ==
    /\ pc[q] \in {"read", "pollin"} => NoInput(q)'
    /\ pc[q] = "pollout" => NoRoom(q)'
    /\ pc[q] = "write" => NoRoom(q)' \/ q \in skipped \cup S

LEMMA ReturnDozing ==
    ASSUME IInv, NEW p \in Proc, pc[p] # "gone", NEW W, NEW G, NEW S, Return(p, W, G, S),
           \A q \in Proc : asleep[q] /\ q # p /\ q \notin W => Stays(q, S)
    PROVE  \A q \in Proc : Dozing(q)'
<1> SUFFICES ASSUME NEW q \in Proc, asleep'[q] PROVE Dozing(q)'
  BY DEF Dozing
<1>1. asleep[q] /\ q # p /\ q \notin W /\ q \notin Reached(G)
  BY DEF Return
<1>2. pc'[q] = pc[q]
  BY <1>1 DEF Return, IInv, Tasks
<1>3. Peers(q)' = Peers(q)
  BY PeersKept DEF Return, IInv
<1>4. ~signalled'[q]
  BY <1>1 DEF Return, IInv, Dozing
<1>5. Stays(q, S)
  BY <1>1
<1>6. q \in skipped \cup S => q \in skipped'
  BY <1>1 DEF Return
<1> QED
  BY <1>1, <1>2, <1>3, <1>4, <1>5, <1>6 DEF Dozing, IInv, Stays

LEMMA BlockDozing ==
    ASSUME IInv, NEW p \in Proc, pc[p] # "gone", NEW W, NEW G, NEW S, NEW c \in Waits, NEW s,
           Block(p, c, s, W, G, S), ~signalled[p], p \notin Reached(G), Peers(p) # {},
           c \in {"read", "pollin"} => NoInput(p)', c \in {"write", "pollout"} => NoRoom(p)',
           \A q \in Proc : asleep[q] /\ q # p /\ q \notin W => Stays(q, S)
    PROVE  \A q \in Proc : Dozing(q)'
<1> SUFFICES ASSUME NEW q \in Proc, asleep'[q] PROVE Dozing(q)'
  BY DEF Dozing
<1>1. c # "gone"
  BY DEF Waits, Polls
<1>2. Peers(q)' = Peers(q)
  BY <1>1, PeersKept DEF Block, IInv
<1>3. CASE q = p
  <2>1. pc'[q] = c /\ ~signalled'[q]
    BY <1>3 DEF Block, IInv, Tasks
  <2> QED
    BY <1>2, <1>3, <2>1 DEF Dozing
<1>4. CASE q # p
  <2>1. asleep[q] /\ q \notin W /\ q \notin Reached(G)
    BY <1>4 DEF Block
  <2>2. pc'[q] = pc[q]
    BY <1>4 DEF Block, IInv, Tasks
  <2>3. ~signalled'[q]
    BY <2>1 DEF Block, IInv, Dozing
  <2>4. Stays(q, S)
    BY <1>4, <2>1
  <2>5. q \in skipped \cup S => q \in skipped'
    BY <1>4, <2>1 DEF Block
  <2> QED
    BY <1>2, <2>1, <2>2, <2>3, <2>4, <2>5 DEF Dozing, IInv, Stays
<1> QED
  BY <1>3, <1>4

\* A call that returns, or goes to sleep, without a change to the queues.
LEMMA ReturnIdle ==
    ASSUME IInv, NEW p \in Proc, pc[p] # "gone", NEW W, NEW G, NEW S, Return(p, W, G, S),
           UNCHANGED <<queues, termios, stranded>>, foreground_group' \in Job \cup {None}
    PROVE  IInv'
<1>1. Queues'
  BY DEF IInv, Queues, queues
<1>2. Tasks'
  BY ReturnTasks DEF IInv
<1>3. \A q \in Proc : asleep[q] => Stays(q, S)
  BY DEF IInv, Dozing, Stays, NoInput, NoRoom, queues
<1> QED
  BY <1>1, <1>2, <1>3, ReturnDozing DEF IInv

LEMMA BlockIdle ==
    ASSUME IInv, NEW p \in Proc, pc[p] # "gone", NEW c \in Waits, NEW s \in Seq(Kinds),
           Block(p, c, s, {}, {}, {}), ~signalled[p], Peers(p) # {},
           c = "read" => Len(s) > 0, c = "write" /\ p \in Terminal => s \in Seq(Byte),
           c \in {"read", "pollin"} => NoInput(p), c \in {"write", "pollout"} => NoRoom(p),
           UNCHANGED <<queues, settings, stranded>>
    PROVE  IInv'
<1>1. Queues'
  BY DEF IInv, Queues, queues, settings
<1>2. Tasks'
  BY BlockTasks DEF IInv
<1>3. \A q \in Proc : asleep[q] => Stays(q, {})
  BY DEF IInv, Dozing, Stays, NoInput, NoRoom, queues, settings
<1>4. /\ c \in {"read", "pollin"} => NoInput(p)'
      /\ c \in {"write", "pollout"} => NoRoom(p)'
  BY DEF NoInput, NoRoom, queues, settings
<1>5. p \notin Reached({})
  BY DEF Reached
<1> QED
  BY <1>1, <1>2, <1>3, <1>4, <1>5, BlockDozing DEF IInv

LEMMA ReadKeeps ==
    ASSUME IInv, NEW p \in Proc, pc[p] # "gone", NEW n \in Nat \ {0}, ReadRound(p, n)
    PROVE  IInv'
<1> DEFINE queue == IF p \in Terminal THEN master_input ELSE slave_input
           k == Least(n, queue)
<1>1. /\ slave_input \in 0 .. Size /\ master_input \in 0 .. Size /\ canonical_length \in 0 .. Size
      /\ Size \in Nat \ {0} /\ slave_eof_pending \in BOOLEAN
  BY Sizes DEF IInv, Queues
<1>2. k \in 0 .. Size /\ k <= queue /\ queue \in 0 .. Size /\ (k = 0 => queue = 0)
  BY <1>1 DEF Least
<1>3. /\ p \in Terminal => master_input' = master_input - k /\ slave_input' = slave_input
      /\ p \notin Terminal => slave_input' = slave_input - k /\ master_input' = master_input
      /\ UNCHANGED <<canonical_length, settings, stranded>>
      /\ slave_eof_pending' = (slave_eof_pending /\ ~(p \in Job /\ k = 0))
  BY DEF ReadRound
<1>4. k > 0 => Return(p, ReadWakes(p), {}, {})
  BY DEF ReadRound
<1>5. ~(k > 0) => \/ Return(p, {}, {}, {})
                  \/ /\ ~(p \in Job /\ slave_eof_pending) /\ Peers(p) # {} /\ ~signalled[p]
                     /\ Block(p, "read", Bytes(n), {}, {}, {})
  BY DEF ReadRound
<1> HIDE DEF k
<1>6. Queues'
  BY <1>1, <1>2, <1>3 DEF IInv, Queues, settings
<1>7. CASE k > 0
  <2>1. Tasks'
    BY <1>4, <1>7, ReturnTasks DEF IInv
  <2>2. ASSUME NEW q \in Proc, asleep[q], q # p, q \notin ReadWakes(p) PROVE Stays(q, {})
    <3>1. pc[q] \in {"read", "write"} /\ Dozing(q)
      BY <2>2 DEF ReadWakes, In, IInv, Tasks, Waits
    <3>2. CASE p \in Terminal
      <4>1. ~(q \in Job /\ pc[q] = "write") \/ q \in Terminal
        BY <2>2, <3>2 DEF ReadWakes, In, Own, Proc
      <4> QED
        BY <1>1, <1>2, <1>3, <1>7, <2>2, <3>1, <3>2, <4>1 DEF Stays, Dozing, NoInput, NoRoom, Proc, settings
    <3>3. CASE p \notin Terminal
      <4>1. ~(q \in Terminal /\ pc[q] = "write")
        BY <2>2, <3>3, PtyAssumption DEF ReadWakes, In, Own, Proc
      <4> QED
        BY <1>1, <1>2, <1>3, <1>7, <2>2, <3>1, <3>3, <4>1 DEF Stays, Dozing, NoInput, NoRoom, Proc, settings
    <3> QED
      BY <3>2, <3>3
  <2> QED
    BY <1>4, <1>6, <1>7, <2>1, <2>2, ReturnDozing DEF IInv
<1>8. CASE ~(k > 0)
  <2>1. k = 0 /\ queue = 0 /\ slave_input' = slave_input /\ master_input' = master_input
    BY <1>1, <1>2, <1>3, <1>8
  <2>2. \A q \in Proc : asleep[q] => Stays(q, {})
    BY <1>3, <2>1 DEF IInv, Dozing, Stays, NoInput, NoRoom, settings
  <2>3. CASE Return(p, {}, {}, {})
    BY <1>6, <2>2, <2>3, ReturnTasks, ReturnDozing DEF IInv
  <2>4. CASE /\ ~(p \in Job /\ slave_eof_pending) /\ Peers(p) # {} /\ ~signalled[p]
             /\ Block(p, "read", Bytes(n), {}, {}, {})
    <3>1. Bytes(n) \in Seq(Kinds) /\ Len(Bytes(n)) > 0
      BY BytesAre
    <3>2. NoInput(p)'
      BY <1>3, <2>1, <2>4 DEF NoInput, Proc
    <3>3. "read" \in Waits
      BY DEF Waits
    <3>4. Tasks'
      BY <2>4, <3>1, <3>3, BlockTasks DEF IInv
    <3>5. p \notin Reached({})
      BY DEF Reached
    <3> QED
      BY <1>6, <2>2, <2>4, <3>2, <3>3, <3>4, <3>5, BlockDozing DEF IInv
  <2> QED
    BY <1>5, <1>8, <2>3, <2>4
<1> QED
  BY <1>2, <1>7, <1>8

LEMMA BrokenKeeps ==
    ASSUME IInv, NEW p \in Proc, pc[p] # "gone", Broken(p)
    PROVE  IInv'
BY ReturnIdle DEF Broken, settings, IInv, Queues

LEMMA PollKeeps ==
    ASSUME IInv, NEW p \in Proc, pc[p] # "gone", NEW c \in Polls, PollRound(p, c)
    PROVE  IInv'
<1>1. CASE Ready(p, c) \/ signalled[p]
  BY <1>1, ReturnIdle DEF PollRound, settings, IInv, Queues
<1>2. CASE ~(Ready(p, c) \/ signalled[p])
  <2>1. Block(p, c, <<>>, {}, {}, {}) /\ ~signalled[p] /\ Peers(p) # {}
    BY <1>2 DEF PollRound, Ready
  <2>2. c \in Waits /\ <<>> \in Seq(Kinds) /\ c \notin {"read", "write"}
    BY DEF Polls, Waits
  <2>3. c = "pollin" => NoInput(p)
    BY <1>2, Sizes DEF Ready, NoInput, IInv, Queues
  <2>4. c = "pollout" => NoRoom(p)
    BY <1>2, Sizes DEF Ready, NoRoom, IInv, Queues
  <2> QED
    BY <2>1, <2>2, <2>3, <2>4, BlockIdle DEF PollRound
<1> QED
  BY <1>1, <1>2

LEMMA ShowKeeps ==
    ASSUME IInv, NEW p \in Job, pc[p] # "gone", NEW n \in Nat, ShowRound(p, n)
    PROVE  IInv'
<1>0. p \in Proc /\ p \notin Terminal
  BY PtyAssumption DEF Proc
<1>1. CASE Broken(p)
  BY <1>0, <1>1, BrokenKeeps
<1>2. CASE ~Broken(p)
  <2> DEFINE k == Least(n, Size - master_input)
             W == IF k > 0 THEN In(Terminal, {"read"}) \cup In(Proc, Polls) ELSE {}
  <2>1. /\ Peers(p) # {} /\ master_input' = master_input + k
        /\ UNCHANGED <<slave_input, canonical_length, slave_eof_pending, settings, stranded>>
        /\ k = n \/ signalled[p] => Return(p, W, {}, {})
        /\ ~(k = n \/ signalled[p]) => Block(p, "write", Bytes(n - k), W, {}, {})
    BY <1>2 DEF ShowRound
  <2>2. /\ slave_input \in 0 .. Size /\ master_input \in 0 .. Size /\ canonical_length \in 0 .. Size
        /\ Size \in Nat \ {0}
    BY Sizes DEF IInv, Queues
  <2>3. k \in 0 .. Size /\ k <= n /\ master_input' \in 0 .. Size /\ (k # n => master_input' = Size)
    BY <2>1, <2>2 DEF Least
  <2>4. k = 0 => W = {} /\ master_input' = master_input
    BY <2>1, <2>2
  <2>5. k > 0 => W = In(Terminal, {"read"}) \cup In(Proc, Polls)
    OBVIOUS
  <2> HIDE DEF k, W
  <2>6. Queues'
    BY <2>1, <2>2, <2>3 DEF IInv, Queues, settings
  <2>7. ASSUME NEW q \in Proc, asleep[q], q \notin W PROVE Stays(q, {})
    <3>1. Dozing(q) /\ pc[q] \in Waits
      BY <2>7 DEF IInv, Tasks
    <3>2. CASE k = 0
      BY <2>1, <2>4, <2>7, <3>1, <3>2 DEF Dozing, Stays, NoInput, NoRoom, settings
    <3>3. CASE k > 0
      <4>1. pc[q] \in {"read", "write"} /\ ~(q \in Terminal /\ pc[q] = "read")
        BY <2>5, <2>7, <3>1, <3>3 DEF In, Waits
      <4>2. master_input' >= master_input
        BY <2>1, <2>2, <2>3
      <4> QED
        BY <2>1, <2>2, <2>3, <2>7, <3>1, <4>1, <4>2 DEF Dozing, Stays, NoInput, NoRoom, settings
    <3> QED
      BY <2>3, <3>2, <3>3
  <2>8. CASE k = n \/ signalled[p]
    BY <1>0, <2>1, <2>6, <2>7, <2>8, ReturnTasks, ReturnDozing DEF IInv
  <2>9. CASE ~(k = n \/ signalled[p])
    <3>1. n - k \in Nat /\ "write" \in Waits /\ "write" # "read" /\ p \notin Reached({})
      BY <2>3 DEF Waits, Reached
    <3>2. Bytes(n - k) \in Seq(Kinds)
      BY <3>1, BytesAre
    <3>3. NoRoom(p)'
      BY <1>0, <2>2, <2>3, <2>9 DEF NoRoom
    <3>4. Tasks'
      BY <1>0, <2>1, <2>9, <3>1, <3>2, BlockTasks DEF IInv
    <3> QED
      BY <1>0, <2>1, <2>6, <2>7, <2>9, <3>1, <3>3, <3>4, BlockDozing DEF IInv
  <2> QED
    BY <2>8, <2>9
<1> QED
  BY <1>1, <1>2

LEMMA TypeKeeps ==
    ASSUME IInv, NEW p \in Terminal, pc[p] # "gone", NEW s \in Seq(Byte), TypeRound(p, s)
    PROVE  IInv'
<1>0. p \in Proc /\ p \notin Job
  BY PtyAssumption DEF Proc
<1>1. CASE Broken(p)
  BY <1>0, <1>1, BrokenKeeps
<1>2. CASE ~Broken(p)
  <2> DEFINE st == Discipline(s)
             some == Len(st.left) < Len(s)
             group == IF st.sig THEN {foreground_group} \cap Job ELSE {}
             W == (IF some THEN In(Job, {"read"}) \cup In(Proc, Polls) ELSE {})
                  \cup (IF st.echoed THEN In(Terminal, {"read"}) ELSE {})
             passed == (IF st.cleared THEN In(Job, {"write"}) ELSE {})
                       \cup (IF st.in + st.line < slave_input + canonical_length
                             THEN In(Terminal, {"write"}) ELSE {})
  <2>1. /\ Peers(p) # {} /\ slave_input' = st.in /\ master_input' = st.out
        /\ canonical_length' = st.line /\ slave_eof_pending' = st.eof
        /\ stranded' = (stranded /\ st.line > 0) /\ UNCHANGED settings
        /\ st.left = <<>> \/ signalled[p] => Return(p, W, group, passed)
        /\ ~(st.left = <<>> \/ signalled[p]) => Block(p, "write", st.left, W, group, passed)
    BY <1>2 DEF TypeRound
  <2>2. /\ slave_input \in 0 .. Size /\ master_input \in 0 .. Size /\ canonical_length \in 0 .. Size
        /\ Size \in Nat \ {0} /\ slave_eof_pending \in BOOLEAN
        /\ (slave_input + canonical_length <= Size \/ stranded)
        /\ (canonical_length > 0 => termios.icanon \/ stranded)
    BY Sizes DEF IInv, Queues
  <2>3. termios \in TermiosSet
    BY ModeFields DEF IInv, Queues
  <2>4. Start \in Disciplines
    BY <2>2 DEF Start, Disciplines
  <2> HIDE DEF st
  <2>5. Since(Start, st, Len(s))
    BY <2>3, <2>4, DisciplineFacts DEF st
  <2>6. /\ Start.in = slave_input /\ Start.out = master_input /\ Start.line = canonical_length
        /\ Start.eof = slave_eof_pending
    BY DEF Start
  <2>7. st \in Disciplines
    BY <2>5 DEF Since
  <2>8. /\ st.in \in 0 .. Size /\ st.out \in 0 .. Size /\ st.line \in 0 .. Size
        /\ st.eof \in BOOLEAN /\ st.left \in Seq(Byte)
    BY <2>7, DisciplineFields
  <2>9. /\ st.left # <<>> => Full(st)
        /\ slave_input + canonical_length <= Size /\ (canonical_length > 0 => termios.icanon)
              => st.in + st.line <= Size
        /\ st.line > 0 => canonical_length > 0 \/ termios.icanon
        /\ ~st.echoed => st.out = master_input \/ st.out = 0
        /\ ~st.cleared => st.out >= master_input
        /\ slave_input >= Size => ~some
        /\ ~some => /\ st.in = slave_input /\ st.out = master_input /\ st.line = canonical_length
                    /\ st.eof = slave_eof_pending
    <3>1. Len(st.left) \in Nat /\ Len(s) \in Nat
      BY <2>8
    <3> QED
      BY <2>5, <2>6, <3>1 DEF Since
  <2>10. some => In(Job, {"read"}) \cup In(Proc, Polls) \subseteq W
    OBVIOUS
  <2>11. st.echoed => In(Terminal, {"read"}) \subseteq W
    OBVIOUS
  <2>12. st.cleared => In(Job, {"write"}) \subseteq passed
    OBVIOUS
  <2>13. st.in + st.line < slave_input + canonical_length => In(Terminal, {"write"}) \subseteq passed
    OBVIOUS
  <2>14. p \notin Reached(group)
    BY <1>0 DEF Reached
  <2> HIDE DEF some, W, passed, group
  <2>15. Queues'
    <3>1. (slave_input' + canonical_length' <= Size \/ stranded')
      <4>1. CASE st.line = 0
        BY <2>1, <2>2, <2>8, <4>1
      <4>2. CASE st.line > 0 /\ stranded
        BY <2>1, <4>2
      <4>3. CASE ~stranded
        BY <2>1, <2>2, <2>9, <4>3
      <4> QED
        BY <2>2, <2>8, <4>1, <4>2, <4>3
    <3>2. (canonical_length' > 0 => termios.icanon \/ stranded')
      BY <2>1, <2>2, <2>9
    <3> QED
      BY <2>1, <2>8, <3>1, <3>2 DEF IInv, Queues, settings
  <2>16. ASSUME NEW q \in Proc, asleep[q], q \notin W PROVE Stays(q, passed)
    <3>1. Dozing(q) /\ pc[q] \in Waits /\ (q \in Terminal \/ q \in Job) /\ ~(q \in Terminal /\ q \in Job)
      BY <2>16, PtyAssumption DEF IInv, Tasks, Proc
    <3>2. CASE ~some
      BY <2>1, <2>9, <2>16, <3>1, <3>2 DEF Dozing, Stays, NoInput, NoRoom, settings
    <3>3. CASE some
      <4>1. pc[q] \in {"read", "write"} /\ ~(q \in Job /\ pc[q] = "read")
        BY <2>10, <2>16, <3>1, <3>3 DEF In, Waits
      <4>2. CASE pc[q] = "read"
        <5>1. q \in Terminal /\ NoInput(q) /\ ~st.echoed
          BY <2>11, <2>16, <3>1, <4>1, <4>2 DEF In, Dozing
        <5>2. NoInput(q)'
          BY <2>1, <2>9, <5>1 DEF NoInput
        <5> QED
          BY <4>2, <5>2 DEF Stays
      <4>3. CASE pc[q] = "write" /\ q \in Job
        <5>1. CASE st.cleared
          BY <2>12, <2>16, <4>3, <5>1 DEF In, Stays
        <5>2. CASE ~st.cleared
          <6>1. master_input' >= master_input
            BY <2>1, <2>9, <5>2
          <6> QED
            BY <2>1, <2>2, <2>8, <2>16, <3>1, <4>3, <6>1 DEF Stays, Dozing, NoRoom
        <5> QED
          BY <5>1, <5>2
      <4>4. CASE pc[q] = "write" /\ q \in Terminal
        <5>1. CASE st.in + st.line < slave_input + canonical_length
          BY <2>13, <2>16, <4>4, <5>1 DEF In, Stays
        <5>2. CASE ~(st.in + st.line < slave_input + canonical_length)
          <6>1. CASE q \in skipped
            BY <4>4, <6>1 DEF Stays
          <6>2. CASE NoRoom(q)
            <7>1. ~(slave_input >= Size)
              BY <2>9, <3>3
            <7>2. termios.icanon /\ slave_input + canonical_length >= Size
              BY <2>2, <4>4, <6>2, <7>1 DEF NoRoom
            <7>3. st.in + st.line >= Size
              BY <2>2, <2>8, <5>2, <7>2
            <7> QED
              BY <2>1, <4>4, <7>2, <7>3 DEF Stays, NoRoom, settings
          <6> QED
            BY <2>16, <3>1, <4>4, <6>1, <6>2 DEF Dozing
        <5> QED
          BY <5>1, <5>2
      <4> QED
        BY <3>1, <4>1, <4>2, <4>3, <4>4
    <3> QED
      BY <3>2, <3>3
  <2>17. CASE st.left = <<>> \/ signalled[p]
    BY <1>0, <2>1, <2>15, <2>16, <2>17, ReturnTasks, ReturnDozing DEF IInv
  <2>18. CASE ~(st.left = <<>> \/ signalled[p])
    <3>1. "write" \in Waits /\ "write" # "read" /\ st.left \in Seq(Kinds)
      BY <2>8 DEF Waits, Kinds
    <3>2. NoRoom(p)'
      BY <2>1, <2>2, <2>8, <2>9, <2>18 DEF NoRoom, Full, LineFull, settings
    <3>3. Tasks'
      BY <1>0, <2>1, <2>8, <2>18, <3>1, BlockTasks DEF IInv
    <3> QED
      BY <1>0, <2>1, <2>14, <2>15, <2>16, <2>18, <3>1, <3>2, <3>3, BlockDozing DEF IInv
  <2> QED
    BY <2>17, <2>18
<1> QED
  BY <1>1, <1>2

LEMMA SetTermiosKeeps ==
    ASSUME IInv, NEW p \in Proc, NEW mode \in Modes, NEW flush \in BOOLEAN, SetTermios(p, mode, flush)
    PROVE  IInv'
<1> DEFINE roomier == flush \/ (termios.icanon /\ ~mode.icanon)
           S == IF roomier THEN In(Terminal, {"write"}) ELSE {}
           W == In(Proc, Polls)
<1>1. /\ pc[p] = "user" /\ termios' = mode
      /\ slave_input' = IF flush THEN 0 ELSE slave_input
      /\ canonical_length' = IF flush THEN 0 ELSE canonical_length
      /\ slave_eof_pending' = (slave_eof_pending /\ ~flush)
      /\ stranded' = (canonical_length' > 0 /\ (stranded \/ ~mode.icanon))
      /\ Return(p, W, {}, S)
      /\ UNCHANGED <<master_input, foreground_group>>
  BY DEF SetTermios, Calls
<1>2. roomier => In(Terminal, {"write"}) \subseteq S
  OBVIOUS
<1>3. /\ slave_input \in 0 .. Size /\ master_input \in 0 .. Size /\ canonical_length \in 0 .. Size
      /\ Size \in Nat \ {0} /\ slave_eof_pending \in BOOLEAN
      /\ (slave_input + canonical_length <= Size \/ stranded)
      /\ (canonical_length > 0 => termios.icanon \/ stranded)
  BY Sizes DEF IInv, Queues
<1>4. mode.icanon \in BOOLEAN /\ termios.icanon \in BOOLEAN
  BY ModeFields DEF IInv, Queues, TermiosSet
<1> HIDE DEF S, W
<1>5. Queues'
  <2>1. (slave_input' + canonical_length' <= Size \/ stranded')
    <3>1. CASE flush
      BY <1>1, <1>3, <3>1
    <3>2. CASE ~flush /\ canonical_length = 0
      BY <1>1, <1>3, <3>2
    <3>3. CASE ~flush /\ canonical_length # 0
      <4>1. canonical_length' = canonical_length /\ slave_input' = slave_input /\ canonical_length > 0
        BY <1>1, <1>3, <3>3
      <4>2. stranded => stranded'
        BY <1>1, <4>1
      <4> QED
        BY <1>3, <4>1, <4>2
    <3> QED
      BY <3>1, <3>2, <3>3
  <2>2. (canonical_length' > 0 => termios'.icanon \/ stranded')
    BY <1>1
  <2>3. slave_input' \in 0 .. Size /\ canonical_length' \in 0 .. Size
    BY <1>1, <1>3
  <2> QED
    BY <1>1, <2>1, <2>2, <2>3 DEF IInv, Queues
<1>6. Tasks'
  BY <1>1, ReturnTasks DEF IInv
<1>7. ASSUME NEW q \in Proc, asleep[q], q \notin W PROVE Stays(q, S)
  <2>1. Dozing(q) /\ pc[q] \in {"read", "write"}
    BY <1>7 DEF IInv, Tasks, Waits, W, In
  <2>2. CASE pc[q] = "read"
    <3>1. slave_input = 0 => slave_input' = 0
      BY <1>1
    <3> QED
      BY <1>1, <1>7, <2>1, <2>2, <3>1 DEF Dozing, Stays, NoInput
  <2>3. CASE pc[q] = "write" /\ q \notin Terminal
    BY <1>1, <1>7, <2>1, <2>3 DEF Dozing, Stays, NoRoom
  <2>4. CASE pc[q] = "write" /\ q \in Terminal
    <3>1. CASE roomier
      BY <1>2, <1>7, <2>4, <3>1 DEF In, Stays
    <3>2. CASE ~roomier
      <4>1. /\ slave_input' = slave_input /\ canonical_length' = canonical_length
            /\ termios.icanon => termios'.icanon
        BY <1>1, <1>4, <3>2
      <4>2. NoRoom(q) => NoRoom(q)'
        BY <1>3, <2>4, <4>1 DEF NoRoom
      <4> QED
        BY <1>7, <2>1, <2>4, <4>2 DEF Dozing, Stays
    <3> QED
      BY <3>1, <3>2
  <2> QED
    BY <2>1, <2>2, <2>3, <2>4
<1> QED
  BY <1>1, <1>5, <1>6, <1>7, ReturnDozing DEF IInv

LEMMA EndKeeps ==
    ASSUME IInv, NEW p \in Proc, pc[p] = "user", End(p)
    PROVE  IInv'
<1>1. Queues'
  BY DEF IInv, Queues, End, queues, settings
<1>2. /\ pc' \in [Proc -> {"user", "gone"} \cup Waits] /\ pc'[p] = "gone"
      /\ \A q \in Proc : q # p => pc'[q] = pc[q]
      /\ asleep' \in [Proc -> BOOLEAN]
      /\ \A q \in Proc : asleep'[q] => asleep[q] /\ q \notin CloseWakes(p) /\ q # p
      /\ signalled' \in [Proc -> BOOLEAN] /\ \A q \in Proc : signalled'[q] => signalled[q]
      /\ todo' = todo
  BY DEF IInv, Tasks, End, Waits, Polls
<1>3. Tasks'
  BY <1>2 DEF IInv, Tasks
<1>4. ASSUME NEW q \in Proc, asleep'[q] PROVE Peers(q)' # {}
  <2>1. asleep[q] /\ q \notin CloseWakes(p) /\ q # p /\ Peers(q) # {} /\ pc[q] \in Waits
    BY <1>2, <1>4 DEF IInv, Dozing, Tasks
  <2>2. PICK x \in Peers(q) : TRUE
    BY <2>1
  <2>3. x \in Proc \ Own(q) /\ pc[x] # "gone"
    BY <2>2 DEF Peers, Holders
  <2>4. CASE x # p
    <3>1. x \in Peers(q)'
      BY <1>2, <2>3, <2>4 DEF Peers, Holders
    <3> QED
      BY <3>1
  <2>5. CASE x = p
    <3>1. Proc \ Own(q) = Own(p) /\ Proc \ Own(p) = Own(q) /\ q \in Own(q)
      BY <2>3, <2>5, PtyAssumption DEF Own, Proc
    <3>2. q \in Peers(p)
      BY <2>1, <3>1 DEF Peers, Holders, Waits, Polls
    <3>3. Holders(Own(p)) # {p}
      BY <2>1, <3>2 DEF CloseWakes, In, Waits
    <3>4. PICK y \in Own(p) : y # p /\ pc[y] # "gone"
      BY <2>3, <2>5, <3>1, <3>3 DEF Holders
    <3>5. y \in Peers(q)'
      BY <1>2, <3>1, <3>4 DEF Peers, Holders
    <3> QED
      BY <3>5
  <2> QED
    BY <2>4, <2>5
<1>5. ASSUME NEW q \in Proc, asleep'[q] PROVE Dozing(q)'
  <2>1. asleep[q] /\ pc'[q] = pc[q] /\ ~signalled'[q] /\ q \notin CloseWakes(p)
    BY <1>2, <1>5 DEF IInv, Dozing
  <2>2. q \in skipped => q \in skipped'
    BY <2>1 DEF End
  <2>3. UNCHANGED <<queues, settings>>
    BY DEF End
  <2> QED
    BY <1>4, <1>5, <2>1, <2>2, <2>3 DEF IInv, Dozing, NoInput, NoRoom, queues, settings
<1>6. \A q \in Proc : Dozing(q)'
  BY <1>5 DEF Dozing
<1> QED
  BY <1>1, <1>3, <1>6 DEF IInv

LEMMA SignalKeeps ==
    ASSUME IInv, NEW p \in Proc, Signal(p)
    PROVE  IInv'
<1>1. Queues'
  BY DEF IInv, Queues, Signal, queues, settings
<1>2. /\ pc' = pc /\ todo' = todo
      /\ asleep' \in [Proc -> BOOLEAN] /\ \A q \in Proc : asleep'[q] => asleep[q] /\ q # p
      /\ signalled' \in [Proc -> BOOLEAN] /\ \A q \in Proc : q # p => signalled'[q] = signalled[q]
  BY DEF IInv, Tasks, Signal
<1>3. Tasks'
  BY <1>2 DEF IInv, Tasks
<1>4. ASSUME NEW q \in Proc, asleep'[q] PROVE Dozing(q)'
  <2>1. asleep[q] /\ q # p /\ ~signalled'[q] /\ (q \in skipped => q \in skipped')
    BY <1>2, <1>4 DEF IInv, Dozing, Signal
  <2>2. UNCHANGED <<queues, settings>>
    BY DEF Signal
  <2>3. Peers(q)' = Peers(q)
    BY <1>2 DEF Peers, Holders
  <2> QED
    BY <1>2, <2>1, <2>2, <2>3 DEF IInv, Dozing, NoInput, NoRoom, queues, settings
<1>5. \A q \in Proc : Dozing(q)'
  BY <1>4 DEF Dozing
<1> QED
  BY <1>1, <1>3, <1>5 DEF IInv

LEMMA ResumeKeeps ==
    ASSUME IInv, NEW p \in Proc, Resume(p)
    PROVE  IInv'
<1>1. CASE pc[p] = "read" /\ ReadRound(p, Len(todo[p]))
  <2>1. Len(todo[p]) \in Nat \ {0}
    BY <1>1 DEF IInv, Tasks
  <2> QED
    BY <1>1, <2>1, ReadKeeps
<1>2. CASE pc[p] = "write" /\ p \in Terminal /\ TypeRound(p, todo[p])
  <2>1. todo[p] \in Seq(Byte)
    BY <1>2 DEF IInv, Tasks
  <2> QED
    BY <1>2, <2>1, TypeKeeps
<1>3. CASE pc[p] = "write" /\ p \in Job /\ ShowRound(p, Len(todo[p]))
  <2>1. Len(todo[p]) \in Nat
    BY DEF IInv, Tasks
  <2> QED
    BY <1>3, <2>1, ShowKeeps
<1>4. CASE pc[p] \in Polls /\ PollRound(p, pc[p])
  BY <1>4, PollKeeps DEF Polls
<1> QED
  BY <1>1, <1>2, <1>3, <1>4 DEF Resume

LEMMA NextIInv == IInv /\ [Next]_vars => IInv'
<1> SUFFICES ASSUME IInv, [Next]_vars PROVE IInv'
  OBVIOUS
<1>1. CASE UNCHANGED vars
  <2>1. Queues'
    BY <1>1 DEF IInv, Queues, vars, queues, settings, history
  <2>2. Tasks'
    BY <1>1 DEF IInv, Tasks, vars
  <2>3. \A q \in Proc : Dozing(q)'
    BY <1>1 DEF IInv, Dozing, NoInput, NoRoom, Peers, Holders, vars, queues, settings, history
  <2> QED
    BY <2>1, <2>2, <2>3 DEF IInv
<1>2. CASE Next
  <2> PICK p \in Proc : \/ \E n \in 1 .. MaxCount : Read(p, n) \/ Show(p, n)
                        \/ \E s \in Inputs : Type(p, s)
                        \/ \E c \in Polls : Poll(p, c)
                        \/ \E mode \in Modes, flush \in BOOLEAN : SetTermios(p, mode, flush)
                        \/ \E q \in Job : SetForeground(p, q)
                        \/ Close(p) \/ Resume(p) \/ Signal(p)
    BY <1>2 DEF Next
  <2>1. Refused(p) /\ pc[p] # "gone" => IInv'
    BY ReturnIdle DEF Refused, settings, IInv, Queues
  <2>2. ASSUME NEW n \in 1 .. MaxCount, Read(p, n) PROVE IInv'
    <3>1. n \in Nat \ {0}
      BY Sizes
    <3> QED
      BY <2>1, <2>2, <3>1, ReadKeeps DEF Read, Calls
  <2>3. ASSUME NEW n \in 1 .. MaxCount, Show(p, n) PROVE IInv'
    <3>1. n \in Nat
      BY Sizes
    <3> QED
      BY <2>1, <2>3, <3>1, ShowKeeps DEF Show, Calls
  <2>4. ASSUME NEW s \in Inputs, Type(p, s) PROVE IInv'
    <3>1. s \in Seq(Byte)
      BY PtyAssumption
    <3> QED
      BY <2>4, <3>1, TypeKeeps DEF Type, Calls
  <2>5. ASSUME NEW c \in Polls, Poll(p, c) PROVE IInv'
    BY <2>5, PollKeeps DEF Poll, Calls
  <2>6. ASSUME NEW mode \in Modes, NEW flush \in BOOLEAN, SetTermios(p, mode, flush) PROVE IInv'
    BY <2>6, SetTermiosKeeps
  <2>7. ASSUME NEW q \in Job, SetForeground(p, q) PROVE IInv'
    BY <2>7, ReturnIdle DEF SetForeground, Calls, queues
  <2>8. CASE Close(p)
    BY <2>8, EndKeeps DEF Close, Calls
  <2>9. CASE Resume(p)
    BY <2>9, ResumeKeeps
  <2>10. CASE Signal(p)
    BY <2>10, SignalKeeps
  <2> QED
    BY <2>2, <2>3, <2>4, <2>5, <2>6, <2>7, <2>8, <2>9, <2>10
<1> QED
  BY <1>1, <1>2

\* The inductive invariant: the line fits the queue, and a call that sleeps
\* (sleep_on_if() in fs/pty.c) misses what it waits for or was passed over.
THEOREM StaysIInv == Spec => []IInv
BY InitIInv, NextIInv, PTL DEF Spec

-----------------------------------------------------------------------------
(* The theorems.                                                           *)

\* The types are kept, and the line being edited fits behind what is queued
\* before it unless ICANON was switched off in the middle of it (pty_write(),
\* flush_canonical() of fs/pty.c).
THEOREM StaysTyped == Spec => []TypeOK
<1>1. IInv => TypeOK
  BY IInvProperties
<1> QED
  BY <1>1, StaysIInv, PTL

\* Nobody sleeps on the terminal while what it waits for is there, except a
\* writer that was passed over when room was made without a wakeup.
THEOREM WakeupsKept == Spec => []NoLostWakeup
<1>1. IInv => NoLostWakeup
  BY IInvProperties
<1> QED
  BY <1>1, StaysIInv, PTL
=============================================================================
