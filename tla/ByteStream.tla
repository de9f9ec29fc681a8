----------------------------- MODULE ByteStream -----------------------------
(***************************************************************************)
(* What a pipe promises its users: an ordered stream of bytes, read in the *)
(* order written, each exactly once, that reports its end only when it is  *)
(* drained and no writer is left, and that takes nothing without a reader. *)
(* How many bytes fit, who sleeps and who is woken is not said here.       *)
(***************************************************************************)
EXTENDS Naturals, Sequences

VARIABLES stream,      \* written and not yet read
          readEnd,     \* some process can still read
          writeEnd,    \* some process can still write
          eofSeen      \* some read has reported the end of the stream

Init == stream = <<>> /\ readEnd = TRUE /\ writeEnd = TRUE /\ eofSeen = FALSE

\* One or more bytes are added; a pipe copies as many as fit in one go.
PutMany == /\ writeEnd /\ readEnd
           /\ Len(stream') > Len(stream)
           /\ SubSeq(stream', 1, Len(stream)) = stream
           /\ UNCHANGED <<readEnd, writeEnd, eofSeen>>

GetMany == /\ readEnd
           /\ \E k \in 1 .. Len(stream) : stream' = SubSeq(stream, k + 1, Len(stream))
           /\ UNCHANGED <<readEnd, writeEnd, eofSeen>>

Eof == /\ readEnd /\ ~writeEnd /\ stream = <<>>
       /\ eofSeen' = TRUE
       /\ UNCHANGED <<stream, readEnd, writeEnd>>

Close == /\ readEnd' \in {readEnd, FALSE}
         /\ writeEnd' \in {writeEnd, FALSE}
         /\ UNCHANGED <<stream, eofSeen>>

Next == PutMany \/ GetMany \/ Eof \/ Close

Spec == Init /\ [][Next]_<<stream, readEnd, writeEnd, eofSeen>>
=============================================================================
