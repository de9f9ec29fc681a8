------------------------------- MODULE Arena -------------------------------
(***************************************************************************)
(* What a memory allocator promises: a range that is handed out lies in    *)
(* the arena and overlaps no other range that is still held, and giving    *)
(* one back leaves all others as they are.  Blocks, headers and the order  *)
(* of the search are not mentioned.                                        *)
(***************************************************************************)
EXTENDS Integers

CONSTANTS ArenaSize,   \* bytes of the arena, addressed from 0
          Lengths      \* what may be asked for

VARIABLE held          \* held[p]: bytes asked for at p, for every p in use

Init == held = [p \in {} |-> 0]

Alloc(n) == \E p \in (0 .. ArenaSize - n) \ DOMAIN held :
                /\ \A q \in DOMAIN held : p + n <= q \/ q + held[q] <= p
                /\ held' = [q \in DOMAIN held \cup {p} |-> IF q = p THEN n ELSE held[q]]

Release(p) == held' = [q \in DOMAIN held \ {p} |-> held[q]]

Next == (\E n \in Lengths : Alloc(n)) \/ (\E p \in DOMAIN held : Release(p))

Spec == Init /\ [][Next]_held
=============================================================================
