------------------------------- MODULE MCPty -------------------------------
(* A small instance of Pty for TLC. *)
EXTENDS Pty, TLC

CONSTANTS m1, j1, j2

Cooked == [icanon |-> TRUE, echo |-> TRUE, isig |-> TRUE, noflsh |-> FALSE, tostop |-> FALSE]
Silent == [Cooked EXCEPT !.echo = FALSE, !.noflsh = TRUE, !.tostop = TRUE]
Cbreak == [Cooked EXCEPT !.icanon = FALSE, !.echo = FALSE]
MCModes == {Cooked, Silent, Cbreak}

\* The jobs are alike.
Symmetry == Permutations({j1, j2})

MCInputs == {<<b>> : b \in Byte} \cup {<<"char", b>> : b \in {"newline", "eof"}}
============================================================================
