------------------------------ MODULE MCKSched ------------------------------
(* Small instances of KSched for TLC. *)
EXTENDS KSched

JobSignals == {SIGKILL, SIGSTOP, SIGCONT, SIGCHLD}
JobAndIntSignals == JobSignals \cup {SIGINT}
=============================================================================
