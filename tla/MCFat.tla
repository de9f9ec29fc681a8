------------------------------- MODULE MCFat -------------------------------
EXTENDS Fat, TLC

CONSTANTS t1, t2, a

TaskSymmetry == Permutations({t1, t2})

\* What follows a race is looked at in one step only.
Unraced == ~raced
============================================================================
