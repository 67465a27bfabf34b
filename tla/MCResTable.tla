----------------------------- MODULE MCResTable -----------------------------
\* ResTable for TLC.  The threads are interchangeable: every definition treats
\* them alike, so the safety runs may use Symm (the liveness run does not).
EXTENDS ResTable, TLC

Symm == Permutations(Threads)
=============================================================================
