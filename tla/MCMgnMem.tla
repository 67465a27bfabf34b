------------------------------ MODULE MCMgnMem -------------------------------
\* MgnMem for TLC.  Owners and addresses are interchangeable.
EXTENDS MgnMem, TLC

Symm == Permutations(Owners) \cup Permutations(Addrs)
=============================================================================
