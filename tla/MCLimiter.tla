------------------------------ MODULE MCLimiter ------------------------------
EXTENDS Limiter, TLC

\* Machines and addresses are only names.
Symmetry == Permutations(Peers) \cup Permutations(Emails)
=============================================================================
