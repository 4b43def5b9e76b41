------------------------------ MODULE MCConfirm ------------------------------
EXTENDS Confirm, TLC

\* Browsers and links are only names.
Symmetry == Permutations(Browsers) \cup Permutations(Links)
=============================================================================
