----------------------------- MODULE MCIdentity -----------------------------
(* Symmetry for the safety runs of Identity: secrets, ids, requests        *)
(* and addresses are opaque and interchangeable.                           *)
EXTENDS IdentityRefinement, TLC

Symmetry == Permutations(Emails) \cup Permutations(UserIDs)
              \cup Permutations(Tokens)
              \cup Permutations(Sessions) \cup Permutations(Handlers)
=============================================================================
