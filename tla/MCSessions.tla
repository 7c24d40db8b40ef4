------------------------------ MODULE MCSessions ------------------------------
(***************************************************************************)
(* The instance of Sessions for TLC.                                        *)
(***************************************************************************)
EXTENDS Sessions, TLC

\* Which login, callback, person, address or request is which makes no
\* difference, and no liveness is checked.
Symmetry ==
  Permutations(Logins) \cup Permutations(Callbacks) \cup Permutations(Identities)
    \cup Permutations(Emails) \cup Permutations(Requests)
=============================================================================
