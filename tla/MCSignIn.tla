------------------------------- MODULE MCSignIn -------------------------------
(* Symmetry for checking SignIn with TLC.                                     *)
EXTENDS SignIn, TLC

\* Requests, links and sessions are interchangeable.
Symmetric == Permutations(Requests) \union Permutations(Links) \union Permutations(Sessions)
===============================================================================
