----------------------------- MODULE MCHandshake -----------------------------
(* A Rust client run, a C# client run and two server runs over a network   *)
(* that loses, repeats, reorders and damages messages.                     *)
EXTENDS CsHandshake, TLC

\* Servers, profiles and ids are alike; the two clients are not.
Symmetry == Permutations(Servers) \union Permutations(Profiles) \union Permutations(SessionIds)
=============================================================================
