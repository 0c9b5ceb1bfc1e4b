----------------------------- MODULE MCConnPool -----------------------------
(* Small instances of ConnPool; its constants are symmetric.               *)
EXTENDS ConnPool

Symmetry == Permutations(Workers) \cup Permutations(Keys) \cup Permutations(Clients)
=============================================================================
