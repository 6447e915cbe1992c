--------------------------- MODULE MCSnapshotter ---------------------------
(* Clients, and keys, that differ in nothing but their names.              *)
EXTENDS Snapshotter, TLC

SameCallers == Permutations(Clients) \cup Permutations(Keys)
=============================================================================
