---------------------------- MODULE MCLazyMounts ----------------------------
(* Small instances of LazyMounts.                                          *)
EXTENDS LazyMounts, TLC

CONSTANTS m1, m2, n1, n2

\* Both mountpoints have the same layer, or they have different ones.
MCAssignments == {(m1 :> n1) @@ (m2 :> n1), (m1 :> n1) @@ (m2 :> n2)}
=============================================================================
