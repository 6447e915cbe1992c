---------------------------- MODULE MCUnpackJobs ----------------------------
(***************************************************************************)
(* Instances of UnpackJobs for TLC; pulls are interchangeable.             *)
(***************************************************************************)
EXTENDS UnpackJobs, TLC

SamePulls == Permutations(Pulls)
=============================================================================
