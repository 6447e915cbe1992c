-------------------------- MODULE MCRegistryAccess --------------------------
(***************************************************************************)
(* Two threads work on the blobs of two images of one registry: with equal *)
(* credentials they meet on one shared client, otherwise each has its own. *)
(***************************************************************************)
EXTENDS RegistryAccess, TLC

CONSTANTS t1, t2, i1, i2

MCWorks == {<<t1, i1>>, <<t2, i2>>}

\* The threads, each with its image, are interchangeable.
SameThreads == {p \in Permutations({t1, t2, i1, i2}) :
                    p[t1] \in {t1, t2} /\ p[t2] \in {t1, t2} /\ (p[t1] = t2 <=> p[i1] = i2)}

\* A shared client with a mirror and without one, and clients of their own.
MCConfigs == {[sharing |-> TRUE, redirects |-> TRUE, single |-> FALSE, sized |-> TRUE, hosts |-> 2],
              [sharing |-> TRUE, redirects |-> FALSE, single |-> TRUE, sized |-> FALSE, hosts |-> 1],
              [sharing |-> FALSE, redirects |-> FALSE, single |-> FALSE, sized |-> TRUE, hosts |-> 1]}
=============================================================================
