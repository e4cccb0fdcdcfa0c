------------------------- MODULE MCFoundrySessions -------------------------
(* Small instances of FoundrySessions for TLC.                             *)
EXTENDS FoundrySessions, TLC

CONSTANTS s1, s2, s3, c1, c2, c3, sw, usr

\* The first two sessions belong to one user, the third to nobody.
MCOwner == [s \in Sessions |-> IF s \in {s1, s2} THEN usr ELSE Nobody]
Anonymous == [s \in Sessions |-> Nobody]

ClientSymmetry == Permutations({c1, c2})

\* Three situations, one per backend, in one run.  With sdk one client's
\* sessions run out and are swept, and nobody infers.  With dryrun three
\* clients use one session that does not run out.  With terraform two clients
\* create, use and delete two sessions.
Situation ==
    CASE backend = "sdk" ->
            /\ \A p \in {c2, c3} : pc[p] = "free"
            /\ \A p \in Threads : pc[p] \notin {"call", "accrue", "write", "stop", "over"}
      [] backend = "dryrun" ->
            issued \subseteq {s1} /\ expired = {} /\ idle = {} /\ pc[sw] = "free"
      [] backend = "terraform" ->
            /\ expired = {} /\ idle = {} /\ pc[sw] = "free" /\ pc[c3] = "free"
            /\ \A p \in Threads : pc[p] \notin {"call", "accrue", "write", "stop", "over"}

BackendsSpec == Init /\ [][Next /\ Situation']_vars /\ Fairness
=============================================================================
