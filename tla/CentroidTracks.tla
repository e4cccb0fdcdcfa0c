--------------------------- MODULE CentroidTracks ---------------------------
(***************************************************************************)
(* The CentroidTracker of apps/analytics/routines/zone_counting.py: one    *)
(* update per frame matches the frame's centroids greedily with the known  *)
(* objects.  Positions are whole numbers on a line; nothing in the tracker *)
(* depends on more of them than their distances.                           *)
(***************************************************************************)
EXTENDS Integers, Sequences, FiniteSets, SequencesExt, FiniteSetsExt

CONSTANTS
    CnDistance,    \* max_distance
    CnDisappeared, \* max_disappeared
    CnPlaces,      \* the positions
    CnCentroids,   \* bound: centroids in one frame
    CnFrames       \* bound: frames

ASSUME CnAssumption ==
    /\ CnDistance \in Nat /\ CnDisappeared \in Nat /\ CnPlaces \subseteq Int
    /\ CnCentroids \in Nat /\ CnFrames \in Nat

VARIABLES
    cnObjects, \* objects and disappeared, in the order of the dictionaries: [id, at, missed]
    cnFresh,   \* _next_id
    cnFrame,   \* frames so far
    cnBefore,  \* the objects before the last update
    cnGiven,   \* the centroids it was given
    cnHeld     \* id -> frames in which it had a centroid

cnVars == <<cnObjects, cnFresh, cnFrame, cnBefore, cnGiven, cnHeld>>

CnInit ==
    /\ cnObjects = <<>> /\ cnFresh = 0 /\ cnFrame = 0
    /\ cnBefore = <<>> /\ cnGiven = <<>> /\ cnHeld = <<>>

Distance(x, y) == IF x < y THEN y - x ELSE x - y

\* argmin over the centroids: the first of the nearest.
Nearest(x, centroids) ==
    CHOOSE c \in DOMAIN centroids :
        /\ \A e \in DOMAIN centroids : Distance(x, centroids[c]) <= Distance(x, centroids[e])
        /\ \A e \in 1..c - 1 : Distance(x, centroids[c]) < Distance(x, centroids[e])

\* The rows sorted by their smallest distance; argsort does not say in which
\* order it leaves equal ones.
Orders(centroids) ==
    LET Reach(r) == Distance(cnObjects[r].at,
                             centroids[Nearest(cnObjects[r].at, centroids)])
    IN  {rows \in SetToSeqs(DOMAIN cnObjects) :
            \A i, j \in DOMAIN rows : i < j => Reach(rows[i]) <= Reach(rows[j])}

\* The greedy assignment, row -> column: every row asks for its nearest
\* centroid only, and goes without when that one is taken or too far.
Assigned(rows, centroids) ==
    LET Give(row, given) ==
            LET col == Nearest(cnObjects[row].at, centroids)
            IN  IF \/ \E r \in DOMAIN given : given[r] = col
                   \/ Distance(cnObjects[row].at, centroids[col]) > CnDistance
                THEN given ELSE [r \in DOMAIN given \cup {row} |->
                                    IF r = row THEN col ELSE given[r]]
    IN  FoldSeq(Give, [r \in {} |-> 0], Reverse(rows))

\* An object without a centroid is missed once more, and retired when that is
\* more often than max_disappeared.
Missed(o) == [o EXCEPT !.missed = @ + 1]
Retired(o) == o.missed > CnDisappeared

Registered(at, id) == [id |-> id, at |-> at, missed |-> 0]

\* What update leaves, for given rows: the matched at their new places, the
\* missed, and the new ones for the centroids left over.
Updated(given, centroids) ==
    LET old == [r \in DOMAIN cnObjects |->
                   IF r \in DOMAIN given THEN [cnObjects[r] EXCEPT !.at = centroids[given[r]],
                                                                   !.missed = 0]
                   ELSE Missed(cnObjects[r])]
        left == SetToSortSeq(DOMAIN centroids \ {given[r] : r \in DOMAIN given}, <)
    IN  SelectSeq(old, LAMBDA o : ~Retired(o))
        \o [k \in DOMAIN left |-> Registered(centroids[left[k]], cnFresh + k - 1)]

\* update: without centroids all are missed, without objects all are new.
Update(centroids) ==
    /\ cnFrame < CnFrames
    /\ \E rows \in (IF centroids = <<>> THEN {<<>>} ELSE Orders(centroids)) :
           LET after == Updated(Assigned(rows, centroids), centroids)
           IN  /\ cnObjects' = after
               /\ cnFresh' = cnFresh + Cardinality({r \in DOMAIN after : after[r].id >= cnFresh})
    /\ cnFrame' = cnFrame + 1
    /\ cnBefore' = cnObjects /\ cnGiven' = centroids
    /\ cnHeld' = [i \in 1..cnFresh' |->
           (IF i \in DOMAIN cnHeld THEN cnHeld[i] ELSE {})
           \cup {f \in {cnFrame'} : \E r \in DOMAIN cnObjects' :
                     cnObjects'[r].id = i - 1 /\ cnObjects'[r].missed = 0}]

CnNext == \E n \in 0..CnCentroids : \E centroids \in [1..n -> CnPlaces] : Update(centroids)
CnSpec == CnInit /\ [][CnNext]_cnVars
-----------------------------------------------------------------------------
CnTypeOK ==
    /\ \A r \in DOMAIN cnObjects :
           cnObjects[r] \in [id : 0..cnFresh - 1, at : CnPlaces, missed : 0..CnDisappeared]
    /\ cnFresh \in 0..CnCentroids * CnFrames /\ cnFrame \in 0..CnFrames

\* Unique objects are counted by their ids: after an update each centroid is
\* the place of one object, and an id lives until its object has been missed
\* in more than max_disappeared frames running and is not used again.
ObjectsCounted ==
    /\ \A r, q \in DOMAIN cnObjects : r < q => cnObjects[r].id < cnObjects[q].id
    /\ LET seen == SelectSeq(cnObjects, LAMBDA o : o.missed = 0)
       IN  /\ Len(seen) = Len(cnGiven)
           /\ \A x \in CnPlaces :
                  Cardinality({r \in DOMAIN seen : seen[r].at = x})
                      = Cardinality({c \in DOMAIN cnGiven : cnGiven[c] = x})
    /\ {cnObjects[r].id + 1 : r \in DOMAIN cnObjects}
           = {i \in DOMAIN cnHeld : cnFrame - Max(cnHeld[i]) <= CnDisappeared}

\* An object and a centroid that are nearest to each other, and to no other as
\* near, stay together when the step is not too long; and no object jumps
\* further than that.
NearestKept ==
    \A b \in DOMAIN cnBefore :
        /\ \A c \in DOMAIN cnGiven :
               LET far == Distance(cnBefore[b].at, cnGiven[c])
               IN  /\ far <= CnDistance
                   /\ \A e \in DOMAIN cnGiven \ {c} : far < Distance(cnBefore[b].at, cnGiven[e])
                   /\ \A o \in DOMAIN cnBefore \ {b} : far < Distance(cnBefore[o].at, cnGiven[c])
                   => \E r \in DOMAIN cnObjects : cnObjects[r].id = cnBefore[b].id
                                                  /\ cnObjects[r].at = cnGiven[c]
        /\ \A r \in DOMAIN cnObjects : cnObjects[r].id = cnBefore[b].id =>
               Distance(cnObjects[r].at, cnBefore[b].at) <= CnDistance
=============================================================================
