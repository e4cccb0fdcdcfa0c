--------------------------- MODULE Orchestration ----------------------------
(***************************************************************************)
(* ParentOrchestrator: a video is cut into overlapping time windows and    *)
(* tiles, each part is run by a child, and the detections are merged:      *)
(* of those that overlap at one time the most confident stays.  Boxes have *)
(* one dimension, x and w; rows of tiles are like columns.  Times and      *)
(* places are whole numbers; the code rounds them to multiples of OrGrain. *)
(***************************************************************************)
EXTENDS Integers, Sequences, FiniteSets, SequencesExt, FiniteSetsExt

CONSTANTS OrVideos,  \* the detections there are in a video, a set of sets
          OrEnds,    \* when the last frame may be; the first is at 0
          OrAsked,   \* time windows a run may be asked for, <<from, to>>
          OrWidths,  \* widths of a frame; 0 for frames that do not tell it
          OrPixel,   \* one pixel, the width then taken for it
          OrGrain,   \* round(_, 6) for times, round(_, 4) for places
          OrPieces   \* bound: windows, and columns of tiles

\* What a model finds lies in the video: not before its start, nor left of it.
Detections == [ts : Nat, x : Nat, w : Nat, cls : Int, conf : Int]

ASSUME OrAssumption ==
    /\ OrGrain \in Nat \ {0} /\ OrPixel \in Nat \ {0}
    /\ OrEnds \subseteq Nat /\ OrPieces \in Nat /\ OrWidths \subseteq Nat
    /\ OrAsked \subseteq Nat \X Nat
    /\ \A v \in OrVideos : IsFiniteSet(v) /\ v \subseteq Detections

VARIABLES
    orVideo,   \* the detections a model finds in the whole video
    orEnd,     \* the time of its last frame
    orWidth,   \* the width of its frames
    orAsked,   \* the time window the run is asked for, <<>> for all of it
    orPlan,    \* windows, columns, overlap in quarters of a piece
    orTodo,    \* parts still to be run, a sequence of <<window, column>>
    orOutputs, \* what the children returned, one after the other
    orMerged,  \* the merged detections
    orPc       \* new | running | merged | failed

orVars == <<orVideo, orEnd, orWidth, orAsked, orPlan, orTodo, orOutputs, orMerged, orPc>>

Plans == [windows : 1..OrPieces, columns : 1..OrPieces, overlap : {0, 1}]

OrTypeOK ==
    /\ orVideo \in OrVideos
    /\ orEnd \in OrEnds /\ orWidth \in OrWidths /\ orAsked \in OrAsked \cup {<<>>}
    /\ orPlan \in Plans
    /\ Range(orOutputs) \subseteq orVideo
    /\ Range(orMerged) \subseteq orVideo
    /\ orPc \in {"new", "running", "merged", "failed"}

OrInit ==
    /\ orEnd \in OrEnds /\ orWidth \in OrWidths /\ orAsked \in OrAsked \cup {<<>>}
    /\ orVideo \in {v \in OrVideos : \A d \in v : d.ts <= orEnd}
    /\ orPlan \in Plans
    /\ orTodo = <<>> /\ orOutputs = <<>> /\ orMerged = <<>>
    /\ orPc = "new"

(***************************************************************************)
(* Cutting                                                                 *)
(***************************************************************************)
\* p/q to the nearest multiple of the grain, halves to the even one.
Rounded(p, q) ==
    LET u == p \div (q * OrGrain)
        r == 2 * (p - u * q * OrGrain)
    IN OrGrain * (IF r > q * OrGrain \/ (r = q * OrGrain /\ u % 2 = 1) THEN u + 1 ELSE u)

\* The ends of piece i of n, as numerators over 4n.
Low(len, n, i) == Max({0, 4 * i * len - len * orPlan.overlap})
High(len, n, i) == Min({4 * n * len, 4 * (i + 1) * len + len * orPlan.overlap})

\* A child looks at its window: the one that was asked for when there is one
\* window, and a piece of the whole video when there are more.
InRequest(t) == orAsked = <<>> \/ (orAsked[1] <= t /\ t <= orAsked[2])

\* Variant of InWindow: the end of a window belongs to the next one.
InWindowOpen(t, i) ==
    LET n == orPlan.windows IN
    IF n = 1 THEN InRequest(t)
    ELSE t >= Rounded(Low(orEnd, n, i), 4 * n) /\ t < Rounded(High(orEnd, n, i), 4 * n)

InWindow(t, i) ==
    LET n == orPlan.windows IN
    IF n = 1 THEN InRequest(t)
    ELSE t >= Rounded(Low(orEnd, n, i), 4 * n) /\ t <= Rounded(High(orEnd, n, i), 4 * n)

\* A tile is its corner and its width, rounded apart; a box is where its
\* centre is.
Width == IF orWidth = 0 THEN OrPixel ELSE orWidth
CenterInTile(d, i) ==
    LET n == orPlan.columns
        x == Rounded(Low(Width, n, i), 4 * n)
        w == Rounded(High(Width, n, i) - Low(Width, n, i), 4 * n)
    IN n = 1 \/ (2 * x <= 2 * d.x + d.w /\ 2 * d.x + d.w <= 2 * (x + w))

BuildPartitions ==
    /\ orPc = "new"
    /\ orTodo' = [k \in 1..(orPlan.windows * orPlan.columns) |->
           <<(k - 1) \div orPlan.columns, (k - 1) % orPlan.columns>>]
    /\ orPc' = "running"
    /\ UNCHANGED <<orVideo, orEnd, orWidth, orAsked, orPlan, orOutputs, orMerged>>

(***************************************************************************)
(* Order, likeness and merging                                             *)
(***************************************************************************)
\* Lexicographic order of sequences of numbers.
Before(a, b) ==
    \E k \in DOMAIN a : a[k] < b[k] /\ \A j \in 1..(k - 1) : a[j] = b[j]

TimeKey(d) == <<d.ts, d.cls, -d.conf, d.x, d.w>>
RankKey(d) == <<-d.conf, d.ts, d.cls, d.x, d.w>>

\* IoU of at least a half; boxes without area are like nothing.
Overlap(a, b) == Max({0, Min({a.x + a.w, b.x + b.w}) - Max({a.x, b.x})})
Alike(a, b) ==
    /\ a.cls = b.cls /\ a.ts = b.ts
    /\ Overlap(a, b) > 0
    /\ 2 * Overlap(a, b) >= a.w + b.w - Overlap(a, b)

\* sorted: the place of an entry is how many come no later, equals in the
\* order they had.  Copies of one detection come from several children.
Ordered(s, key) ==
    LET Place(n) == Cardinality({m \in DOMAIN s :
                        \/ Before(key[s[m]], key[s[n]])
                        \/ key[s[m]] = key[s[n]] /\ m <= n})
    IN  [i \in DOMAIN s |-> s[CHOOSE n \in DOMAIN s : Place(n) = i]]
ByTime(s) == Ordered(s, [d \in Range(s) |-> TimeKey(d)])
ByRank(s) == Ordered(s, [d \in Range(s) |-> RankKey(d)])

\* The greedy pass: one that is like an earlier one is dropped.
Unrivalled(s) ==
    FoldLeft(LAMBDA kept, c :
                 IF \E k \in Range(kept) : Alike(k, c) THEN kept ELSE Append(kept, c),
             <<>>, s)
Dedupe(s) == ByTime(Unrivalled(ByRank(s)))

RunOf(ds) == ByTime(SetToSeq(ds))

\* One child: the pipeline over its window, then the tile filter.
ProcessPartition ==
    /\ orPc = "running" /\ orTodo # <<>>
    /\ LET part == Head(orTodo) IN
       orOutputs' = orOutputs \o RunOf({d \in orVideo :
           InWindow(d.ts, part[1]) /\ CenterInTile(d, part[2])})
    /\ orTodo' = Tail(orTodo)
    /\ UNCHANGED <<orVideo, orEnd, orWidth, orAsked, orPlan, orMerged, orPc>>

\* What a child raises ends the run, and the other parts' results with it.
ChildRaises ==
    /\ orPc = "running" /\ orTodo # <<>>
    /\ orPc' = "failed"
    /\ orOutputs' = <<>>
    /\ UNCHANGED <<orVideo, orEnd, orWidth, orAsked, orPlan, orTodo, orMerged>>

MergeRunOutputs ==
    /\ orPc = "running" /\ orTodo = <<>>
    /\ orMerged' = Dedupe(orOutputs)
    /\ orPc' = "merged"
    /\ UNCHANGED <<orVideo, orEnd, orWidth, orAsked, orPlan, orTodo, orOutputs>>

OrNext ==
    \/ BuildPartitions \/ ProcessPartition \/ ChildRaises
    \/ MergeRunOutputs

OrSpec == OrInit /\ [][OrNext]_orVars

\* Rounding moves no edge: the last frame and the tiles' edges are on the
\* grid the code rounds to.  And a box that has no area is like no other,
\* not even its own copy.
OnGrid ==
    /\ orEnd % OrGrain = 0
    /\ Width % (4 * orPlan.columns * OrGrain) = 0 \/ orPlan.columns = 1
    /\ \A d \in orVideo : d.w > 0

\* What the windows and tiles of a plan cover.  One window is what the run was
\* asked for, several are the whole video, whatever was asked; tiles are the
\* frame, or its first pixel when the frames do not tell their width.
PlanCovers ==
    {d \in orVideo :
        /\ orPlan.windows = 1 => InRequest(d.ts)
        /\ orPlan.columns > 1 => 2 * d.x + d.w <= 2 * Width}

\* How what a plan covers is cut does not show in the result: nothing at an edge
\* is lost, nothing in an overlap is counted twice, nothing else is reported, and
\* of detections that compete across windows and tiles the same one wins.
CutIsExact ==
    orPc = "merged" /\ OnGrid => orMerged = Dedupe(RunOf(PlanCovers))
=============================================================================
