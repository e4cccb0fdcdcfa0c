---------------------------- MODULE VisionProofs -----------------------------
(***************************************************************************)
(* What the tracker, the model selector, the tiled detector and a run cut  *)
(* into parts promise about what is seen in a frame, proved for every age  *)
(* and streak, every catalog, every tiling and every video.  As in         *)
(* RecordsProofs each invariant is about the variables of one component,   *)
(* and a step of another one leaves them alone.                            *)
(***************************************************************************)
EXTENDS MCRecords, FiniteSetTheorems, SequenceTheorems, FunctionTheorems,
        WellFoundedInduction, TLAPS

-----------------------------------------------------------------------------
(***************************************************************************)
(* Trajectories: what the tracker knows of an identity, and where it was.  *)
(***************************************************************************)
TrackRecords == [id : Nat, since : Nat, streak : Nat]

\* The last frame in which an identity was detected.
LastHeld(held, i, last, frame) ==
    last \in held[i] /\ last \in 1..frame /\ \A f \in held[i] : f <= last

\* A live track remembers when it was last detected, and for how many frames
\* running; the identities without a track went undetected for too long.
TracksAt(tracks, next, frame, held) ==
    /\ tracks \subseteq TrackRecords /\ IsFiniteSet(tracks)
    /\ next \in Nat /\ frame \in Nat /\ DOMAIN held = 0..next - 1
    /\ \A i \in 0..next - 1 : held[i] \subseteq 1..frame
    /\ \A t \in tracks :
          /\ t.id \in 0..next - 1 /\ t.since <= SoMaxAge
          /\ LastHeld(held, t.id, frame - t.since, frame)
          /\ t.since = 0 => \A f \in (frame - t.streak + 1)..frame : f \in held[t.id]
    /\ \A t, u \in tracks : t.id = u.id => t = u
    /\ \A i \in 0..next - 1 :
          (\A t \in tracks : t.id # i) =>
             \E last \in Nat : LastHeld(held, i, last, frame) /\ frame - last > SoMaxAge

HeldIn(held, next, f) == {i \in 0..next - 1 : f \in held[i]}
FewHeld(next, frame, held) ==
    \A f \in 1..frame : Cardinality(HeldIn(held, next, f)) <= SoDetections

\* The frames an object must have been detected in for a point in frame f.
Window(f) == (IF f > SoMinHits THEN f - SoMinHits + 1 ELSE f)..f
PointsAt(points, next, frame, held) ==
    /\ DOMAIN points = 0..next - 1
    /\ \A i \in 0..next - 1 :
          /\ points[i] \in Seq(1..frame)
          /\ \A k \in 1..Len(points[i]) :
                /\ Window(points[i][k]) \subseteq held[i]
                /\ k > 1 => points[i][k - 1] < points[i][k]

SoInv ==
    /\ TracksAt(soTracks, soNextId, soFrame, soHeld)
    /\ FewHeld(soNextId, soFrame, soHeld)
    /\ PointsAt(soPoints, soNextId, soFrame, soHeld)

LEMMA SoInvInit == SoInit => SoInv
<1> SUFFICES ASSUME SoInit PROVE SoInv
  OBVIOUS
<1>1. /\ soTracks = {} /\ soNextId = 0 /\ soFrame = 0
      /\ DOMAIN soPoints = {} /\ DOMAIN soHeld = {}
  BY DEF SoInit
<1>2. 0..soNextId - 1 = {} /\ 1..soFrame = {}
  BY <1>1
<1>3. IsFiniteSet({})
  BY FS_EmptySet
<1>4. TracksAt(soTracks, soNextId, soFrame, soHeld)
  BY <1>1, <1>2, <1>3 DEF TracksAt
<1>5. FewHeld(soNextId, soFrame, soHeld) /\ PointsAt(soPoints, soNextId, soFrame, soHeld)
  BY <1>1, <1>2 DEF FewHeld, PointsAt
<1>6. QED
  BY <1>4, <1>5 DEF SoInv

LEMMA SteppedFields ==
  ASSUME NEW t \in TrackRecords, NEW d
  PROVE  /\ Stepped(t, d) \in TrackRecords /\ Stepped(t, d).id = t.id
         /\ d # 0 => /\ Stepped(t, d).since = 0
                     /\ Stepped(t, d).streak = IF t.since > 0 THEN 1 ELSE t.streak + 1
         /\ d = 0 => Stepped(t, d).since = t.since + 1
<1>1. PICK p \in TrackRecords : /\ p = Predicted(t) /\ p.id = t.id /\ p.since = t.since + 1
                                /\ p.streak = IF t.since > 0 THEN 0 ELSE t.streak
  <2>1. /\ Predicted(t) \in TrackRecords /\ Predicted(t).id = t.id
        /\ Predicted(t).since = t.since + 1
        /\ Predicted(t).streak = IF t.since > 0 THEN 0 ELSE t.streak
    <3>1. PICK x \in Nat, y \in Nat :
            x = (IF t.since > 0 THEN 0 ELSE t.streak) /\ y = t.since + 1
      BY DEF TrackRecords
    <3>2. PICK u : u = [t EXCEPT !.streak = x, !.since = y]
      OBVIOUS
    <3>3. Predicted(t) = u
      BY <3>1, <3>2 DEF Predicted
    <3>4. u \in TrackRecords /\ u.id = t.id /\ u.since = y /\ u.streak = x
      BY <3>2 DEF TrackRecords
    <3>5. QED
      BY <3>1, <3>3, <3>4
  <2>2. QED
    BY <2>1
<1>2. CASE d = 0
  <2>1. Stepped(t, d) = p
    BY <1>1, <1>2 DEF Stepped
  <2>2. QED
    BY <1>1, <1>2, <2>1
<1>3. CASE d # 0
  <2>1. Stepped(t, d) = Matched(p)
    BY <1>1, <1>3 DEF Stepped
  <2>2. /\ Matched(p) \in TrackRecords /\ Matched(p).id = p.id /\ Matched(p).since = 0
        /\ Matched(p).streak = p.streak + 1
    <3>1. PICK x \in Nat : x = p.streak + 1
      BY DEF TrackRecords
    <3>2. PICK u : u = [p EXCEPT !.streak = x, !.since = 0]
      OBVIOUS
    <3>3. Matched(p) = u
      BY <3>1, <3>2 DEF Matched, TrackRecords
    <3>4. u \in TrackRecords /\ u.id = p.id /\ u.since = 0 /\ u.streak = x
      BY <3>2 DEF TrackRecords
    <3>5. QED
      BY <3>1, <3>3, <3>4
  <2>3. Matched(p).streak = IF t.since > 0 THEN 1 ELSE t.streak + 1
    BY <1>1, <2>2 DEF TrackRecords
  <2>4. QED
    BY <1>1, <1>3, <2>1, <2>2, <2>3
<1>4. QED
  BY <1>2, <1>3

\* The tracks that get a detection get one each: there are at most n.
LEMMA MatchingBound ==
  ASSUME NEW tracks, IsFiniteSet(tracks), NEW n \in Nat, NEW m \in [tracks -> 0..n],
         \A t, u \in tracks : m[t] = m[u] /\ m[t] # 0 => t = u
  PROVE  /\ IsFiniteSet({t \in tracks : m[t] # 0})
         /\ Cardinality({t \in tracks : m[t] # 0}) \in 0..n
<1> DEFINE hit == {t \in tracks : m[t] # 0}
           f == [t \in hit |-> m[t]]
<1>1. f \in [hit -> 1..n]
  OBVIOUS
<1>2. \A t, u \in hit : f[t] = f[u] => t = u
  OBVIOUS
<1>3. f \in Injection(hit, 1..n)
  BY <1>1, <1>2 DEF Injection, IsInjective
<1>4. IsFiniteSet(1..n) /\ Cardinality(1..n) = n
  BY FS_Interval
<1> HIDE DEF f, hit
<1>5. IsFiniteSet(hit) /\ Cardinality(hit) <= n
  BY <1>3, <1>4, FS_Injection
<1>6. Cardinality(hit) \in Nat
  BY <1>5, FS_CardinalityType
<1>7. IsFiniteSet(hit) /\ Cardinality(hit) \in 0..n
  BY <1>5, <1>6
<1>8. QED
  BY <1>7 DEF hit

\* The values of a function are no more than its arguments.
LEMMA ImageBound ==
  ASSUME NEW S, IsFiniteSet(S), NEW f, DOMAIN f = S
  PROVE  /\ IsFiniteSet({f[x] : x \in S})
         /\ Cardinality({f[x] : x \in S}) <= Cardinality(S)
<1> DEFINE T == {f[x] : x \in S}
           g == [x \in S |-> f[x]]
<1>1. g \in Surjection(S, T)
  BY DEF Surjection
<1> HIDE DEF T, g
<1>2. IsFiniteSet(T) /\ Cardinality(T) <= Cardinality(S)
  BY <1>1, FS_Surjection
<1>3. QED
  BY <1>2 DEF T

\* What a frame does: to the tracks, to the history of each identity and to
\* its trajectory.
FrameDone(n, m, left, all, seen, reported) ==
    /\ left \in Nat /\ all \subseteq TrackRecords
    /\ n = Cardinality({t \in soTracks : m[t] # 0}) + left
    /\ IsFiniteSet({t \in soTracks : m[t] # 0}) /\ IsFiniteSet(all)
    /\ all = {Stepped(t, m[t]) : t \in soTracks}
             \cup {Fresh(soNextId + k) : k \in 0..left - 1}
    /\ seen = {x.id : x \in {y \in all : y.since = 0}}
    /\ reported = {x.id : x \in {y \in all : Confirmed(y, soFrame + 1)}}
    /\ soFrame' = soFrame + 1 /\ soNextId' = soNextId + left
    /\ soTracks' = {x \in all : x.since <= SoMaxAge}
    /\ soHeld' = [i \in 0..soNextId' - 1 |->
          (IF i \in DOMAIN soHeld THEN soHeld[i] ELSE {})
             \cup (IF i \in seen THEN {soFrame'} ELSE {})]
    /\ soPoints' = [i \in 0..soNextId' - 1 |->
          (IF i \in DOMAIN soPoints THEN soPoints[i] ELSE <<>>)
             \o (IF i \in reported THEN <<soFrame'>> ELSE <<>>)]

LEMMA FrameFacts ==
  ASSUME SoInv, NEW n \in 0..SoDetections, NEW m, m \in Matchings(n), Frame(n, m)
  PROVE  \E left, all, seen, reported : FrameDone(n, m, left, all, seen, reported)
<1>1. /\ soTracks \subseteq TrackRecords /\ IsFiniteSet(soTracks) /\ soNextId \in Nat
      /\ soFrame \in Nat
  BY DEF SoInv, TracksAt
<1>2. m \in [soTracks -> 0..n] /\ \A t, u \in soTracks : m[t] = m[u] /\ m[t] # 0 => t = u
  BY DEF Matchings
<1>3. n \in Nat
  BY SoAssumption
<1>4. PICK hit : hit = {t \in soTracks : m[t] # 0}
  OBVIOUS
<1>5. IsFiniteSet(hit) /\ Cardinality(hit) \in 0..n
  BY <1>1, <1>2, <1>3, <1>4, MatchingBound
<1>6. PICK left \in Nat : left = n - Cardinality(hit) /\ n = Cardinality(hit) + left
  <2>1. PICK c \in 0..n : c = Cardinality(hit)
    BY <1>5
  <2>2. n - c \in Nat /\ n = c + (n - c)
    BY <1>3
  <2>3. QED
    BY <2>1, <2>2
<1> DEFINE Old == {Stepped(t, m[t]) : t \in soTracks}
           New == {Fresh(soNextId + k) : k \in 0..left - 1}
<1>7. Old \subseteq TrackRecords
  <2>1. \A t \in soTracks : Stepped(t, m[t]) \in TrackRecords
    BY <1>1, SteppedFields
  <2>2. QED
    BY <2>1
<1>8. New \subseteq TrackRecords
  BY <1>1 DEF Fresh, TrackRecords
<1>9. IsFiniteSet(Old)
  <2>1. PICK f : f = [t \in soTracks |-> Stepped(t, m[t])]
    OBVIOUS
  <2>2. DOMAIN f = soTracks /\ Old = {f[t] : t \in soTracks}
    BY <2>1
  <2>3. QED
    BY <1>1, <2>2, ImageBound
<1>10. IsFiniteSet(New)
  <2>1. PICK f : f = [k \in 0..left - 1 |-> Fresh(soNextId + k)]
    OBVIOUS
  <2>2. DOMAIN f = 0..left - 1 /\ New = {f[k] : k \in 0..left - 1}
    BY <2>1
  <2>3. IsFiniteSet(0..left - 1)
    BY FS_Interval
  <2>4. QED
    BY <2>2, <2>3, ImageBound
<1>11. PICK all \in SUBSET TrackRecords : all = Old \cup New /\ IsFiniteSet(all)
  <2>1. IsFiniteSet(Old \cup New)
    <3> HIDE DEF Old, New
    <3>1. QED
      BY <1>9, <1>10, FS_Union
  <2>2. Old \cup New \subseteq TrackRecords
    BY <1>7, <1>8
  <2>3. QED
    BY <2>1, <2>2
<1>12. PICK seen, reported :
         /\ seen = {x.id : x \in {y \in all : y.since = 0}}
         /\ reported = {x.id : x \in {y \in all : Confirmed(y, soFrame + 1)}}
  OBVIOUS
<1>13. left = n - Cardinality({t \in soTracks : m[t] # 0})
  BY <1>4, <1>6
<1>14. /\ soFrame' = soFrame + 1 /\ soNextId' = soNextId + left
       /\ soTracks' = {x \in all : x.since <= SoMaxAge}
       /\ soHeld' = [i \in 0..soNextId' - 1 |->
             (IF i \in DOMAIN soHeld THEN soHeld[i] ELSE {})
                \cup (IF i \in seen THEN {soFrame'} ELSE {})]
       /\ soPoints' = [i \in 0..soNextId' - 1 |->
             (IF i \in DOMAIN soPoints THEN soPoints[i] ELSE <<>>)
                \o (IF i \in reported THEN <<soFrame'>> ELSE <<>>)]
  BY <1>11, <1>12, <1>13, Zenon DEF Frame
<1>15. n = Cardinality({t \in soTracks : m[t] # 0}) + left
  BY <1>4, <1>6
<1>16. IsFiniteSet({t \in soTracks : m[t] # 0})
  BY <1>4, <1>5
<1>17. all = {Stepped(t, m[t]) : t \in soTracks} \cup {Fresh(soNextId + k) : k \in 0..left - 1}
  BY <1>11
<1> HIDE DEF Old, New
<1>18. IsFiniteSet(all)
  BY <1>11
<1>19. FrameDone(n, m, left, all, seen, reported)
  BY <1>12, <1>14, <1>15, <1>16, <1>17, <1>18, Zenon DEF FrameDone
<1>20. QED
  BY <1>19

\* What a frame changes of the history: it is added to the identities whose
\* track was matched, and is all there is of the new ones.
HeldAfter(m, left, seen) ==
    /\ \A t \in soTracks : t.id \in seen <=> m[t] # 0
    /\ \A i \in 0..soNextId - 1 : (\A t \in soTracks : t.id # i) => i \notin seen
    /\ \A i \in seen : \/ \E t \in soTracks : m[t] # 0 /\ t.id = i
                       \/ i \in soNextId..soNextId + left - 1
    /\ DOMAIN soHeld' = 0..soNextId' - 1
    /\ \A i \in 0..soNextId - 1 : i \in seen => soHeld'[i] = soHeld[i] \cup {soFrame'}
    /\ \A i \in 0..soNextId - 1 : i \notin seen => soHeld'[i] = soHeld[i]
    /\ \A i \in soNextId..soNextId + left - 1 : soHeld'[i] = {soFrame'}

LEMMA SteppedTrack ==
  ASSUME SoInv, NEW n, NEW m, NEW left, NEW all, NEW seen, NEW reported,
         FrameDone(n, m, left, all, seen, reported)
  PROVE  /\ \A t \in soTracks : Stepped(t, m[t]) \in all
         /\ \A k \in 0..left - 1 : Fresh(soNextId + k) \in all
         /\ \A x \in all : \/ \E t \in soTracks : x = Stepped(t, m[t])
                           \/ \E k \in 0..left - 1 : x = Fresh(soNextId + k)
         /\ \A t \in soTracks :
               /\ t.id \in 0..soNextId - 1 /\ Stepped(t, m[t]).id = t.id
               /\ m[t] # 0 => /\ Stepped(t, m[t]).since = 0
                              /\ Stepped(t, m[t]).streak =
                                    IF t.since > 0 THEN 1 ELSE t.streak + 1
               /\ m[t] = 0 => Stepped(t, m[t]).since = t.since + 1
<1>1. all = {Stepped(t, m[t]) : t \in soTracks}
            \cup {Fresh(soNextId + k) : k \in 0..left - 1}
  BY DEF FrameDone
<1>2. \A t \in soTracks : t \in TrackRecords /\ t.id \in 0..soNextId - 1
  BY DEF SoInv, TracksAt
<1>3. QED
  BY <1>1, <1>2, SteppedFields

LEMMA HistoryGrows ==
  ASSUME SoInv, NEW n, NEW m, NEW left, NEW all, NEW seen, NEW reported,
         FrameDone(n, m, left, all, seen, reported)
  PROVE  HeldAfter(m, left, seen)
<1>1. /\ left \in Nat /\ soNextId \in Nat /\ soNextId' = soNextId + left
      /\ DOMAIN soHeld = 0..soNextId - 1
      /\ \A t, u \in soTracks : t.id = u.id => t = u
  BY DEF FrameDone, SoInv, TracksAt
<1>2. /\ \A t \in soTracks : Stepped(t, m[t]) \in all
      /\ \A k \in 0..left - 1 : Fresh(soNextId + k) \in all
      /\ \A x \in all : \/ \E t \in soTracks : x = Stepped(t, m[t])
                        \/ \E k \in 0..left - 1 : x = Fresh(soNextId + k)
      /\ \A t \in soTracks :
            /\ t.id \in 0..soNextId - 1 /\ Stepped(t, m[t]).id = t.id
            /\ m[t] # 0 => Stepped(t, m[t]).since = 0
            /\ m[t] = 0 => Stepped(t, m[t]).since = t.since + 1
  BY SteppedTrack
<1>3. \A t \in soTracks : t.since \in Nat
  BY DEF SoInv, TracksAt, TrackRecords
<1>4. \A i : i \in seen <=> \E x \in all : x.id = i /\ x.since = 0
  BY DEF FrameDone
<1>5. \A k \in 0..left - 1 : Fresh(soNextId + k).id = soNextId + k
                             /\ Fresh(soNextId + k).since = 0
  BY DEF Fresh
<1>6. \A t \in soTracks : m[t] # 0 => t.id \in seen
  BY <1>2, <1>4
<1>7. \A i \in seen : \/ \E t \in soTracks : m[t] # 0 /\ t.id = i
                      \/ i \in soNextId..soNextId + left - 1
  <2>1. SUFFICES ASSUME NEW i \in seen
                 PROVE  \/ \E t \in soTracks : m[t] # 0 /\ t.id = i
                        \/ i \in soNextId..soNextId + left - 1
    OBVIOUS
  <2>2. PICK x \in all : x.id = i /\ x.since = 0
    BY <1>4
  <2>3. CASE \E t \in soTracks : x = Stepped(t, m[t])
    <3>1. PICK t \in soTracks : x = Stepped(t, m[t])
      BY <2>3
    <3>2. t.id = i
      BY <1>2, <2>2, <3>1
    <3>3. m[t] # 0
      <4>1. ASSUME m[t] = 0 PROVE FALSE
        <5>1. t.since + 1 = 0
          BY <1>2, <2>2, <3>1, <4>1
        <5>2. QED
          BY <1>3, <5>1
      <4>2. QED
        BY <4>1
    <3>4. QED
      BY <3>2, <3>3
  <2>4. CASE \E k \in 0..left - 1 : x = Fresh(soNextId + k)
    <3>1. PICK k \in 0..left - 1 : x = Fresh(soNextId + k)
      BY <2>4
    <3>2. i = soNextId + k
      BY <1>5, <2>2, <3>1
    <3>3. QED
      BY <1>1, <3>2
  <2>5. QED
    BY <1>2, <2>3, <2>4
<1>8. \A t \in soTracks : t.id \in seen => m[t] # 0
  <2>1. SUFFICES ASSUME NEW t \in soTracks, t.id \in seen PROVE m[t] # 0
    OBVIOUS
  <2>2. t.id \notin soNextId..soNextId + left - 1
    BY <1>1, <1>2
  <2>3. PICK u \in soTracks : m[u] # 0 /\ u.id = t.id
    BY <1>7, <2>1, <2>2
  <2>4. QED
    BY <1>1, <2>3
<1>9. \A i \in 0..soNextId - 1 : (\A t \in soTracks : t.id # i) => i \notin seen
  BY <1>1, <1>7
<1>10. \A i \in soNextId..soNextId + left - 1 : i \in seen /\ i \in 0..soNextId' - 1
                                               /\ i \notin DOMAIN soHeld
  <2>1. SUFFICES ASSUME NEW i \in soNextId..soNextId + left - 1
                 PROVE  i \in seen /\ i \in 0..soNextId' - 1 /\ i \notin DOMAIN soHeld
    OBVIOUS
  <2>2. i - soNextId \in 0..left - 1 /\ soNextId + (i - soNextId) = i
    BY <1>1
  <2>3. PICK k \in 0..left - 1 : soNextId + k = i
    BY <2>2
  <2>4. i \in seen
    BY <1>2, <1>4, <1>5, <2>3
  <2>5. QED
    BY <1>1, <2>4
<1>11. \A i \in 0..soNextId - 1 : i \in 0..soNextId' - 1 /\ i \in DOMAIN soHeld
  BY <1>1
<1>12. soHeld' = [i \in 0..soNextId' - 1 |->
          (IF i \in DOMAIN soHeld THEN soHeld[i] ELSE {})
             \cup (IF i \in seen THEN {soFrame'} ELSE {})]
  BY DEF FrameDone
<1>13. \A i \in 0..soNextId - 1 :
          /\ i \in seen => soHeld'[i] = soHeld[i] \cup {soFrame'}
          /\ i \notin seen => soHeld'[i] = soHeld[i]
  BY <1>11, <1>12
<1>14. \A i \in soNextId..soNextId + left - 1 : soHeld'[i] = {soFrame'}
  BY <1>10, <1>12
<1>15. DOMAIN soHeld' = 0..soNextId' - 1
  BY <1>12
<1>16. QED
  BY <1>6, <1>7, <1>8, <1>9, <1>13, <1>14, <1>15 DEF HeldAfter

LEMMA TracksAfterFrame ==
  ASSUME SoInv, NEW n, NEW m, NEW left, NEW all, NEW seen, NEW reported,
         FrameDone(n, m, left, all, seen, reported)
  PROVE  TracksAt(soTracks, soNextId, soFrame, soHeld)'
<1>1. /\ left \in Nat /\ soNextId \in Nat /\ soNextId' = soNextId + left
      /\ soFrame \in Nat /\ soFrame' = soFrame + 1
      /\ DOMAIN soHeld = 0..soNextId - 1
      /\ \A t, u \in soTracks : t.id = u.id => t = u
  BY DEF FrameDone, SoInv, TracksAt
<1>2. /\ \A t \in soTracks : Stepped(t, m[t]) \in all
      /\ \A k \in 0..left - 1 : Fresh(soNextId + k) \in all
      /\ \A x \in all : \/ \E t \in soTracks : x = Stepped(t, m[t])
                        \/ \E k \in 0..left - 1 : x = Fresh(soNextId + k)
      /\ \A t \in soTracks :
            /\ t.id \in 0..soNextId - 1 /\ Stepped(t, m[t]).id = t.id
            /\ m[t] # 0 => /\ Stepped(t, m[t]).since = 0
                           /\ Stepped(t, m[t]).streak =
                                 IF t.since > 0 THEN 1 ELSE t.streak + 1
            /\ m[t] = 0 => Stepped(t, m[t]).since = t.since + 1
  BY SteppedTrack
<1>3. HeldAfter(m, left, seen)
  BY HistoryGrows
<1>4. /\ soTracks' = {x \in all : x.since <= SoMaxAge} /\ all \subseteq TrackRecords
      /\ IsFiniteSet(all)
  BY DEF FrameDone
<1>5. soTracks' \subseteq TrackRecords /\ IsFiniteSet(soTracks')
  BY <1>4, FS_Subset
<1>6. \A k \in 0..left - 1 : /\ Fresh(soNextId + k).id = soNextId + k
                             /\ Fresh(soNextId + k).since = 0
                             /\ Fresh(soNextId + k).streak = 0
  BY DEF Fresh
<1>7. \A t \in soTracks :
        /\ t.since \in Nat /\ t.streak \in Nat /\ t.since <= SoMaxAge
        /\ soFrame - t.since \in soHeld[t.id] /\ soFrame - t.since \in 1..soFrame
        /\ \A f \in soHeld[t.id] : f <= soFrame - t.since
        /\ t.since = 0 => \A f \in (soFrame - t.streak + 1)..soFrame : f \in soHeld[t.id]
  BY DEF SoInv, TracksAt, TrackRecords, LastHeld
<1>8. ASSUME NEW x \in soTracks'
      PROVE  /\ x.id \in 0..soNextId' - 1 /\ x.since <= SoMaxAge
             /\ LastHeld(soHeld', x.id, soFrame' - x.since, soFrame')
             /\ x.since = 0 => \A f \in (soFrame' - x.streak + 1)..soFrame' : f \in soHeld'[x.id]
  <2>1. x \in all /\ x.since <= SoMaxAge
    BY <1>4, <1>8
  <2>2. CASE \E t \in soTracks : x = Stepped(t, m[t])
    <3>1. PICK t \in soTracks : x = Stepped(t, m[t])
      BY <2>2
    <3>2. PICK i \in 0..soNextId - 1 : i = t.id /\ i = x.id
      BY <1>2, <3>1
    <3>3. i \in 0..soNextId' - 1
      BY <1>1
    <3>4. PICK since \in Nat, streak \in Nat : since = t.since /\ streak = t.streak
      BY <1>7
    <3>5. /\ soFrame - since \in soHeld[i] /\ soFrame - since \in 1..soFrame
          /\ \A f \in soHeld[i] : f <= soFrame - since
          /\ since = 0 => \A f \in (soFrame - streak + 1)..soFrame : f \in soHeld[i]
      BY <1>7, <3>2, <3>4
    <3>6. CASE m[t] # 0
      <4>1. soHeld'[i] = soHeld[i] \cup {soFrame'}
        BY <1>3, <3>2, <3>6 DEF HeldAfter
      <4>2. x.since = 0 /\ x.streak = IF since > 0 THEN 1 ELSE streak + 1
        BY <1>2, <3>1, <3>4, <3>6
      <4>3. \A f \in soHeld'[i] : f <= soFrame'
        <5>1. SUFFICES ASSUME NEW f \in soHeld[i] PROVE f <= soFrame'
          BY <1>1, <4>1
        <5>2. f <= soFrame - since /\ f \in soHeld[i]
          BY <3>5
        <5>3. f \in Nat
          BY <5>2, <3>2 DEF SoInv, TracksAt
        <5>4. QED
          BY <1>1, <5>2, <5>3
      <4>4. LastHeld(soHeld', i, soFrame', soFrame')
        BY <1>1, <4>1, <4>3 DEF LastHeld
      <4>5. \A f \in (soFrame' - x.streak + 1)..soFrame' : f \in soHeld'[i]
        <5>1. CASE since > 0
          BY <1>1, <4>1, <4>2, <5>1
        <5>2. CASE since = 0
          <6>1. x.streak = streak + 1
            BY <4>2, <5>2
          <6>2. SUFFICES ASSUME NEW f \in (soFrame' - (streak + 1) + 1)..soFrame'
                         PROVE  f \in soHeld'[i]
            BY <6>1
          <6>3. f = soFrame' \/ f \in (soFrame - streak + 1)..soFrame
            BY <1>1
          <6>4. QED
            BY <3>5, <4>1, <5>2, <6>3
        <5>3. QED
          BY <5>1, <5>2
      <4>6. soFrame' - x.since = soFrame'
        BY <1>1, <4>2
      <4>7. QED
        BY <2>1, <3>2, <3>3, <4>4, <4>5, <4>6
    <3>7. CASE m[t] = 0
      <4>1. soHeld'[i] = soHeld[i]
        BY <1>3, <3>2, <3>7 DEF HeldAfter
      <4>2. x.since = since + 1
        BY <1>2, <3>1, <3>4, <3>7
      <4>3. soFrame' - x.since = soFrame - since /\ x.since # 0
        BY <1>1, <4>2
      <4>4. soFrame - since \in 1..soFrame'
        BY <1>1, <3>5
      <4>5. LastHeld(soHeld', i, soFrame' - x.since, soFrame')
        BY <3>5, <4>1, <4>3, <4>4 DEF LastHeld
      <4>6. QED
        BY <2>1, <3>2, <3>3, <4>3, <4>5
    <3>8. QED
      BY <3>6, <3>7
  <2>3. CASE \E k \in 0..left - 1 : x = Fresh(soNextId + k)
    <3>1. PICK k \in 0..left - 1 : x = Fresh(soNextId + k)
      BY <2>3
    <3>2. x.id = soNextId + k /\ x.since = 0 /\ x.streak = 0
      BY <1>6, <3>1
    <3>3. PICK i \in soNextId..soNextId + left - 1 : i = x.id
      BY <1>1, <3>2
    <3>4. soHeld'[i] = {soFrame'} /\ i \in 0..soNextId' - 1
      BY <1>1, <1>3 DEF HeldAfter
    <3>5. soFrame' - x.since = soFrame' /\ (soFrame' - x.streak + 1)..soFrame' = {}
      BY <1>1, <3>2
    <3>6. LastHeld(soHeld', i, soFrame', soFrame')
      BY <1>1, <3>4 DEF LastHeld
    <3>7. QED
      BY <2>1, <3>3, <3>4, <3>5, <3>6
  <2>4. QED
    BY <1>2, <2>1, <2>2, <2>3
<1>9. ASSUME NEW x \in soTracks', NEW y \in soTracks', x.id = y.id
      PROVE  x = y
  <2>1. x \in all /\ y \in all
    BY <1>4
  <2>2. \A z \in all : \/ \E t \in soTracks : z = Stepped(t, m[t]) /\ z.id = t.id
                                              /\ t.id \in 0..soNextId - 1
                       \/ \E k \in 0..left - 1 : z = Fresh(soNextId + k) /\ z.id = soNextId + k
    BY <1>2, <1>6
  <2>3. CASE x.id < soNextId
    <3>1. \A k \in 0..left - 1 : ~(soNextId + k < soNextId)
      BY <1>1
    <3>2. PICK t \in soTracks : x = Stepped(t, m[t]) /\ x.id = t.id
      BY <2>1, <2>2, <2>3, <3>1
    <3>3. PICK u \in soTracks : y = Stepped(u, m[u]) /\ y.id = u.id
      BY <1>9, <2>1, <2>2, <2>3, <3>1
    <3>4. t = u
      BY <1>1, <1>9, <3>2, <3>3
    <3>5. QED
      BY <3>2, <3>3, <3>4
  <2>4. CASE ~(x.id < soNextId)
    <3>1. \A i \in 0..soNextId - 1 : i < soNextId
      BY <1>1
    <3>2. PICK k \in 0..left - 1 : x = Fresh(soNextId + k) /\ x.id = soNextId + k
      BY <2>1, <2>2, <2>4, <3>1
    <3>3. PICK l \in 0..left - 1 : y = Fresh(soNextId + l) /\ y.id = soNextId + l
      BY <1>9, <2>1, <2>2, <2>4, <3>1
    <3>4. k = l
      BY <1>1, <1>9, <3>2, <3>3
    <3>5. QED
      BY <3>2, <3>3, <3>4
  <2>5. QED
    BY <2>3, <2>4
<1>10. ASSUME NEW i \in 0..soNextId' - 1, \A x \in soTracks' : x.id # i
       PROVE  \E last \in Nat : LastHeld(soHeld', i, last, soFrame') /\ soFrame' - last > SoMaxAge
  <2>1. i \in 0..soNextId - 1
    <3>1. ASSUME i \notin 0..soNextId - 1 PROVE FALSE
      <4>1. i - soNextId \in 0..left - 1 /\ soNextId + (i - soNextId) = i
        BY <1>1, <3>1
      <4>2. PICK k \in 0..left - 1 : soNextId + k = i
        BY <4>1
      <4>3. Fresh(soNextId + k) \in all /\ Fresh(soNextId + k).since = 0
            /\ Fresh(soNextId + k).id = i
        BY <1>2, <1>6, <4>2
      <4>4. Fresh(soNextId + k) \in soTracks'
        BY <1>4, <4>3, SoAssumption
      <4>5. QED
        BY <1>10, <4>3, <4>4
    <3>2. QED
      BY <3>1
  <2>2. CASE \E t \in soTracks : t.id = i
    <3>1. PICK t \in soTracks : t.id = i
      BY <2>2
    <3>2. ~(Stepped(t, m[t]).since <= SoMaxAge)
      BY <1>2, <1>4, <1>10, <3>1
    <3>3. m[t] = 0 /\ Stepped(t, m[t]).since = t.since + 1
      BY <1>2, <3>1, <3>2, SoAssumption
    <3>4. soHeld'[i] = soHeld[i]
      BY <1>3, <2>1, <3>1, <3>3 DEF HeldAfter
    <3>5. PICK since \in Nat : since = t.since
      BY <1>7
    <3>6. PICK last \in Nat : last = soFrame - since
      <4>1. soFrame - since \in 1..soFrame
        BY <1>7, <3>5
      <4>2. QED
        BY <1>1, <4>1
    <3>7. last \in soHeld[i] /\ last \in 1..soFrame /\ \A f \in soHeld[i] : f <= last
      BY <1>7, <3>1, <3>5, <3>6
    <3>8. last \in 1..soFrame' /\ soFrame' - last = since + 1
      BY <1>1, <3>5, <3>6, <3>7
    <3>9. soFrame' - last > SoMaxAge
      BY <3>2, <3>3, <3>5, <3>8, SoAssumption
    <3>10. QED
      BY <3>4, <3>7, <3>8, <3>9 DEF LastHeld
  <2>3. CASE ~(\E t \in soTracks : t.id = i)
    <3>1. PICK last \in Nat : LastHeld(soHeld, i, last, soFrame) /\ soFrame - last > SoMaxAge
      BY <2>1, <2>3 DEF SoInv, TracksAt
    <3>2. soHeld'[i] = soHeld[i]
      BY <1>3, <2>1, <2>3 DEF HeldAfter
    <3>3. last \in 1..soFrame /\ last \in 1..soFrame'
      BY <1>1, <3>1 DEF LastHeld
    <3>4. LastHeld(soHeld', i, last, soFrame')
      BY <3>1, <3>2, <3>3 DEF LastHeld
    <3>5. soFrame' - last > SoMaxAge
      BY <1>1, <3>1, SoAssumption
    <3>6. QED
      BY <3>4, <3>5
  <2>4. QED
    BY <2>2, <2>3
<1>11. soNextId' \in Nat /\ soFrame' \in Nat
  BY <1>1
<1>12. DOMAIN soHeld' = 0..soNextId' - 1
  BY <1>3 DEF HeldAfter
<1>13. ASSUME NEW i \in 0..soNextId' - 1
       PROVE  soHeld'[i] \subseteq 1..soFrame'
  <2>1. soFrame' \in 1..soFrame' /\ 1..soFrame \subseteq 1..soFrame'
    BY <1>1
  <2>2. CASE i \in 0..soNextId - 1
    <3>1. soHeld[i] \subseteq 1..soFrame
      BY <2>2 DEF SoInv, TracksAt
    <3>2. soHeld'[i] \subseteq soHeld[i] \cup {soFrame'}
      BY <1>3, <2>2 DEF HeldAfter
    <3>3. QED
      BY <2>1, <3>1, <3>2
  <2>3. CASE i \in soNextId..soNextId + left - 1
    BY <1>3, <2>1, <2>3 DEF HeldAfter
  <2>4. i \in 0..soNextId - 1 \/ i \in soNextId..soNextId + left - 1
    BY <1>1
  <2>5. QED
    BY <2>2, <2>3, <2>4
<1>14. QED
  BY <1>5, <1>8, <1>9, <1>10, <1>11, <1>12, <1>13 DEF TracksAt

LEMMA FewAfterFrame ==
  ASSUME SoInv, NEW n \in 0..SoDetections, NEW m, NEW left, NEW all, NEW seen, NEW reported,
         FrameDone(n, m, left, all, seen, reported)
  PROVE  FewHeld(soNextId, soFrame, soHeld)'
<1>1. /\ left \in Nat /\ soNextId \in Nat /\ soNextId' = soNextId + left
      /\ soFrame \in Nat /\ soFrame' = soFrame + 1
      /\ \A i \in 0..soNextId - 1 : soHeld[i] \subseteq 1..soFrame
  BY DEF FrameDone, SoInv, TracksAt
<1>2. HeldAfter(m, left, seen)
  BY HistoryGrows
<1>3. \A i \in 0..soNextId' - 1 : i \in 0..soNextId - 1 \/ i \in soNextId..soNextId + left - 1
  BY <1>1
<1>4. \A i \in 0..soNextId - 1 : i \in 0..soNextId' - 1
  BY <1>1
<1>5. ASSUME NEW f \in 1..soFrame
      PROVE  HeldIn(soHeld', soNextId', f) = HeldIn(soHeld, soNextId, f)
  <2>1. f # soFrame'
    BY <1>1
  <2>2. \A i \in 0..soNextId - 1 : f \in soHeld'[i] <=> f \in soHeld[i]
    BY <1>2, <2>1 DEF HeldAfter
  <2>3. \A i \in soNextId..soNextId + left - 1 : f \notin soHeld'[i]
    BY <1>2, <2>1 DEF HeldAfter
  <2>4. QED
    BY <1>3, <1>4, <2>2, <2>3 DEF HeldIn
<1>6. Cardinality(HeldIn(soHeld', soNextId', soFrame')) <= SoDetections
  <2>1. PICK hit : hit = {t \in soTracks : m[t] # 0} /\ IsFiniteSet(hit)
                   /\ n = Cardinality(hit) + left
    BY DEF FrameDone
  <2>2. PICK ids : ids = {t.id : t \in hit}
    OBVIOUS
  <2>3. IsFiniteSet(ids) /\ Cardinality(ids) <= Cardinality(hit)
    <3>1. PICK g : g = [t \in hit |-> t.id]
      OBVIOUS
    <3>2. DOMAIN g = hit /\ ids = {g[t] : t \in hit}
      BY <2>2, <3>1
    <3>3. QED
      BY <2>1, <3>2, ImageBound
  <2>4. PICK fresh : fresh = soNextId..soNextId + left - 1
    OBVIOUS
  <2>5. IsFiniteSet(fresh) /\ Cardinality(fresh) = left
    <3>1. PICK a \in Int, b \in Int : a = soNextId /\ b = soNextId + left - 1 /\ a \in Nat
      BY <1>1
    <3>2. IsFiniteSet(a..b) /\ Cardinality(a..b) = IF a > b THEN 0 ELSE b - a + 1
      BY FS_Interval
    <3>3. b = a + left - 1 /\ fresh = a..b
      BY <2>4, <3>1
    <3>4. (IF a > b THEN 0 ELSE b - a + 1) = left
      BY <1>1, <3>1, <3>3
    <3>5. QED
      BY <3>2, <3>3, <3>4
  <2>6. HeldIn(soHeld', soNextId', soFrame') \subseteq ids \cup fresh
    <3>1. SUFFICES ASSUME NEW i \in 0..soNextId' - 1, soFrame' \in soHeld'[i]
                   PROVE  i \in ids \cup fresh
      BY DEF HeldIn
    <3>2. CASE i \in 0..soNextId - 1
      <4>1. soFrame' \notin soHeld[i]
        BY <1>1, <3>2
      <4>2. i \in seen
        BY <1>2, <3>1, <3>2, <4>1 DEF HeldAfter
      <4>3. i \notin fresh
        BY <1>1, <2>4, <3>2
      <4>4. PICK t \in soTracks : m[t] # 0 /\ t.id = i
        BY <1>2, <2>4, <4>2, <4>3 DEF HeldAfter
      <4>5. QED
        BY <2>1, <2>2, <4>4
    <3>3. CASE i \in soNextId..soNextId + left - 1
      BY <2>4, <3>3
    <3>4. QED
      BY <1>3, <3>2, <3>3
  <2>7. /\ IsFiniteSet(ids \cup fresh)
        /\ Cardinality(ids \cup fresh) =
              Cardinality(ids) + Cardinality(fresh) - Cardinality(ids \cap fresh)
    BY <2>3, <2>5, FS_Union
  <2>8. PICK held : held = HeldIn(soHeld', soNextId', soFrame')
    OBVIOUS
  <2>9. IsFiniteSet(held) /\ Cardinality(held) <= Cardinality(ids \cup fresh)
    BY <2>6, <2>7, <2>8, FS_Subset
  <2>10. IsFiniteSet(ids \cap fresh)
    BY <2>3, FS_Intersection
  <2>11. PICK a \in Nat, b \in Nat, c \in Nat, d \in Nat, e \in Nat :
           /\ a = Cardinality(ids) /\ b = Cardinality(hit)
           /\ c = Cardinality(ids \cup fresh) /\ d = Cardinality(held)
           /\ e = Cardinality(ids \cap fresh)
    BY <2>1, <2>3, <2>7, <2>9, <2>10, FS_CardinalityType
  <2>12. a <= b /\ n = b + left /\ c = a + left - e /\ d <= c
    BY <2>1, <2>3, <2>5, <2>7, <2>9, <2>11
  <2>13. n \in Nat /\ n <= SoDetections
    BY SoAssumption
  <2>14. d <= SoDetections
    BY <1>1, <2>12, <2>13, SoAssumption
  <2>15. QED
    BY <2>8, <2>11, <2>14
<1>7. \A f \in 1..soFrame' : f \in 1..soFrame \/ f = soFrame'
  BY <1>1
<1>8. \A f \in 1..soFrame : Cardinality(HeldIn(soHeld, soNextId, f)) <= SoDetections
  BY DEF SoInv, FewHeld
<1>9. \A f \in 1..soFrame' : Cardinality(HeldIn(soHeld', soNextId', f)) <= SoDetections
  BY <1>5, <1>6, <1>7, <1>8
<1>10. QED
  BY <1>9 DEF FewHeld, HeldIn

LEMMA PointsAfterFrame ==
  ASSUME SoInv, NEW n, NEW m, NEW left, NEW all, NEW seen, NEW reported,
         FrameDone(n, m, left, all, seen, reported)
  PROVE  PointsAt(soPoints, soNextId, soFrame, soHeld)'
<1>1. /\ left \in Nat /\ soNextId \in Nat /\ soNextId' = soNextId + left
      /\ soFrame \in Nat /\ soFrame' = soFrame + 1 /\ DOMAIN soPoints = 0..soNextId - 1
  BY DEF FrameDone, SoInv, TracksAt, PointsAt
<1>2. HeldAfter(m, left, seen)
  BY HistoryGrows
<1>3. \A i \in 0..soNextId - 1 : soHeld[i] \subseteq soHeld'[i]
  BY <1>2 DEF HeldAfter
<1>4. \A i \in reported : Window(soFrame') \subseteq soHeld'[i]
  <2>1. SUFFICES ASSUME NEW i \in reported PROVE Window(soFrame') \subseteq soHeld'[i]
    OBVIOUS
  <2>2. PICK x \in all : x.id = i /\ Confirmed(x, soFrame + 1)
    BY DEF FrameDone
  <2>3. x \in TrackRecords
    BY DEF FrameDone
  <2>4. x.since = 0 /\ (x.streak >= SoMinHits \/ soFrame' <= SoMinHits)
    BY <1>1, <2>2, <2>3 DEF Confirmed, TrackRecords
  <2>5. x \in soTracks'
    BY <2>4, SoAssumption DEF FrameDone
  <2>6. /\ LastHeld(soHeld', i, soFrame' - x.since, soFrame')
        /\ \A f \in (soFrame' - x.streak + 1)..soFrame' : f \in soHeld'[i]
    BY <2>2, <2>4, <2>5, TracksAfterFrame DEF TracksAt
  <2>7. soFrame' \in soHeld'[i]
    BY <1>1, <2>4, <2>6 DEF LastHeld
  <2>8. PICK streak \in Nat, hits \in Nat : streak = x.streak /\ hits = SoMinHits
    BY <2>3, SoAssumption DEF TrackRecords
  <2>9. CASE soFrame' > hits
    <3>1. streak >= hits
      BY <1>1, <2>4, <2>8, <2>9
    <3>2. (soFrame' - hits + 1)..soFrame' \subseteq (soFrame' - streak + 1)..soFrame'
      BY <1>1, <2>8, <3>1
    <3>3. Window(soFrame') = (soFrame' - hits + 1)..soFrame'
      BY <2>8, <2>9 DEF Window
    <3>4. QED
      BY <2>6, <2>8, <3>2, <3>3
  <2>10. CASE ~(soFrame' > hits)
    <3>1. Window(soFrame') = soFrame'..soFrame'
      BY <2>8, <2>10 DEF Window
    <3>2. soFrame'..soFrame' = {soFrame'}
      BY <1>1
    <3>3. QED
      BY <2>7, <3>1, <3>2
  <2>11. QED
    BY <2>9, <2>10
<1>5. ASSUME NEW i \in 0..soNextId' - 1
      PROVE  /\ soPoints'[i] \in Seq(1..soFrame')
             /\ \A k \in 1..Len(soPoints'[i]) :
                   /\ Window(soPoints'[i][k]) \subseteq soHeld'[i]
                   /\ k > 1 => soPoints'[i][k - 1] < soPoints'[i][k]
  <2>1. PICK old \in Seq(1..soFrame) :
          /\ old = (IF i \in DOMAIN soPoints THEN soPoints[i] ELSE <<>>)
          /\ \A k \in 1..Len(old) : /\ Window(old[k]) \subseteq soHeld'[i]
                                    /\ k > 1 => old[k - 1] < old[k]
    <3>1. CASE i \in DOMAIN soPoints
      <4>1. /\ soPoints[i] \in Seq(1..soFrame)
            /\ \A k \in 1..Len(soPoints[i]) :
                  /\ Window(soPoints[i][k]) \subseteq soHeld[i]
                  /\ k > 1 => soPoints[i][k - 1] < soPoints[i][k]
        BY <1>1, <3>1 DEF SoInv, PointsAt
      <4>2. soHeld[i] \subseteq soHeld'[i]
        BY <1>1, <1>3, <3>1
      <4>3. PICK old \in Seq(1..soFrame) : old = soPoints[i]
        BY <4>1
      <4>4. \A k \in 1..Len(old) : /\ Window(old[k]) \subseteq soHeld'[i]
                                   /\ k > 1 => old[k - 1] < old[k]
        BY <4>1, <4>2, <4>3
      <4>5. QED
        BY <3>1, <4>3, <4>4
    <3>2. CASE i \notin DOMAIN soPoints
      <4>1. PICK old \in Seq(1..soFrame) : old = <<>> /\ Len(old) = 0
        BY EmptySeq
      <4>2. 1..Len(old) = {}
        BY <4>1
      <4>3. old = (IF i \in DOMAIN soPoints THEN soPoints[i] ELSE <<>>)
        BY <3>2, <4>1
      <4>4. QED
        BY <4>2, <4>3
    <3>3. QED
      BY <3>1, <3>2
  <2>2. soPoints'[i] = old \o (IF i \in reported THEN <<soFrame'>> ELSE <<>>)
    BY <2>1 DEF FrameDone
  <2>3. PICK len \in Nat : len = Len(old)
    BY LenProperties
  <2>4. /\ \A k \in 1..len : old[k] \in 1..soFrame
        /\ 1..soFrame \subseteq 1..soFrame' /\ soFrame' \in 1..soFrame'
    BY <1>1, <2>3, ElementOfSeq
  <2>5. old \in Seq(1..soFrame')
    <3>1. PICK few, more : few = 1..soFrame /\ more = 1..soFrame' /\ few \subseteq more
      BY <2>4
    <3>2. old \in Seq(few)
      BY <3>1
    <3>3. old \in Seq(more)
      <4>1. DOMAIN old = 1..len /\ \A k \in 1..len : old[k] \in more
        BY <2>3, <2>4, <3>1, LenProperties
      <4>2. old = [k \in 1..len |-> old[k]]
        BY <3>2, <2>3, LenProperties
      <4>3. [k \in 1..len |-> old[k]] \in [1..len -> more]
        BY <4>1
      <4>4. old \in [1..len -> more]
        BY <4>2, <4>3
      <4>5. QED
        BY <4>4, SeqDef
    <3>4. QED
      BY <3>1, <3>3
  <2>6. CASE i \notin reported
    <3>1. soPoints'[i] = old
      <4>1. old \o <<>> = old
        BY ConcatEmptySeq
      <4>2. QED
        BY <2>2, <2>6, <4>1
    <3>2. QED
      BY <2>1, <2>5, <3>1
  <2>7. CASE i \in reported
    <3>1. PICK now : now = soFrame' /\ now \in 1..soFrame' /\ \A k \in 1..len : old[k] < now
      BY <1>1, <2>4
    <3>2. PICK new \in Seq(1..soFrame') :
            /\ new = soPoints'[i] /\ Len(new) = len + 1
            /\ \A k \in 1..len : new[k] = old[k]
            /\ new[len + 1] = now
      <4>1. soPoints'[i] = old \o <<now>>
        BY <2>2, <2>7, <3>1
      <4>2. old \o <<now>> = Append(old, now)
        BY <2>5, <3>1, AppendIsConcat
      <4>3. /\ Append(old, now) \in Seq(1..soFrame') /\ Len(Append(old, now)) = len + 1
            /\ \A k \in 1..len : Append(old, now)[k] = old[k]
            /\ Append(old, now)[len + 1] = now
        BY <2>3, <2>5, <3>1, AppendProperties
      <4>4. QED
        BY <4>1, <4>2, <4>3
    <3>3. \A k \in 1..(len + 1) : k \in 1..len \/ k = len + 1
      OBVIOUS
    <3>4. ASSUME NEW k \in 1..(len + 1)
          PROVE  /\ Window(new[k]) \subseteq soHeld'[i]
                 /\ k > 1 => new[k - 1] < new[k]
      <4>1. CASE k \in 1..len
        <5>1. k > 1 => k - 1 \in 1..len
          BY <4>1
        <5>2. QED
          BY <2>1, <2>3, <3>2, <4>1, <5>1
      <4>2. CASE k = len + 1
        <5>1. Window(new[k]) \subseteq soHeld'[i]
          BY <1>4, <2>7, <3>1, <3>2, <4>2
        <5>2. k > 1 => k - 1 \in 1..len
          BY <4>2
        <5>3. k > 1 => new[k - 1] < new[k]
          BY <3>1, <3>2, <4>2, <5>2
        <5>4. QED
          BY <5>1, <5>3
      <4>3. QED
        BY <3>3, <4>1, <4>2
    <3>5. QED
      BY <3>2, <3>4
  <2>8. QED
    BY <2>6, <2>7
<1>6. DOMAIN soPoints' = 0..soNextId' - 1
  BY DEF FrameDone
<1>7. QED
  BY <1>5, <1>6 DEF PointsAt, Window

LEMMA SoInvStep == SoInv /\ SoNext => SoInv'
<1>1. ASSUME SoInv, NEW n \in 0..SoDetections, NEW m, m \in Matchings(n), Frame(n, m)
      PROVE  SoInv'
  <2>1. PICK left, all, seen, reported : FrameDone(n, m, left, all, seen, reported)
    BY <1>1, FrameFacts
  <2>2. QED
    BY <1>1, <2>1, TracksAfterFrame, FewAfterFrame, PointsAfterFrame DEF SoInv
<1>2. ASSUME SoInv, Finish PROVE SoInv'
  BY <1>2 DEF Finish, SoInv
<1>3. QED
  BY <1>1, <1>2 DEF SoNext

LEMMA SoInvStays == SoInv /\ UNCHANGED soVars => SoInv'
BY DEF SoInv, soVars

LEMMA SoInvSound == SoInv => TracksHonest /\ TracksRetire
<1> SUFFICES ASSUME SoInv PROVE TracksHonest /\ TracksRetire
  OBVIOUS
<1>1. /\ DOMAIN soPoints = 0..soNextId - 1 /\ DOMAIN soHeld = 0..soNextId - 1
      /\ soFrame \in Nat
      /\ \A i \in 0..soNextId - 1 : soHeld[i] \subseteq 1..soFrame
  BY DEF SoInv, TracksAt, PointsAt
<1>2. TracksHonest
  <2>1. \A i \in DOMAIN soPoints : \A k \in 1..Len(soPoints[i]) :
          /\ Window(soPoints[i][k]) \subseteq soHeld[i]
          /\ k > 1 => soPoints[i][k - 1] < soPoints[i][k]
    BY <1>1 DEF SoInv, PointsAt
  <2>2. \A t, u \in soTracks : t.id = u.id => t = u
    BY DEF SoInv, TracksAt
  <2>3. QED
    BY <2>1, <2>2, Zenon DEF TracksHonest, Window
<1>3. \A i, last : LastHeld(soHeld, i, last, soFrame) /\ soHeld[i] \subseteq 1..soFrame
                     => LastSeen(i) = last
  <2>1. SUFFICES ASSUME NEW i, NEW last, LastHeld(soHeld, i, last, soFrame),
                        soHeld[i] \subseteq 1..soFrame
                 PROVE  LastSeen(i) = last
    OBVIOUS
  <2>2. PICK frames : frames = soHeld[i] /\ frames \subseteq Nat
    BY <2>1
  <2>3. last \in frames /\ \A f \in frames : last >= f
    BY <2>1, <2>2 DEF LastHeld
  <2>4. \A x \in frames : (\A y \in frames : x >= y) => x = last
    BY <2>2, <2>3
  <2>5. Max(frames) = last
    BY <2>3, <2>4 DEF Max
  <2>6. QED
    BY <2>2, <2>5 DEF LastSeen
<1>4. ASSUME NEW i \in 0..soNextId - 1
      PROVE  (\E t \in soTracks : t.id = i) <=> soFrame - LastSeen(i) <= SoMaxAge
  <2>1. CASE \E t \in soTracks : t.id = i
    <3>1. PICK t \in soTracks : t.id = i
      BY <2>1
    <3>2. PICK since \in Nat : /\ since = t.since /\ since <= SoMaxAge
                               /\ LastHeld(soHeld, i, soFrame - since, soFrame)
      BY <3>1 DEF SoInv, TracksAt, TrackRecords
    <3>3. LastSeen(i) = soFrame - since
      BY <1>1, <1>3, <3>2
    <3>4. soFrame - (soFrame - since) = since
      BY <1>1
    <3>5. QED
      BY <2>1, <3>2, <3>3, <3>4
  <2>2. CASE ~(\E t \in soTracks : t.id = i)
    <3>1. PICK last \in Nat : LastHeld(soHeld, i, last, soFrame) /\ soFrame - last > SoMaxAge
      BY <2>2 DEF SoInv, TracksAt
    <3>2. LastSeen(i) = last
      BY <1>1, <1>3, <3>1
    <3>3. ~(soFrame - last <= SoMaxAge)
      BY <1>1, <3>1, SoAssumption
    <3>4. QED
      BY <2>2, <3>2, <3>3
  <2>3. QED
    BY <2>1, <2>2
<1>5. {t.id : t \in soTracks} = {i \in DOMAIN soHeld : soFrame - LastSeen(i) <= SoMaxAge}
  <2>1. \A t \in soTracks : t.id \in 0..soNextId - 1
    BY DEF SoInv, TracksAt
  <2>2. QED
    BY <1>1, <1>4, <2>1
<1>6. \A f \in 1..soFrame : Cardinality({i \in DOMAIN soHeld : f \in soHeld[i]}) <= SoDetections
  BY <1>1 DEF SoInv, FewHeld, HeldIn
<1>7. QED
  BY <1>2, <1>5, <1>6 DEF TracksRetire

\* Trajectories and tracks, for every age, streak and number of detections: a
\* point of a trajectory is where its object was detected in each of the last
\* frames, points are in order, identities are not used again, a track lives
\* until its object went undetected for too long, and no detection belongs to
\* two tracks (SortTracker.update and the loop around it).
THEOREM TrajectoriesAreHonest == Spec => [](TracksHonest /\ TracksRetire)
<1>1. Init => SoInv
  BY SoInvInit DEF Init
<1>2. SoInv /\ [Next]_Everything => SoInv'
  <2>1. ASSUME [Next]_Everything PROVE SoNext \/ UNCHANGED soVars
    BY <2>1 DEF Next, Everything
  <2>2. QED
    BY <2>1, SoInvStep, SoInvStays
<1>3. QED
  BY <1>1, <1>2, SoInvSound, PTL DEF Spec

-----------------------------------------------------------------------------
(***************************************************************************)
(* The choice of a model                                                   *)
(***************************************************************************)
\* A set of numbers has a least one.
LEMMA LeastOfSet ==
  ASSUME NEW T, T \subseteq Nat, T # {}
  PROVE  \E x \in T : \A y \in T : x <= y
  <1>1. PICK x \in T : \A y \in T : ~(<<y, x>> \in OpToRel(<, Nat))
    BY NatLessThanWellFounded, WFMin
  <1>2. \A y \in T : ~(y < x)
    BY <1>1 DEF OpToRel
  <1>3. QED
    BY <1>2

\* What a query is worth, and what of a score is not for the classes.
Asked(q) == IF q.classes = {} THEN 1 ELSE Cardinality(q.classes)
Known(spec, q) == Cardinality(q.classes \cap spec.classes)
OfTask(spec, q) == IF q.task # Unasked /\ spec.task = q.task THEN 6 * Asked(q) ELSE 0

\* Altitude and tiling together weigh at most as much as two thirds of the
\* classes.
LEMMA ScoreParts ==
  ASSUME NEW q, IsFiniteSet(q.classes), NEW spec
  PROVE  /\ Asked(q) \in Nat /\ Known(spec, q) \in Nat /\ OfTask(spec, q) \in Nat
         /\ \E e \in Nat : /\ e <= 8 * Asked(q)
                           /\ Score(spec, q) = 12 * Known(spec, q) + OfTask(spec, q) + e
  <1>1. Asked(q) \in Nat
    BY FS_CardinalityType DEF Asked
  <1>2. Known(spec, q) \in Nat
    <2>1. q.classes \cap spec.classes \in SUBSET q.classes
      OBVIOUS
    <2>2. QED
      BY <2>1, FS_Subset, FS_CardinalityType DEF Known
  <1>3. OfTask(spec, q) \in Nat
    BY <1>1 DEF OfTask
  <1>4. PICK n \in Nat : n = Asked(q)
    BY <1>1
  <1>5. PICK a : a = IF q.altitude # Unasked /\ spec.altitude \in {q.altitude, "any"} THEN 4 * n ELSE 0
    OBVIOUS
  <1>6. PICK b : b = IF q.size = "large" /\ spec.tiles THEN 4 * n
                     ELSE IF q.size = "small" /\ ~spec.tiles THEN n ELSE 0
    OBVIOUS
  <1>7. a \in Nat /\ a <= 4 * n
    BY <1>5
  <1>8. b \in Nat /\ b <= 4 * n
    BY <1>6
  <1>9. Score(spec, q) = 12 * Known(spec, q) + OfTask(spec, q) + a + b
    BY <1>4, <1>5, <1>6, Zenon DEF Score, Known, OfTask, Asked
  <1>10. PICK c \in Nat, t \in Nat : c = Known(spec, q) /\ t = OfTask(spec, q)
    BY <1>2, <1>3
  <1>11. a + b \in Nat /\ a + b <= 8 * n /\ Score(spec, q) = 12 * c + t + (a + b)
    BY <1>7, <1>8, <1>9, <1>10
  <1>12. QED
    BY <1>1, <1>2, <1>3, <1>4, <1>10, <1>11

\* Of the catalog's scores up to some place one is the best, and the first
\* that is.
Leads(n, k, q) ==
    /\ n \in 1..k
    /\ \A m \in 1..k : \/ Score(CcCatalog[n], q) > Score(CcCatalog[m], q)
                       \/ Score(CcCatalog[n], q) = Score(CcCatalog[m], q) /\ n <= m

\* Places are compared one after the other: the best up to a place is the best
\* before it, or the model at that place (ModelSelector.select).
LEMMA SomeLeads ==
  ASSUME NEW q, IsFiniteSet(q.classes), NEW L \in Nat \ {0}
  PROVE  \E n : Leads(n, L, q)
  <1> DEFINE S(n) == Score(CcCatalog[n], q)
             bad == {k \in 1..L : ~ \E n : Leads(n, k, q)}
  <1>1. \A n : S(n) \in Nat
    <2>1. SUFFICES ASSUME NEW n PROVE S(n) \in Nat
      OBVIOUS
    <2>2. PICK c \in Nat, t \in Nat, e \in Nat : S(n) = 12 * c + t + e
      BY ScoreParts
    <2>3. QED
      BY <2>2
  <1>2. bad = {}
    <2> SUFFICES ASSUME bad # {} PROVE FALSE
      OBVIOUS
    <2>1. bad \subseteq Nat
      OBVIOUS
    <2>2. PICK k \in bad : \A y \in bad : k <= y
      BY <2>1, LeastOfSet
    <2>3. k \in 1..L /\ k \in Nat /\ L \in Nat /\ ~ \E n : Leads(n, k, q)
      OBVIOUS
    <2>4. CASE k = 1
      <3>1. \A m \in 1..1 : m = 1
        OBVIOUS
      <3>2. Leads(1, 1, q)
        BY <3>1 DEF Leads
      <3>3. QED
        BY <2>3, <2>4, <3>2
    <2>5. CASE k # 1
      <3>1. k - 1 \in 1..L /\ ~(k <= k - 1) /\ k \in 1..k
        BY <2>3, <2>5
      <3>2. k - 1 \notin bad
        <4> HIDE DEF bad
        <4>1. QED
          BY <2>2, <3>1
      <3>3. PICK n : Leads(n, k - 1, q)
        BY <3>1, <3>2
      <3>4. /\ \A m \in 1..k : m \in 1..k - 1 \/ m = k
            /\ \A m \in 1..k - 1 : m \in 1..k /\ m <= k /\ ~(k <= m)
        BY <2>3, <3>1
      <3>5. /\ n \in 1..k - 1
            /\ \A m \in 1..k - 1 : S(n) > S(m) \/ (S(n) = S(m) /\ n <= m)
        BY <3>3 DEF Leads
      <3> HIDE DEF S, bad
      <3>6. S(n) \in Nat /\ S(k) \in Nat /\ \A m : S(m) \in Nat
        BY <1>1
      <3>7. CASE S(k) > S(n)
        <4>1. \A m \in 1..k - 1 : S(k) > S(m)
          BY <3>5, <3>6, <3>7
        <4>2. \A m \in 1..k : S(k) > S(m) \/ (S(k) = S(m) /\ k <= m)
          BY <3>4, <4>1, <2>3
        <4>3. QED
          BY <2>3, <3>1, <4>2 DEF Leads, S
      <3>8. CASE ~(S(k) > S(n))
        <4>1. S(n) > S(k) \/ (S(n) = S(k) /\ n <= k)
          BY <3>4, <3>5, <3>6, <3>8
        <4>2. \A m \in 1..k : S(n) > S(m) \/ (S(n) = S(m) /\ n <= m)
          BY <3>4, <3>5, <4>1
        <4>3. QED
          BY <2>3, <3>4, <3>5, <4>2 DEF Leads, S
      <3>9. QED
        BY <3>7, <3>8
    <2>6. QED
      BY <2>4, <2>5
  <1>3. L \in 1..L
    OBVIOUS
  <1>4. QED
    BY <1>2, <1>3

\* No model of the catalog has a better score than the one selected.
LEMMA BestIsBest ==
  ASSUME NEW q \in CcQueries
  PROVE  /\ Best(q) \in CatalogSpecs
         /\ \A s \in CatalogSpecs : ~(Score(s, q) > Score(Best(q), q))
  <1>1. PICK L \in Nat : L = Len(CcCatalog) /\ DOMAIN CcCatalog = 1..L /\ L # 0
    BY CcAssumption, LenProperties, EmptySeq
  <1>2. PICK n : Leads(n, L, q)
    BY <1>1, CcAssumption, SomeLeads
  <1> DEFINE Top(x) == \A m \in DOMAIN CcCatalog :
                 \/ Score(CcCatalog[x], q) > Score(CcCatalog[m], q)
                 \/ Score(CcCatalog[x], q) = Score(CcCatalog[m], q) /\ x <= m
             b == CHOOSE x \in DOMAIN CcCatalog : Top(x)
  <1>3. n \in DOMAIN CcCatalog /\ Top(n)
    BY <1>1, <1>2 DEF Leads
  <1>4. b \in DOMAIN CcCatalog /\ Top(b)
    BY <1>3
  <1>5. Best(q) = CcCatalog[b]
    BY DEF Best
  <1> HIDE DEF b
  <1>6. \A s \in CatalogSpecs : \E c \in Nat, t \in Nat, e \in Nat : Score(s, q) = 12 * c + t + e
    BY CcAssumption, ScoreParts
  <1>7. \A s \in CatalogSpecs : Score(s, q) \in Nat
    BY <1>6
  <1>8. ASSUME NEW m \in DOMAIN CcCatalog
        PROVE  ~(Score(CcCatalog[m], q) > Score(CcCatalog[b], q))
    <2>1. CcCatalog[m] \in CatalogSpecs /\ CcCatalog[b] \in CatalogSpecs
      BY <1>4 DEF CatalogSpecs, Range
    <2>2. PICK x \in Nat, y \in Nat : x = Score(CcCatalog[m], q) /\ y = Score(CcCatalog[b], q)
      BY <1>7, <2>1
    <2>3. y > x \/ y = x
      BY <1>4, <2>2
    <2>4. QED
      BY <2>2, <2>3
  <1>9. QED
    BY <1>4, <1>5, <1>8 DEF CatalogSpecs, Range

\* A model that knows none of the classes loses to one of its task that knows
\* them all.
LEMMA BlindLoses ==
  ASSUME NEW q, IsFiniteSet(q.classes), q.classes # {}, NEW b, q.classes \cap b.classes = {},
         NEW s, q.classes \cap s.classes = q.classes, s.task = b.task
  PROVE  Score(s, q) > Score(b, q)
  <1>1. PICK n \in Nat : n = Asked(q) /\ n = Cardinality(q.classes) /\ n # 0
    BY FS_CardinalityType, FS_EmptySet DEF Asked
  <1>2. Known(b, q) = 0 /\ Known(s, q) = n
    BY <1>1, FS_EmptySet DEF Known
  <1>3. PICK t \in Nat : t = OfTask(s, q) /\ t = OfTask(b, q)
    BY ScoreParts DEF OfTask
  <1>4. PICK d \in Nat : Score(s, q) = 12 * n + t + d
    BY <1>2, <1>3, ScoreParts
  <1>5. PICK e \in Nat : e <= 8 * n /\ Score(b, q) = 12 * 0 + t + e
    BY <1>1, <1>2, <1>3, ScoreParts
  <1>6. QED
    BY <1>1, <1>4, <1>5

\* What the name of a file alone says of the model in it.
FoundByName(spec) ==
    /\ spec.format \in {"onnx", "torch", "yolo"}
    /\ spec.yolo => spec.format = "yolo"

\* The model at hand is the best one for the query, or as its file's name says.
CcInv ==
    /\ ccStage \in {"new", "built", "loaded", "failed", "closed"}
    /\ ccFiles \subseteq {"artifact", "labels"}
    /\ ccStage = "new" => ccQuery = <<>>
    /\ ccQuery # <<>> => ccQuery \in CcQueries /\ ccSpec = Best(ccQuery)
    /\ ccQuery = <<>> /\ ccStage # "new" => FoundByName(ccSpec)
    /\ ccStage = "failed" => ~Loads(ccSpec)

\* Selecting and discovering make it so, loading and closing leave the model.
LEMMA CcInvStep == CcInv /\ CcNext => CcInv'
  <1> SUFFICES ASSUME CcInv, CcNext PROVE CcInv'
    OBVIOUS
  <1>1. CASE SelectModel
    BY <1>1, CcAssumption DEF SelectModel, CcInv
  <1>2. CASE DiscoverModel
    <2>1. PICK extension \in Extensions, yolo \in BOOLEAN, labels \in BOOLEAN :
             ccSpec' = [format |-> FormatOf(extension, yolo), extension |-> extension,
                        yolo |-> yolo, labels |-> labels]
      BY <1>2 DEF DiscoverModel
    <2>2. FormatOf(extension, yolo) \in {"onnx", "torch", "yolo"} /\ (yolo => FormatOf(extension, yolo) = "yolo")
      BY DEF FormatOf
    <2>3. FoundByName(ccSpec')
      BY <2>1, <2>2 DEF FoundByName
    <2>4. ccStage = "new" /\ ccStage' = "built" /\ ccQuery' = ccQuery /\ ccFiles' = ccFiles
      BY <1>2 DEF DiscoverModel
    <2>5. QED
      BY <2>3, <2>4 DEF CcInv
  <1>3. CASE LoadModel
    <2>1. /\ ccStage \in {"built", "closed"} /\ UNCHANGED <<ccQuery, ccSpec, ccFiles>>
          /\ ccStage' \in {"loaded", "failed"} /\ (ccStage' = "failed" => ~Loads(ccSpec))
      BY <1>3 DEF LoadModel
    <2>2. Loads(ccSpec)' <=> Loads(ccSpec)
      BY <2>1 DEF Loads, LabelsLoad
    <2>3. QED
      BY <2>1, <2>2 DEF CcInv
  <1>4. CASE CloseModel
    BY <1>4 DEF CloseModel, CcInv
  <1>5. QED
    BY <1>1, <1>2, <1>3, <1>4 DEF CcNext

\* What that means for the classes asked for and for the checkpoints of YOLO.
LEMMA CcInvWorks == CcInv => ChoiceWorks
  <1> SUFFICES ASSUME CcInv PROVE ChoiceWorks
    OBVIOUS
  <1>1. NeverBlind
    <2>1. SUFFICES ASSUME ccQuery # <<>>, ccQuery.classes # {}, Covered(ccSpec) = {},
                          NEW s \in CatalogSpecs, s.task = ccSpec.task,
                          Covered(s) = ccQuery.classes
                   PROVE  FALSE
      BY DEF NeverBlind
    <2>2. ccQuery \in CcQueries /\ ccSpec = Best(ccQuery) /\ IsFiniteSet(ccQuery.classes)
      BY <2>1, CcAssumption DEF CcInv
    <2>3. Score(s, ccQuery) > Score(ccSpec, ccQuery)
      BY <2>1, <2>2, BlindLoses DEF Covered
    <2>4. QED
      BY <2>2, <2>3, BestIsBest
  <1>2. YoloLoads
    BY DEF YoloLoads, CcInv, FoundByName, Loads, LabelsLoad
  <1>3. QED
    BY <1>1, <1>2 DEF ChoiceWorks

\* A selected model is never blind to all the requested classes while another
\* one of its task knows them all, and a checkpoint whose name says YOLO loads
\* when its files are there: for every catalog and every set of queries
\* (ModelSelector._score, select, discover_model).
THEOREM ChoicesWork == Spec => []ChoiceWorks
  <1>1. Init => CcInv
    BY DEF Init, CcInit, CcInv
  <1>2. CcInv /\ [Next]_Everything => CcInv'
    <2>1. ASSUME [Next]_Everything PROVE CcNext \/ UNCHANGED ccVars
      BY <2>1 DEF Next, Everything
    <2>2. ASSUME CcInv, UNCHANGED ccVars PROVE CcInv'
      <3>1. /\ ccStage' = ccStage /\ ccQuery' = ccQuery
            /\ ccSpec' = ccSpec /\ ccFiles' = ccFiles
        BY <2>2 DEF ccVars
      <3>2. Loads(ccSpec)' <=> Loads(ccSpec)
        BY <3>1 DEF Loads, LabelsLoad
      <3>3. QED
        BY <2>2, <3>1, <3>2 DEF CcInv
    <2>3. QED
      BY <2>1, <2>2, CcInvStep
  <1>3. QED
    BY <1>1, <1>2, CcInvWorks, PTL DEF Spec

-----------------------------------------------------------------------------
(***************************************************************************)
(* The detector's tiles                                                    *)
(***************************************************************************)
\* Dividing a multiple gives the factor back.
LEMMA ExactDivision ==
  ASSUME NEW x \in Int, NEW s \in Nat \ {0}
  PROVE  (x * s) \div s = x /\ (s * x) % s = 0
  <1>1. PICK d \in Int, m \in Int : /\ d = (x * s) \div s /\ m = (x * s) % s
                                    /\ x * s = s * d + m /\ 0 <= m /\ m < s
    OBVIOUS
  <1>2. s * (x - d) = m
    BY <1>1
  <1>3. x - d >= 1 => s * (x - d) >= s
    BY <1>1
  <1>4. x - d <= -1 => s * (x - d) <= -s
    BY <1>1
  <1>5. x = d
    BY <1>1, <1>2, <1>3, <1>4
  <1>6. m = 0
    BY <1>2, <1>5
  <1>7. s * x = x * s
    OBVIOUS
  <1>8. QED
    BY <1>1, <1>5, <1>6, <1>7

\* A factor times a larger number is larger.
LEMMA FactorKeepsOrder ==
  ASSUME NEW a \in Nat, NEW b \in Nat, a <= b, NEW m \in Nat
  PROVE  a * m \in Nat /\ b * m \in Nat /\ a * m <= b * m
  <1>1. PICK d \in Nat : b = a + d
    <2>1. b - a \in Nat /\ b = a + (b - a)
      OBVIOUS
    <2>2. QED
      BY <2>1
  <1>2. b * m = a * m + d * m /\ d * m \in Nat /\ a * m \in Nat
    BY <1>1
  <1>3. QED
    BY <1>2

\* The box the model answers is scaled back to the object it saw, unless the
\* box ends so near the edge that pixels pass for the unit interval.
LEMMA ScaledBack ==
  ASSUME NEW r, r.at \in Nat, r.size \in Nat \ {0}, DtUnit % r.size = 0,
         NEW o \in [at : Nat, size : Nat], Inside(o, r), ~Misread(o, r)
  PROVE  ScaleBox(Raw(o, r), r) = o
  <1>0. DtInput \in Nat \ {0} /\ DtUnit \in Nat \ {0}
    BY DtAssumption
  <1>1. PICK s \in Nat \ {0}, U \in Nat \ {0}, I \in Nat \ {0}, m \in Nat \ {0} :
           s = r.size /\ U = DtUnit /\ I = DtInput /\ U = m * s
    <2>1. PICK s \in Nat \ {0}, U \in Nat \ {0}, I \in Nat \ {0} :
             s = r.size /\ U = DtUnit /\ I = DtInput /\ U % s = 0
      BY <1>0
    <2>2. PICK m \in Int, k \in Int : m = U \div s /\ k = U % s /\ U = (s * m) + k
      OBVIOUS
    <2>3. U = s * m
      BY <2>1, <2>2
    <2>4. m # 0
      BY <2>3
    <2>5. ~(m <= -1)
      <3>1. m <= -1 => s * m <= -s
        OBVIOUS
      <3>2. QED
        BY <2>3, <3>1
    <2>6. m \in Nat \ {0} /\ U = m * s
      BY <2>3, <2>4, <2>5
    <2>7. QED
      BY <2>1, <2>6
  <1>2. PICK a \in Nat, e \in Nat : /\ a = o.at - r.at /\ e = (o.at + o.size) - r.at
                                    /\ a <= e /\ e <= s /\ o.at = r.at + a /\ o.size = e - a
    <2>1. o.at \in Nat /\ o.size \in Nat /\ r.at <= o.at /\ o.at + o.size <= r.at + r.size
      BY DEF Inside
    <2>2. o.at - r.at \in Nat /\ (o.at + o.size) - r.at \in Nat
      BY <2>1
    <2>3. QED
      BY <1>1, <2>1, <2>2
  <1>3. PICK K \in Nat \ {0} : K = IF dtConfig.space = "pixels" THEN I ELSE 1
    BY <1>1
  <1>4. PICK M \in Nat \ {0} : M = m * K
    <2>1. m * K \in Nat \ {0}
      OBVIOUS
    <2>2. QED
      BY <2>1
  <1>5. Raw(o, r) = <<a * M, e * M>>
    <2>1. Raw(o, r) = <<(a * U * K) \div s, (e * U * K) \div s>>
      BY <1>1, <1>2, <1>3 DEF Raw
    <2>2. ASSUME NEW x \in Nat PROVE x * U * K = (x * M) * s
      <3>1. x * (m * s) * K = (x * (m * K)) * s
        OBVIOUS
      <3>2. QED
        BY ONLY <1>1, <1>4, <3>1
    <2>3. a * M \in Int /\ e * M \in Int
      OBVIOUS
    <2>4. ((a * M) * s) \div s = a * M /\ ((e * M) * s) \div s = e * M
      BY <2>3, ExactDivision
    <2>5. QED
      BY <2>1, <2>2, <2>4
  <1>6. PICK lo \in Nat, hi \in Nat : lo = a * M /\ hi = e * M /\ lo <= hi
    BY <1>2, FactorKeepsOrder
  <1>7. Larger(lo, hi) = hi
    BY <1>6 DEF Larger
  <1>8. PICK unit \in Nat \ {0} : /\ unit = (IF 2 * hi <= 3 * U THEN U ELSE U * I)
                                  /\ unit = M * s
    <2>1. CASE dtConfig.space = "pixels"
      <3>1. ~(2 * hi <= 3 * U)
        BY <1>1, <1>5, <1>6, <2>1 DEF Misread
      <3>2. U * I \in Nat \ {0} /\ U * I = M * s
        BY <1>1, <1>3, <1>4, <2>1
      <3>3. QED
        BY <3>1, <3>2
    <2>2. CASE dtConfig.space # "pixels"
      <3>1. M = m
        BY <1>3, <1>4, <2>2
      <3>2. e * m <= s * m /\ s * m = U
        BY <1>1, <1>2, FactorKeepsOrder
      <3>3. hi <= U
        BY <1>6, <3>1, <3>2
      <3>4. 2 * hi <= 3 * U
        BY <3>3
      <3>5. QED
        BY <1>1, <3>1, <3>4
    <2>3. QED
      BY <2>1, <2>2
  <1>9. (lo * s) \div unit = a /\ (hi * s) \div unit = e
    <2>1. lo * s = a * unit /\ hi * s = e * unit
      BY <1>6, <1>8
    <2>2. (a * unit) \div unit = a /\ (e * unit) \div unit = e
      BY ExactDivision
    <2>3. QED
      BY <2>1, <2>2
  <1>10. Raw(o, r)[1] = lo /\ Raw(o, r)[2] = hi
    BY <1>5, <1>6
  <1>11. ScaleBox(Raw(o, r), r) =
            [at |-> r.at + ((lo * s) \div unit),
             size |-> (r.at + ((hi * s) \div unit)) - (r.at + ((lo * s) \div unit))]
    BY <1>1, <1>7, <1>8, <1>10, Zenon DEF ScaleBox
  <1>12. ScaleBox(Raw(o, r), r) = [at |-> o.at, size |-> o.size]
    <2>1. (r.at + e) - (r.at + a) = e - a
      BY <1>2
    <2>2. QED
      BY <1>2, <1>9, <1>11, <2>1
  <1>13. QED
    BY <1>12

\* What the profiles of a detector are, and its tiles for a frame.
Tiled(width) ==
    /\ width \in Nat \ {0}
    /\ dtConfig.tile \in Nat /\ dtConfig.overlap \in Nat
    /\ \A size \in 1..width : DtUnit % size = 0

LEMMA StepFacts ==
  ASSUME dtConfig.tile \in Nat, dtConfig.overlap \in Nat
  PROVE  TileStep(dtConfig.tile, dtConfig.overlap) \in Nat \ {0}
  <1>1. PICK t \in Nat, v \in Nat : t = dtConfig.tile /\ v = dtConfig.overlap
    OBVIOUS
  <1>2. t * (4 - v) \in Int
    OBVIOUS
  <1>3. PICK d \in Int : d = (t * (4 - v)) \div 4
    BY <1>2
  <1>4. Larger(1, d) \in Nat \ {0}
    BY DEF Larger
  <1>5. QED
    BY <1>1, <1>3, <1>4 DEF TileStep

\* There are finitely many regions, none empty, none beyond the frame.
LEMMA RegionFacts ==
  ASSUME NEW w, Tiled(w)
  PROVE  /\ IsFiniteSet(Regions(w))
         /\ \A r \in Regions(w) : r.at \in Nat /\ r.size \in 1..w
         /\ dtConfig.tile = 0 => Regions(w) = {[at |-> 0, size |-> w]}
  <1>1. PICK t \in Nat, step \in Nat \ {0} :
           t = dtConfig.tile /\ step = TileStep(dtConfig.tile, dtConfig.overlap)
    BY StepFacts DEF Tiled
  <1>2. w \in Nat \ {0}
    BY DEF Tiled
  <1>3. CASE t = 0
    <2>1. Regions(w) = {[at |-> 0, size |-> w]}
      BY <1>1, <1>3 DEF Regions
    <2>2. IsFiniteSet(Regions(w))
      <3>1. \A x : IsFiniteSet({x})
        BY FS_Singleton
      <3>2. QED
        BY <2>1, <3>1, Zenon
    <2>3. QED
      BY <1>2, <2>1, <2>2
  <1>4. CASE t # 0
    <2>1. PICK top \in Nat : top = Larger(1, w - 1) - 1 /\ (top <= w - 2 \/ top = 0)
      BY <1>2 DEF Larger
    <2> DEFINE starts == {x \in 0..top : x % step = 0}
    <2>2. Regions(w) = {[at |-> x, size |-> Smaller(t, w - x)] : x \in starts}
      BY <1>1, <1>4, <2>1 DEF Regions
    <2>3. IsFiniteSet(0..top)
      BY <2>1, FS_Interval
    <2>4. IsFiniteSet(starts)
      BY <2>3, FS_Subset
    <2>5. \A x \in starts : x \in Nat /\ Smaller(t, w - x) \in 1..w
      BY <1>2, <1>4, <2>1 DEF Smaller
    <2> HIDE DEF starts
    <2>6. IsFiniteSet(Regions(w))
      <3> DEFINE f == [x \in starts |-> [at |-> x, size |-> Smaller(t, w - x)]]
      <3>1. f \in Surjection(starts, Regions(w))
        BY <2>2 DEF Surjection
      <3>2. QED
        BY <2>4, <3>1, FS_Surjection
    <2>7. \A r \in Regions(w) : r.at \in Nat /\ r.size \in 1..w
      BY <2>2, <2>5
    <2>8. QED
      BY <1>1, <1>4, <2>6, <2>7
  <1>5. QED
    BY <1>3, <1>4

\* Tiles that overlap leave no place between them, nor at the edge.
LEMMA TilesLeaveNoGap ==
  ASSUME NEW w, Tiled(w), NEW x \in 0..w - 1,
         dtConfig.tile > TileStep(dtConfig.tile, dtConfig.overlap)
  PROVE  \E r \in Regions(w) : Inside([at |-> x, size |-> 1], r)
  <1>1. PICK t \in Nat, step \in Nat \ {0} :
           /\ t = dtConfig.tile /\ step = TileStep(dtConfig.tile, dtConfig.overlap)
           /\ t > step
    BY StepFacts DEF Tiled
  <1>2. w \in Nat \ {0}
    BY DEF Tiled
  <1>3. PICK top \in Nat : /\ top = Larger(1, w - 1) - 1
                           /\ (top = w - 2 \/ (w = 1 /\ top = 0))
    BY <1>2 DEF Larger
  <1>4. PICK y \in 0..top : y <= x /\ x <= y + 1
    <2>1. CASE x <= top
      BY <2>1
    <2>2. CASE ~(x <= top)
      <3>1. top <= x /\ x <= top + 1 /\ top \in 0..top
        BY <1>2, <1>3, <2>2
      <3>2. QED
        BY <3>1
    <2>3. QED
      BY <2>1, <2>2
  <1>5. PICK q \in Int, m \in Nat : q = y \div step /\ m = y % step /\ y = step * q + m /\ m < step
    OBVIOUS
  <1>6. PICK z \in Int : z = step * q
    OBVIOUS
  <1>7. z % step = 0
    BY <1>6, ExactDivision
  <1>8. z >= 0
    <2>1. q <= -1 => step * q <= -step
      OBVIOUS
    <2>2. q >= 0 => step * q >= 0
      OBVIOUS
    <2>3. QED
      BY <1>4, <1>5, <1>6, <2>1, <2>2
  <1>9. z \in 0..top /\ z <= y /\ y < z + step
    BY <1>4, <1>5, <1>6, <1>8
  <1> DEFINE r == [at |-> z, size |-> Smaller(t, w - z)]
  <1>10. r \in Regions(w)
    <2>1. t # 0
      BY <1>1
    <2>2. z \in {v \in 0..top : v % step = 0}
      BY <1>7, <1>9
    <2>3. Regions(w) = {[at |-> v, size |-> Smaller(t, w - v)] : v \in {v \in 0..top : v % step = 0}}
      BY <1>1, <1>3, <2>1 DEF Regions
    <2>4. QED
      BY <2>2, <2>3
  <1>11. Inside([at |-> x, size |-> 1], r)
    <2>1. x + 1 <= z + t /\ x + 1 <= z + (w - z) /\ z <= x
      BY <1>1, <1>2, <1>4, <1>9
    <2>2. x + 1 <= z + Smaller(t, w - z)
      BY <2>1 DEF Smaller
    <2>3. QED
      BY <2>1, <2>2 DEF Inside
  <1>12. QED
    BY <1>10, <1>11

\* The regions of a set as a list.
LEMMA ListOfSet ==
  ASSUME NEW T, IsFiniteSet(T)
  PROVE  /\ SetToSeq(T) \in Seq(T) /\ Len(SetToSeq(T)) = Cardinality(T)
         /\ \A x \in T : \E i \in 1..Cardinality(T) : SetToSeq(T)[i] = x
  <1>1. PICK n \in Nat : n = Cardinality(T) /\ ExistsBijection(1..n, T)
    BY FS_CardinalityType
  <1>2. PICK f : f \in Bijection(1..n, T)
    BY <1>1 DEF ExistsBijection
  <1>3. f \in [1..n -> T] /\ IsInjective(f)
    BY <1>2 DEF Bijection, Injection, IsInjective
  <1>4. SetToSeq(T) \in [1..n -> T] /\ IsInjective(SetToSeq(T))
    <2>1. SetToSeq(T) = CHOOSE g \in [1..n -> T] : IsInjective(g)
      BY <1>1 DEF SetToSeq
    <2>2. \E g \in [1..n -> T] : IsInjective(g)
      BY <1>3
    <2>3. QED
      BY <2>1, <2>2
  <1>5. PICK s \in [1..n -> T] : s = SetToSeq(T) /\ IsInjective(s)
    BY <1>4
  <1>6. s \in Seq(T) /\ Len(s) = n
    OBVIOUS
  <1>7. s \in Injection(1..n, T)
    BY <1>5 DEF Injection, IsInjective
  <1>8. IsFiniteSet(1..n) /\ Cardinality(1..n) = n
    <2>1. Cardinality(1..n) = IF 1 > n THEN 0 ELSE n - 1 + 1
      BY FS_Interval
    <2>2. QED
      BY <2>1, FS_Interval
  <1>9. s \in Surjection(1..n, T)
    BY <1>1, <1>7, <1>8, FS_Injection
  <1>10. \A x \in T : \E i \in 1..n : s[i] = x
    BY <1>9 DEF Surjection
  <1>11. QED
    BY <1>1, <1>5, <1>6, <1>10

\* Two boxes are alike in either order, and a box is like itself.
LEMMA LikeItself ==
  ASSUME NEW o, o.at \in Nat, o.size \in Nat \ {0}
  PROVE  SameObject(o, o)
  <1>1. PICK a \in Nat, s \in Nat \ {0} : a = o.at /\ s = o.size
    OBVIOUS
  <1>2. Smaller(a + s, a + s) = a + s /\ Larger(a, a) = a
    BY DEF Smaller, Larger
  <1>3. (a + s) - a = s /\ s > 0 /\ 2 * s >= s + s - s
    OBVIOUS
  <1>4. QED
    BY <1>1, <1>2, <1>3 DEF SameObject

LEMMA LikeEachOther ==
  ASSUME NEW a, NEW b, a.at \in Int, a.size \in Int, b.at \in Int, b.size \in Int
  PROVE  Like(a, b) <=> Like(b, a)
  <1>1. PICK x \in Int, s \in Int, y \in Int, t \in Int :
           x = a.at /\ s = a.size /\ y = b.at /\ t = b.size
    OBVIOUS
  <1> DEFINE Shared(i, k, m, n) == Smaller(i + k, m + n) - Larger(i, m)
             Half(i, k, m, n) == /\ Shared(i, k, m, n) > 0
                                 /\ 2 * Shared(i, k, m, n) >= k + n - Shared(i, k, m, n)
  <1>2. SameObject(a, b) <=> Half(x, s, y, t)
    BY ONLY <1>1 DEF SameObject
  <1>3. SameObject(b, a) <=> Half(y, t, x, s)
    BY ONLY <1>1 DEF SameObject
  <1>4. Half(x, s, y, t) <=> Half(y, t, x, s)
    BY DEF Smaller, Larger
  <1>5. QED
    BY <1>2, <1>3, <1>4 DEF Like

\* What is known of a detection of a frame: its box has numbers, and when it
\* was scaled to that frame it is where the model saw it, or misread.
IsDetection(d, w, used) ==
    /\ d.score \in Nat /\ d.at \in Int /\ d.size \in Int
    /\ used = w => Misread(d.part, d.region) \/ Placed(d)

\* A detection of postprocess is one, whichever frame it is scaled to.
LEMMA DetectionFacts ==
  ASSUME NEW w, Tiled(w), NEW r \in Regions(w), NEW o, o.at \in Nat, o.size \in Nat \ {0},
         Meets(o, r), NEW score \in Nat, NEW onto, onto.at \in Nat, onto.size \in Nat,
         NEW used, used = w => onto = r
  PROVE  IsDetection(Detection(o, score, r, onto), w, used)
  <1>1. r.at \in Nat /\ r.size \in Nat \ {0} /\ DtUnit % r.size = 0
    <2>1. r.at \in Nat /\ r.size \in 1..w /\ w \in Nat \ {0}
      BY RegionFacts DEF Tiled
    <2>2. QED
      BY <2>1 DEF Tiled
  <1>2. PICK box : box = Part(o, r)
    OBVIOUS
  <1>3. box \in [at : Nat, size : Nat] /\ Inside(box, r)
    <2>1. PICK a \in Nat, s \in Nat \ {0}, y \in Nat, t \in Nat \ {0} :
             a = o.at /\ s = o.size /\ y = r.at /\ t = r.size
      BY <1>1
    <2>2. PICK from \in Nat, to \in Nat : from = Larger(a, y) /\ to = Smaller(a + s, y + t)
      BY DEF Larger, Smaller
    <2>3. from < to /\ y <= from /\ to <= y + t
      BY <2>1, <2>2 DEF Larger, Smaller, Meets
    <2>4. box = [at |-> from, size |-> to - from] /\ to - from \in Nat
      BY <1>2, <2>1, <2>2, <2>3 DEF Part
    <2>5. from + (to - from) = to
      OBVIOUS
    <2>6. QED
      BY <2>1, <2>3, <2>4, <2>5 DEF Inside
  <1>4. PICK out : out = ScaleBox(Raw(box, r), onto)
    OBVIOUS
  <1>5. out.at \in Int /\ out.size \in Int
    <2>1. DtInput \in Nat \ {0} /\ DtUnit \in Nat \ {0}
      BY DtAssumption
    <2>2. PICK lo \in Int, hi \in Int : lo = Raw(box, r)[1] /\ hi = Raw(box, r)[2]
      <3>1. PICK a \in Int, e \in Int, s \in Nat \ {0}, k \in Nat \ {0} :
               /\ a = box.at - r.at /\ e = (box.at + box.size) - r.at /\ s = r.size
               /\ k = IF dtConfig.space = "pixels" THEN DtInput ELSE 1
        BY <1>1, <1>3, <2>1
      <3>2. Raw(box, r) = <<(a * DtUnit * k) \div s, (e * DtUnit * k) \div s>>
        BY <3>1 DEF Raw
      <3>3. a * DtUnit * k \in Int /\ e * DtUnit * k \in Int
        BY <2>1
      <3>4. (a * DtUnit * k) \div s \in Int /\ (e * DtUnit * k) \div s \in Int
        BY <3>3
      <3>5. QED
        BY <3>2, <3>4
    <2>3. PICK unit \in Nat \ {0} : unit = IF 2 * Larger(lo, hi) <= 3 * DtUnit
                                           THEN DtUnit ELSE DtUnit * DtInput
      <3>1. DtUnit * DtInput \in Nat \ {0}
        BY <2>1
      <3>2. QED
        BY <2>1, <3>1
    <2>4. PICK x \in Nat, z \in Nat : x = onto.at /\ z = onto.size
      OBVIOUS
    <2>5. lo * z \in Int /\ hi * z \in Int
      OBVIOUS
    <2>6. (lo * z) \div unit \in Int /\ (hi * z) \div unit \in Int
      BY <2>5
    <2>7. out = [at |-> x + ((lo * z) \div unit),
                 size |-> (x + ((hi * z) \div unit)) - (x + ((lo * z) \div unit))]
      BY <1>4, <2>2, <2>3, <2>4, Zenon DEF ScaleBox
    <2>8. QED
      BY <2>6, <2>7
  <1>6. PICK d : d = Detection(o, score, r, onto)
    OBVIOUS
  <1>7. d = [label |-> o.label, score |-> score, at |-> out.at, size |-> out.size,
             part |-> box, region |-> r]
    BY <1>2, <1>4, <1>6 DEF Detection
  <1>8. d.score = score /\ d.at = out.at /\ d.size = out.size /\ d.part = box /\ d.region = r
    BY <1>7
  <1>9. ASSUME used = w, ~Misread(box, r) PROVE out = box
    <2>1. onto = r
      BY <1>9
    <2>2. QED
      BY <1>1, <1>3, <1>4, <1>9, <2>1, ScaledBack
  <1>10. QED
    BY <1>5, <1>6, <1>8, <1>9 DEF IsDetection, Placed

\* What a thread has found, and how far the merge of it is: what is reported is
\* unlike each other and at least as certain as what is left, and what is
\* neither gave way to something reported.
FoundAt(found, w, used) ==
    /\ \E S : found \in Seq(S)
    /\ \A n \in 1..Len(found) : IsDetection(found[n], w, used)

MergedAt(found, todo, left, kept) ==
    /\ left \subseteq DOMAIN found /\ kept \subseteq DOMAIN found
    /\ todo # {} => kept = {} /\ left = DOMAIN found
    /\ dtConfig.tile = 0 => left = {} /\ (todo # {} => found = <<>>)
    /\ \A n \in DOMAIN found : n \in left \/ n \in kept
          \/ \E m \in kept : Like(found[n], found[m]) /\ found[n].score <= found[m].score
    /\ \A m \in kept, n \in left : m # n /\ found[n].score <= found[m].score
    /\ dtConfig.tile # 0 => \A m, n \in kept : m # n => ~Like(found[m], found[n])

ThreadAt(w, scene, todo, found, left, kept, used, since) ==
    /\ FoundAt(found, w, used)
    /\ MergedAt(found, todo, left, kept)
    /\ scene \in DtScenes \cup {{}}
    /\ w = 0 => todo = {} /\ found = <<>> /\ used = 0
    /\ w # 0 => w \in since /\ todo \subseteq Regions(w)
    /\ used # 0 => used \in since
    /\ dtConfig.tile # 0 => used \in {0, w} /\ (found # <<>> => used = w)

ThreadInv(p) ==
    /\ ThreadAt(dtFrame[p], dtScene[p], dtTodo[p], dtFound[p], dtLeft[p], dtKept[p],
                dtUsed[p], dtSince[p])
    /\ dtFrame[p] # 0 => dtShape \in dtSince[p]

DtInv ==
    /\ dtConfig \in DtConfigs
    /\ dtShape \in DtFrames \cup {0}
    /\ dtFrame \in [DtThreads -> DtFrames \cup {0}]
    /\ DOMAIN dtScene = DtThreads /\ DOMAIN dtTodo = DtThreads /\ DOMAIN dtFound = DtThreads
    /\ DOMAIN dtLeft = DtThreads /\ DOMAIN dtKept = DtThreads
    /\ DOMAIN dtUsed = DtThreads /\ DOMAIN dtSince = DtThreads
    /\ \A p \in DtThreads : ThreadInv(p)

\* What is known of a thread depends on the detector's profile only.
LEMMA ProfileStays ==
  ASSUME dtConfig' = dtConfig
  PROVE  /\ \A w : Regions(w)' = Regions(w)
         /\ \A w, scene, todo, found, left, kept, used, since :
              ThreadAt(w, scene, todo, found, left, kept, used, since)' <=>
              ThreadAt(w, scene, todo, found, left, kept, used, since)
  <1>1. \A w : Regions(w)' = Regions(w)
    BY DEF Regions
  <1>2. \A o, r : Misread(o, r)' <=> Misread(o, r)
    BY DEF Misread, Raw
  <1>3. \A found, w, used : FoundAt(found, w, used)' <=> FoundAt(found, w, used)
    BY <1>2 DEF FoundAt, IsDetection, Placed
  <1>4. \A found, todo, left, kept :
           MergedAt(found, todo, left, kept)' <=> MergedAt(found, todo, left, kept)
    BY DEF MergedAt
  <1>5. QED
    BY <1>1, <1>3, <1>4 DEF ThreadAt

\* A thread keeps what it has while another one brings a frame or a region.
LEMMA ThreadKept ==
  ASSUME NEW q, ThreadInv(q), dtConfig' = dtConfig, dtFrame'[q] = dtFrame[q],
         dtScene'[q] = dtScene[q], dtTodo'[q] = dtTodo[q], dtFound'[q] = dtFound[q],
         dtLeft'[q] = dtLeft[q], dtKept'[q] = dtKept[q], dtUsed'[q] = dtUsed[q],
         dtSince'[q] = dtSince[q] \/ dtSince'[q] = dtSince[q] \cup {dtShape'},
         dtShape' = dtShape \/ dtShape' \in dtSince'[q]
  PROVE  ThreadInv(q)'
  <1>1. PICK w, scene, todo, found, left, kept, used, since :
           /\ w = dtFrame[q] /\ scene = dtScene[q] /\ todo = dtTodo[q] /\ found = dtFound[q]
           /\ left = dtLeft[q] /\ kept = dtKept[q] /\ used = dtUsed[q] /\ since = dtSince[q]
    OBVIOUS
  <1>2. PICK later : later = dtSince'[q]
    OBVIOUS
  <1>3. ThreadAt(w, scene, todo, found, left, kept, used, since)
    BY <1>1 DEF ThreadInv
  <1>4. since \subseteq later
    BY <1>1, <1>2
  <1>5. ThreadAt(w, scene, todo, found, left, kept, used, later)
    BY <1>3, <1>4 DEF ThreadAt
  <1>6. ThreadAt(w, scene, todo, found, left, kept, used, later)'
    BY <1>5, ProfileStays
  <1>7. w # 0 => dtShape' \in later
    BY <1>1, <1>2, <1>4 DEF ThreadInv
  <1>8. /\ w = dtFrame'[q] /\ scene = dtScene'[q] /\ todo = dtTodo'[q] /\ found = dtFound'[q]
        /\ left = dtLeft'[q] /\ kept = dtKept'[q] /\ used = dtUsed'[q] /\ later = dtSince'[q]
    BY <1>1, <1>2
  <1>9. QED
    BY <1>6, <1>7, <1>8 DEF ThreadInv

\* The frames a detector is given are tiled as its profile says.
LEMMA FramesTiled ==
  ASSUME DtInv
  PROVE  \A w \in DtFrames : Tiled(w)
  BY DtAssumption DEF DtInv, Tiled

\* Nothing found is in order, whatever is to be looked at.
LEMMA NothingFound ==
  ASSUME NEW w, NEW used, NEW todo
  PROVE  FoundAt(<<>>, w, used) /\ MergedAt(<<>>, todo, {}, {})
  <1>1. <<>> \in Seq({}) /\ Len(<<>>) = 0 /\ DOMAIN <<>> = {}
    OBVIOUS
  <1>2. 1..0 = {}
    OBVIOUS
  <1>3. FoundAt(<<>>, w, used)
    BY <1>1, <1>2 DEF FoundAt
  <1>4. MergedAt(<<>>, todo, {}, {})
    BY <1>1 DEF MergedAt
  <1>5. QED
    BY <1>3, <1>4

\* A frame comes in: its regions are listed, nothing is found yet.
LEMMA PreprocessKeeps ==
  ASSUME DtInv, NEW p \in DtThreads, Preprocess(p)
  PROVE  DtInv'
  <1>1. PICK w \in DtFrames, scene \in DtScenes :
           /\ dtShape' = w
           /\ dtFrame' = [dtFrame EXCEPT ![p] = w]
           /\ dtScene' = [dtScene EXCEPT ![p] = scene]
           /\ dtTodo' = [dtTodo EXCEPT ![p] = Regions(w)]
           /\ dtSince' = [q \in DtThreads |-> IF q = p THEN {w} ELSE dtSince[q] \cup {w}]
    BY DEF Preprocess
  <1>2. /\ dtFound' = [dtFound EXCEPT ![p] = <<>>] /\ dtKept' = [dtKept EXCEPT ![p] = {}]
        /\ dtUsed' = [dtUsed EXCEPT ![p] = 0]
        /\ dtConfig' = dtConfig /\ dtLeft' = dtLeft /\ dtLeft[p] = {}
    BY DEF Preprocess, Returned
  <1>3. PICK todo : todo = Regions(w)
    OBVIOUS
  <1>4. /\ dtFrame'[p] = w /\ dtScene'[p] = scene /\ dtTodo'[p] = todo /\ dtFound'[p] = <<>>
        /\ dtLeft'[p] = {} /\ dtKept'[p] = {} /\ dtUsed'[p] = 0 /\ dtSince'[p] = {w}
    BY <1>1, <1>2, <1>3 DEF DtInv
  <1>5. ThreadInv(p)'
    <2>1. w \in Nat \ {0}
      BY DtAssumption
    <2>2. ThreadAt(w, scene, todo, <<>>, {}, {}, 0, {w})
      BY <1>3, <2>1, NothingFound DEF ThreadAt
    <2>3. ThreadAt(w, scene, todo, <<>>, {}, {}, 0, {w})'
      BY <1>2, <2>2, ProfileStays
    <2>4. dtShape' \in dtSince'[p]
      BY <1>1, <1>4
    <2>5. QED
      BY <1>4, <2>3, <2>4 DEF ThreadInv
  <1>6. ASSUME NEW q \in DtThreads, q # p PROVE ThreadInv(q)'
    <2>1. /\ dtFrame'[q] = dtFrame[q] /\ dtScene'[q] = dtScene[q] /\ dtTodo'[q] = dtTodo[q]
          /\ dtFound'[q] = dtFound[q] /\ dtLeft'[q] = dtLeft[q] /\ dtKept'[q] = dtKept[q]
          /\ dtUsed'[q] = dtUsed[q]
          /\ dtSince'[q] = dtSince[q] \cup {dtShape'} /\ dtShape' \in dtSince'[q]
      BY <1>1, <1>2, <1>6 DEF DtInv
    <2>2. ThreadInv(q)
      BY DEF DtInv
    <2>3. QED
      BY <1>2, <2>1, <2>2, ThreadKept
  <1>7. dtFrame' \in [DtThreads -> DtFrames \cup {0}] /\ dtShape' \in DtFrames \cup {0}
    BY <1>1 DEF DtInv
  <1>8. /\ DOMAIN dtScene' = DtThreads /\ DOMAIN dtTodo' = DtThreads /\ DOMAIN dtFound' = DtThreads
        /\ DOMAIN dtLeft' = DtThreads /\ DOMAIN dtKept' = DtThreads
        /\ DOMAIN dtUsed' = DtThreads /\ DOMAIN dtSince' = DtThreads
    BY <1>1, <1>2 DEF DtInv
  <1>9. QED
    BY <1>2, <1>5, <1>6, <1>7, <1>8 DEF DtInv

\* An infer raises: the thread has nothing.
LEMMA InferRaisesKeeps ==
  ASSUME DtInv, NEW p \in DtThreads, InferRaises(p)
  PROVE  DtInv'
  <1>1. /\ dtTodo[p] # {}
        /\ dtFrame' = [dtFrame EXCEPT ![p] = 0] /\ dtScene' = [dtScene EXCEPT ![p] = {}]
        /\ dtTodo' = [dtTodo EXCEPT ![p] = {}] /\ dtFound' = [dtFound EXCEPT ![p] = <<>>]
        /\ dtLeft' = [dtLeft EXCEPT ![p] = {}] /\ dtUsed' = [dtUsed EXCEPT ![p] = 0]
        /\ dtConfig' = dtConfig /\ dtShape' = dtShape /\ dtKept' = dtKept /\ dtSince' = dtSince
    BY DEF InferRaises
  <1>2. PICK since : since = dtSince[p]
    OBVIOUS
  <1>3. dtKept[p] = {}
    BY <1>1 DEF DtInv, ThreadInv, ThreadAt, MergedAt
  <1>4. /\ dtFrame'[p] = 0 /\ dtScene'[p] = {} /\ dtTodo'[p] = {} /\ dtFound'[p] = <<>>
        /\ dtLeft'[p] = {} /\ dtKept'[p] = {} /\ dtUsed'[p] = 0 /\ dtSince'[p] = since
    BY <1>1, <1>2, <1>3 DEF DtInv
  <1>5. ThreadInv(p)'
    <2>1. ThreadAt(0, {}, {}, <<>>, {}, {}, 0, since)
      BY NothingFound DEF ThreadAt
    <2>2. ThreadAt(0, {}, {}, <<>>, {}, {}, 0, since)'
      BY <1>1, <2>1, ProfileStays
    <2>3. QED
      BY <1>4, <2>2 DEF ThreadInv
  <1>6. ASSUME NEW q \in DtThreads, q # p PROVE ThreadInv(q)'
    <2>1. /\ dtFrame'[q] = dtFrame[q] /\ dtScene'[q] = dtScene[q] /\ dtTodo'[q] = dtTodo[q]
          /\ dtFound'[q] = dtFound[q] /\ dtLeft'[q] = dtLeft[q] /\ dtKept'[q] = dtKept[q]
          /\ dtUsed'[q] = dtUsed[q] /\ dtSince'[q] = dtSince[q]
      BY <1>1, <1>6 DEF DtInv
    <2>2. ThreadInv(q)
      BY DEF DtInv
    <2>3. QED
      BY <1>1, <2>1, <2>2, ThreadKept
  <1>7. dtFrame' \in [DtThreads -> DtFrames \cup {0}] /\ dtShape' \in DtFrames \cup {0}
    BY <1>1 DEF DtInv
  <1>8. /\ DOMAIN dtScene' = DtThreads /\ DOMAIN dtTodo' = DtThreads /\ DOMAIN dtFound' = DtThreads
        /\ DOMAIN dtLeft' = DtThreads /\ DOMAIN dtKept' = DtThreads
        /\ DOMAIN dtUsed' = DtThreads /\ DOMAIN dtSince' = DtThreads
    BY <1>1 DEF DtInv
  <1>9. QED
    BY <1>1, <1>5, <1>6, <1>7, <1>8 DEF DtInv

\* Two lists, one after the other.
OneOf(a, b, c) ==
    /\ DOMAIN c = 1..Len(c)
    /\ \A n \in 1..Len(c) : (\E i \in 1..Len(a) : c[n] = a[i]) \/ (\E i \in 1..Len(b) : c[n] = b[i])

LEMMA Joined ==
  ASSUME NEW S, NEW a \in Seq(S), NEW T, NEW b \in Seq(T)
  PROVE  a \o b \in Seq(S \cup T) /\ OneOf(a, b, a \o b)
  <1>1. a \in Seq(S \cup T) /\ b \in Seq(S \cup T)
    OBVIOUS
  <1>2. PICK m \in Nat, k \in Nat : m = Len(a) /\ k = Len(b)
    OBVIOUS
  <1>3. /\ a \o b \in Seq(S \cup T) /\ Len(a \o b) = m + k
        /\ \A n \in 1..m + k : (a \o b)[n] = IF n <= m THEN a[n] ELSE b[n - m]
    BY <1>1, <1>2, ConcatProperties
  <1>4. PICK c : c = a \o b
    OBVIOUS
  <1>5. /\ c \in Seq(S \cup T) /\ Len(c) = m + k
        /\ \A n \in 1..m + k : c[n] = IF n <= m THEN a[n] ELSE b[n - m]
    BY ONLY <1>3, <1>4
  <1>6. ASSUME NEW n \in 1..m + k
        PROVE  (\E i \in 1..m : c[n] = a[i]) \/ (\E i \in 1..k : c[n] = b[i])
    <2>1. CASE n <= m
      <3>1. n \in 1..m /\ c[n] = a[n]
        BY <1>5, <2>1
      <3>2. QED
        BY <3>1
    <2>2. CASE ~(n <= m)
      <3>1. n - m \in 1..k /\ c[n] = b[n - m]
        BY <1>5, <2>2
      <3>2. QED
        BY <3>1
    <2>3. QED
      BY <2>1, <2>2
  <1>7. DOMAIN c = 1..Len(c)
    BY <1>5, LenProperties
  <1>8. OneOf(a, b, c)
    BY <1>2, <1>5, <1>6, <1>7 DEF OneOf
  <1>9. QED
    BY <1>4, <1>5, <1>8, Zenon

\* What the model's answers for a region add to what a thread has found.
AnswersTo(T, seen, score, region, onto) ==
    T = {Detection(o, score[o], region, onto) : o \in seen}

RegionSeen(w, scene, region, shown, score, seen, onto, old, used, now, T) ==
    /\ Tiled(w) /\ FoundAt(old, w, used) /\ AnswersTo(T, seen, score, region, onto)
    /\ scene \in DtScenes \cup {{}} /\ region \in Regions(w)
    /\ shown \in SUBSET scene /\ \A o \in shown : Meets(o, region)
    /\ score \in [shown -> DtScores] /\ seen \in SUBSET shown
    /\ onto.at \in Nat /\ onto.size \in Nat
    /\ now = w => onto = region
    /\ old # <<>> => now = used

LEMMA RegionFound ==
  ASSUME NEW w, NEW scene, NEW region, NEW shown, NEW score, NEW seen, NEW onto, NEW old,
         NEW used, NEW now, NEW T,
         RegionSeen(w, scene, region, shown, score, seen, onto, old, used, now, T)
  PROVE  /\ FoundAt(old \o SetToSeq(T), w, now)
         /\ DOMAIN (old \o SetToSeq(T)) = 1..Len(old \o SetToSeq(T))
  <1> DEFINE found == old \o SetToSeq(T)
  <1>0. /\ Tiled(w) /\ FoundAt(old, w, used) /\ AnswersTo(T, seen, score, region, onto)
        /\ scene \in DtScenes \cup {{}} /\ region \in Regions(w)
        /\ shown \in SUBSET scene /\ \A o \in shown : Meets(o, region)
        /\ score \in [shown -> DtScores] /\ seen \in SUBSET shown
        /\ onto.at \in Nat /\ onto.size \in Nat
        /\ now = w => onto = region
        /\ old # <<>> => now = used
    BY DEF RegionSeen
  <1>1. IsFiniteSet(scene) /\ \A o \in scene : o.at \in Nat /\ o.size \in Nat \ {0}
    BY <1>0, DtAssumption, FS_EmptySet
  <1>2. IsFiniteSet(seen)
    BY <1>0, <1>1, FS_Subset
  <1>3. IsFiniteSet(T)
    <2> DEFINE f == [o \in seen |-> Detection(o, score[o], region, onto)]
    <2>1. f \in Surjection(seen, T)
      BY <1>0 DEF Surjection, AnswersTo
    <2> HIDE DEF f
    <2>2. QED
      BY <1>2, <2>1, FS_Surjection
  <1>4. \A d \in T : IsDetection(d, w, now)
    <2>1. SUFFICES ASSUME NEW o \in seen
                   PROVE  IsDetection(Detection(o, score[o], region, onto), w, now)
      BY <1>0 DEF AnswersTo
    <2>2. Meets(o, region) /\ o.at \in Nat /\ o.size \in Nat \ {0} /\ score[o] \in Nat
      BY <1>0, <1>1, DtAssumption
    <2>3. QED
      BY <1>0, <2>2, DetectionFacts
  <1>5. PICK more : more = SetToSeq(T) /\ more \in Seq(T)
    BY <1>3, ListOfSet
  <1>6. found = old \o more
    BY <1>5
  <1>7. PICK S : old \in Seq(S)
    BY <1>0 DEF FoundAt
  <1> HIDE DEF found
  <1>8. found \in Seq(S \cup T) /\ OneOf(old, more, found)
    <2>1. more \in Seq(T)
      BY <1>5
    <2>2. old \o more \in Seq(S \cup T) /\ OneOf(old, more, old \o more)
      BY ONLY <1>7, <2>1, Joined, Zenon
    <2>3. QED
      BY ONLY <1>6, <2>2
  <1>9. ASSUME NEW i \in 1..Len(old) PROVE IsDetection(old[i], w, now)
    <2>1. old # <<>>
      BY <1>7, <1>9
    <2>2. QED
      BY <1>0, <2>1 DEF FoundAt
  <1>10. ASSUME NEW i \in 1..Len(more) PROVE IsDetection(more[i], w, now)
    <2>1. more[i] \in T
      BY <1>5
    <2>2. QED
      BY <1>4, <2>1
  <1>11. \A n \in 1..Len(found) : IsDetection(found[n], w, now)
    BY <1>8, <1>9, <1>10 DEF OneOf
  <1>12. FoundAt(found, w, now) /\ DOMAIN found = 1..Len(found)
    BY <1>8, <1>11 DEF FoundAt, OneOf
  <1>13. QED
    BY <1>12 DEF found

\* A region is shown to the model.
LEMMA RunRegionKeeps ==
  ASSUME DtInv, NEW p \in DtThreads, RunRegion(p)
  PROVE  DtInv'
  <1>1. PICK w, scene, todo, old, used, since :
           /\ w = dtFrame[p] /\ scene = dtScene[p] /\ todo = dtTodo[p] /\ old = dtFound[p]
           /\ used = dtUsed[p] /\ since = dtSince[p]
    OBVIOUS
  <1>2. ThreadAt(w, scene, todo, old, dtLeft[p], dtKept[p], used, since)
        /\ (w # 0 => dtShape \in since)
    BY <1>1 DEF DtInv, ThreadInv
  <1>3. PICK region \in todo :
           LET shown == {o \in scene : Meets(o, region)}
               onto == IF dtConfig.tile = 0 THEN [at |-> 0, size |-> dtShape] ELSE region
           IN /\ \E score \in [shown -> DtScores] :
                    LET seen == {o \in shown : score[o] >= DtThreshold}
                        found == old \o SetToSeq({Detection(o, score[o], region, onto) : o \in seen})
                    IN /\ dtFound' = [dtFound EXCEPT ![p] = found]
                       /\ dtLeft' = [dtLeft EXCEPT ![p] =
                                         IF dtConfig.tile = 0 THEN {} ELSE DOMAIN found]
                       /\ dtKept' = [dtKept EXCEPT ![p] =
                                         IF dtConfig.tile = 0 THEN DOMAIN found ELSE {}]
              /\ dtTodo' = [dtTodo EXCEPT ![p] = todo \ {region}]
    BY <1>1, Zenon DEF RunRegion
  <1> DEFINE shown == {o \in scene : Meets(o, region)}
             onto == IF dtConfig.tile = 0 THEN [at |-> 0, size |-> dtShape] ELSE region
  <1>4. /\ shown \in SUBSET scene /\ \A o \in shown : Meets(o, region)
        /\ dtConfig.tile = 0 => onto = [at |-> 0, size |-> dtShape]
        /\ dtConfig.tile # 0 => onto = region
    OBVIOUS
  <1>5. PICK score \in [shown -> DtScores] :
           LET seen == {o \in shown : score[o] >= DtThreshold}
               found == old \o SetToSeq({Detection(o, score[o], region, onto) : o \in seen})
           IN /\ dtFound' = [dtFound EXCEPT ![p] = found]
              /\ dtLeft' = [dtLeft EXCEPT ![p] = IF dtConfig.tile = 0 THEN {} ELSE DOMAIN found]
              /\ dtKept' = [dtKept EXCEPT ![p] = IF dtConfig.tile = 0 THEN DOMAIN found ELSE {}]
    BY <1>3, Zenon
  <1> HIDE DEF shown, onto
  <1>6. PICK seen \in SUBSET shown : seen = {o \in shown : score[o] >= DtThreshold}
    OBVIOUS
  <1>7. PICK T, found : /\ AnswersTo(T, seen, score, region, onto)
                        /\ T = {Detection(o, score[o], region, onto) : o \in seen}
                        /\ found = old \o SetToSeq(T)
    BY DEF AnswersTo
  <1>8. /\ dtFound' = [dtFound EXCEPT ![p] = found]
        /\ dtLeft' = [dtLeft EXCEPT ![p] = IF dtConfig.tile = 0 THEN {} ELSE DOMAIN found]
        /\ dtKept' = [dtKept EXCEPT ![p] = IF dtConfig.tile = 0 THEN DOMAIN found ELSE {}]
    BY <1>5, <1>6, <1>7, Zenon
  <1>9. dtTodo' = [dtTodo EXCEPT ![p] = todo \ {region}]
    BY <1>3
  <1>10. /\ dtConfig' = dtConfig /\ dtShape' = dtShape /\ dtFrame' = dtFrame
        /\ dtScene' = dtScene /\ dtSince' = dtSince
        /\ dtUsed' = [dtUsed EXCEPT ![p] = IF dtConfig.tile = 0 THEN dtShape ELSE w]
    BY <1>1 DEF RunRegion
  <1>11. w \in DtFrames /\ w # 0 /\ Tiled(w) /\ scene \in DtScenes \cup {{}}
    <2>1. w \in DtFrames \cup {0} /\ todo # {}
      BY <1>1 DEF DtInv
    <2>2. w # 0 /\ scene \in DtScenes \cup {{}}
      BY <1>2, <2>1 DEF ThreadAt
    <2>3. QED
      BY <2>1, <2>2, FramesTiled
  <1>12. PICK now, left, kept, rest :
           /\ now = IF dtConfig.tile = 0 THEN dtShape ELSE w
           /\ left = IF dtConfig.tile = 0 THEN {} ELSE DOMAIN found
           /\ kept = IF dtConfig.tile = 0 THEN DOMAIN found ELSE {}
           /\ rest = todo \ {region}
    OBVIOUS
  <1>13. /\ dtFrame'[p] = w /\ dtScene'[p] = scene /\ dtTodo'[p] = rest /\ dtFound'[p] = found
        /\ dtLeft'[p] = left /\ dtKept'[p] = kept /\ dtUsed'[p] = now /\ dtSince'[p] = since
    BY <1>1, <1>8, <1>9, <1>10, <1>12 DEF DtInv
  <1>14. region \in Regions(w) /\ todo \subseteq Regions(w) /\ w \in since /\ dtShape \in since
    BY <1>2, <1>11 DEF ThreadAt
  <1>15. FoundAt(found, w, now) /\ DOMAIN found = 1..Len(found)
    <2>1. onto.at \in Nat /\ onto.size \in Nat
      <3>1. dtShape \in Nat
        BY DtAssumption DEF DtInv
      <3>2. region.at \in Nat /\ region.size \in 1..w /\ w \in Nat
        BY <1>11, <1>14, RegionFacts DEF Tiled
      <3>3. QED
        BY <1>4, <3>1, <3>2
    <2>2. now = w => onto = region
      <3>1. CASE dtConfig.tile = 0
        <4>1. region = [at |-> 0, size |-> w]
          BY <1>11, <1>14, <3>1, RegionFacts
        <4>2. QED
          BY <1>4, <1>12, <3>1, <4>1
      <3>2. QED
        BY <1>4, <3>1
    <2>3. old # <<>> => now = used
      <3>1. CASE dtConfig.tile = 0
        BY <1>2, <3>1 DEF ThreadAt, MergedAt
      <3>2. CASE dtConfig.tile # 0
        BY <1>2, <1>12, <3>2 DEF ThreadAt
      <3>3. QED
        BY <3>1, <3>2
    <2>4. FoundAt(old, w, used)
      BY <1>2 DEF ThreadAt
    <2>5. RegionSeen(w, scene, region, shown, score, seen, onto, old, used, now, T)
      BY <1>4, <1>7, <1>11, <1>14, <2>1, <2>2, <2>3, <2>4 DEF RegionSeen
    <2>6. found = old \o SetToSeq(T)
      BY <1>7
    <2>7. /\ FoundAt(old \o SetToSeq(T), w, now)
          /\ DOMAIN (old \o SetToSeq(T)) = 1..Len(old \o SetToSeq(T))
      BY ONLY <2>5, RegionFound
    <2>8. QED
      BY ONLY <2>6, <2>7
  <1>16. MergedAt(found, rest, left, kept)
    <2>1. CASE dtConfig.tile = 0
      <3>1. Regions(w) = {[at |-> 0, size |-> w]}
        BY <1>11, <2>1, RegionFacts
      <3>2. rest = {}
        BY <1>12, <1>14, <3>1
      <3>3. left = {} /\ kept = DOMAIN found
        BY <1>12, <2>1
      <3>4. QED
        BY <2>1, <3>2, <3>3 DEF MergedAt
    <2>2. CASE dtConfig.tile # 0
      <3>1. left = DOMAIN found /\ kept = {}
        BY <1>12, <2>2
      <3>2. QED
        BY <2>2, <3>1 DEF MergedAt
    <2>3. QED
      BY <2>1, <2>2
  <1>17. ThreadAt(w, scene, rest, found, left, kept, now, since)
    <2>1. now \in since /\ (dtConfig.tile # 0 => now = w)
      BY <1>12, <1>14
    <2>2. rest \subseteq Regions(w)
      BY <1>12, <1>14
    <2>3. QED
      BY <1>11, <1>14, <1>15, <1>16, <2>1, <2>2 DEF ThreadAt
  <1>18. ThreadInv(p)'
    <2>1. ThreadAt(w, scene, rest, found, left, kept, now, since)'
      BY <1>10, <1>17, ProfileStays
    <2>2. QED
      BY <1>10, <1>13, <1>14, <2>1 DEF ThreadInv
  <1>19. ASSUME NEW q \in DtThreads, q # p PROVE ThreadInv(q)'
    <2>1. /\ dtTodo'[q] = dtTodo[q] /\ dtFound'[q] = dtFound[q] /\ dtLeft'[q] = dtLeft[q]
          /\ dtKept'[q] = dtKept[q] /\ dtUsed'[q] = dtUsed[q]
      BY <1>8, <1>9, <1>10, <1>19 DEF DtInv
    <2>2. ThreadInv(q)
      BY DEF DtInv
    <2>3. QED
      BY <1>10, <2>1, <2>2, ThreadKept
  <1>20. /\ DOMAIN dtTodo' = DtThreads /\ DOMAIN dtFound' = DtThreads /\ DOMAIN dtLeft' = DtThreads
         /\ DOMAIN dtKept' = DtThreads /\ DOMAIN dtUsed' = DtThreads
    BY <1>8, <1>9, <1>10 DEF DtInv
  <1>21. QED
    BY <1>10, <1>18, <1>19, <1>20 DEF DtInv

\* One round of the merge.
LEMMA MergeKeeps ==
  ASSUME DtInv, NEW p \in DtThreads, Merge(p)
  PROVE  DtInv'
  <1>1. PICK w, scene, found, left, kept, used, since :
           /\ w = dtFrame[p] /\ scene = dtScene[p] /\ found = dtFound[p] /\ left = dtLeft[p]
           /\ kept = dtKept[p] /\ used = dtUsed[p] /\ since = dtSince[p]
    OBVIOUS
  <1>2. dtTodo[p] = {}
    BY DEF Merge
  <1>3. ThreadAt(w, scene, {}, found, left, kept, used, since) /\ (w # 0 => dtShape \in since)
    BY <1>1, <1>2 DEF DtInv, ThreadInv
  <1>4. PICK n \in NextBest(found, left) :
           /\ dtLeft' = [dtLeft EXCEPT ![p] = left \ {n}]
           /\ dtKept' = [dtKept EXCEPT ![p] =
                 IF \E m \in kept : Like(found[n], found[m]) THEN kept ELSE kept \cup {n}]
    BY <1>1 DEF Merge
  <1>5. /\ dtConfig' = dtConfig /\ dtShape' = dtShape /\ dtFrame' = dtFrame
        /\ dtScene' = dtScene /\ dtTodo' = dtTodo /\ dtFound' = dtFound
        /\ dtUsed' = dtUsed /\ dtSince' = dtSince
    BY DEF Merge
  <1>6. PICK less, more :
           /\ less = left \ {n}
           /\ more = IF \E m \in kept : Like(found[n], found[m]) THEN kept ELSE kept \cup {n}
    OBVIOUS
  <1>7. /\ dtFrame'[p] = w /\ dtScene'[p] = scene /\ dtTodo'[p] = {} /\ dtFound'[p] = found
        /\ dtLeft'[p] = less /\ dtKept'[p] = more /\ dtUsed'[p] = used /\ dtSince'[p] = since
    BY <1>1, <1>2, <1>4, <1>5, <1>6 DEF DtInv
  <1>8. /\ left \subseteq DOMAIN found /\ kept \subseteq DOMAIN found
        /\ dtConfig.tile = 0 => left = {}
        /\ \A k \in DOMAIN found : k \in left \/ k \in kept
              \/ \E m \in kept : Like(found[k], found[m]) /\ found[k].score <= found[m].score
        /\ \A m \in kept, k \in left : m # k /\ found[k].score <= found[m].score
        /\ dtConfig.tile # 0 => \A m, k \in kept : m # k => ~Like(found[m], found[k])
    BY <1>3 DEF ThreadAt, MergedAt
  <1>9. \A k \in DOMAIN found :
           found[k].score \in Nat /\ found[k].at \in Int /\ found[k].size \in Int
    <2>1. FoundAt(found, w, used)
      BY <1>3 DEF ThreadAt
    <2>2. DOMAIN found = 1..Len(found)
      BY <2>1 DEF FoundAt
    <2>3. QED
      BY <2>1, <2>2 DEF FoundAt, IsDetection
  <1>10. n \in left /\ n \in DOMAIN found /\ dtConfig.tile # 0
         /\ \A k \in left : found[k].score <= found[n].score
    <2>1. n \in left /\ \A k \in left : \/ found[k].score < found[n].score
                                        \/ found[k].score = found[n].score /\ n <= k
      BY DEF NextBest
    <2>2. \A k \in left : found[k].score \in Nat
      BY <1>8, <1>9
    <2>3. \A k \in left : found[k].score <= found[n].score
      BY <2>1, <2>2
    <2>4. QED
      BY <1>8, <2>1, <2>3
  <1>11. MergedAt(found, {}, less, more)
    <2>1. less \subseteq DOMAIN found /\ more \subseteq DOMAIN found /\ dtConfig.tile # 0
      BY <1>6, <1>8, <1>10
    <2>2. \A k \in DOMAIN found : k \in less \/ k \in more
             \/ \E m \in more : Like(found[k], found[m]) /\ found[k].score <= found[m].score
      <3>1. kept \subseteq more
        BY <1>6
      <3>2. ASSUME NEW k \in DOMAIN found, k # n
            PROVE  k \in less \/ k \in more
               \/ \E m \in more : Like(found[k], found[m]) /\ found[k].score <= found[m].score
        <4>1. CASE k \in left
          BY <1>6, <3>2, <4>1
        <4>2. CASE k \notin left
          BY <1>8, <3>1, <4>2
        <4>3. QED
          BY <4>1, <4>2
      <3>3. n \in more \/ \E m \in more : Like(found[n], found[m]) /\ found[n].score <= found[m].score
        BY <1>6, <1>8, <1>10
      <3>4. QED
        BY <3>2, <3>3
    <2>3. \A m \in more, k \in less : m # k /\ found[k].score <= found[m].score
      BY <1>6, <1>8, <1>10
    <2>4. \A m, k \in more : m # k => ~Like(found[m], found[k])
      <3>1. CASE \E m \in kept : Like(found[n], found[m])
        BY <1>6, <1>8, <1>10, <3>1
      <3>2. CASE \A m \in kept : ~Like(found[n], found[m])
        <4>1. \A m \in kept : ~Like(found[m], found[n])
          BY <1>8, <1>9, <1>10, <3>2, LikeEachOther
        <4>2. more = kept \cup {n}
          BY <1>6, <3>2
        <4>3. QED
          BY <1>8, <1>10, <3>2, <4>1, <4>2
      <3>3. QED
        BY <3>1, <3>2
    <2>5. QED
      BY <2>1, <2>2, <2>3, <2>4 DEF MergedAt
  <1>12. ThreadAt(w, scene, {}, found, less, more, used, since)
    BY <1>3, <1>11 DEF ThreadAt
  <1>13. ThreadInv(p)'
    <2>1. ThreadAt(w, scene, {}, found, less, more, used, since)'
      BY <1>5, <1>12, ProfileStays
    <2>2. QED
      BY <1>3, <1>5, <1>7, <2>1 DEF ThreadInv
  <1>14. ASSUME NEW q \in DtThreads, q # p PROVE ThreadInv(q)'
    <2>1. dtLeft'[q] = dtLeft[q] /\ dtKept'[q] = dtKept[q]
      BY <1>4, <1>14 DEF DtInv
    <2>2. ThreadInv(q)
      BY DEF DtInv
    <2>3. QED
      BY <1>5, <2>1, <2>2, ThreadKept
  <1>15. DOMAIN dtLeft' = DtThreads /\ DOMAIN dtKept' = DtThreads
    BY <1>4 DEF DtInv
  <1>16. QED
    BY <1>5, <1>13, <1>14, <1>15 DEF DtInv

\* No thread has brought a frame at first.
LEMMA DtInvInit == DtInit => DtInv
  <1> SUFFICES ASSUME DtInit PROVE DtInv
    OBVIOUS
  <1>1. ASSUME NEW p \in DtThreads PROVE ThreadInv(p)
    <2>1. ThreadAt(0, {}, {}, <<>>, {}, {}, 0, {})
      BY NothingFound DEF ThreadAt
    <2>2. QED
      BY <2>1 DEF DtInit, ThreadInv
  <1>2. QED
    BY <1>1 DEF DtInit, DtInv

LEMMA DtInvStep == DtInv /\ DtNext => DtInv'
  BY PreprocessKeeps, RunRegionKeeps, InferRaisesKeeps, MergeKeeps DEF DtNext

LEMMA DtInvStays == DtInv /\ UNCHANGED dtVars => DtInv'
  <1> SUFFICES ASSUME DtInv, UNCHANGED dtVars PROVE DtInv'
    OBVIOUS
  <1>1. /\ dtConfig' = dtConfig /\ dtShape' = dtShape /\ dtFrame' = dtFrame
        /\ dtScene' = dtScene /\ dtTodo' = dtTodo /\ dtFound' = dtFound
        /\ dtLeft' = dtLeft /\ dtKept' = dtKept /\ dtUsed' = dtUsed /\ dtSince' = dtSince
    BY DEF dtVars
  <1>2. ASSUME NEW q \in DtThreads PROVE ThreadInv(q)'
    <2>1. ThreadInv(q)
      BY DEF DtInv
    <2>2. QED
      BY <1>1, <2>1, ThreadKept
  <1>3. QED
    BY <1>1, <1>2 DEF DtInv

\* When infer has returned, what tiles showed whole is there once.
LEMMA ReportedOnce ==
  ASSUME NEW w, NEW found, NEW kept, NEW used, FoundAt(found, w, used),
         MergedAt(found, {}, {}, kept), dtConfig.tile # 0, found # <<>> => used = w,
         NEW o, o.at \in Nat, o.size \in Nat \ {0},
         NEW n \in DOMAIN found, found[n].label = o.label,
         found[n].part = [at |-> o.at, size |-> o.size],
         \A k \in DOMAIN found : ~Misread(found[k].part, found[k].region),
         \A k \in DOMAIN found :
            Like(found[k], o) => found[k].part = [at |-> o.at, size |-> o.size]
  PROVE  Cardinality({k \in kept : /\ found[k].label = o.label
                                   /\ found[k].at = o.at /\ found[k].size = o.size}) = 1
  <1>1. DOMAIN found = 1..Len(found) /\ found # <<>>
    <2>1. DOMAIN found = 1..Len(found)
      BY DEF FoundAt
    <2>2. DOMAIN <<>> = {}
      OBVIOUS
    <2>3. QED
      BY <2>1, <2>2
  <1>2. \A k \in DOMAIN found : found[k].at \in Int /\ found[k].size \in Int /\ Placed(found[k])
    BY <1>1 DEF FoundAt, IsDetection
  <1>3. \A k \in DOMAIN found : found[k].part = [at |-> o.at, size |-> o.size] =>
                                   found[k].at = o.at /\ found[k].size = o.size
    BY <1>2 DEF Placed
  <1>4. /\ kept \subseteq DOMAIN found
        /\ n \in kept \/ \E m \in kept : Like(found[n], found[m])
        /\ \A k, m \in kept : m # k => ~Like(found[m], found[k])
    BY DEF MergedAt
  <1>5. SameObject(o, o)
    BY LikeItself
  <1>6. \A k \in DOMAIN found : found[k].at = o.at /\ found[k].size = o.size =>
           \A b : /\ SameObject(found[k], b) <=> SameObject(o, b)
                  /\ SameObject(b, found[k]) <=> SameObject(b, o)
    BY DEF SameObject
  <1> DEFINE K == {k \in kept : found[k].label = o.label
                                /\ found[k].at = o.at /\ found[k].size = o.size}
  <1>7. PICK k : k \in K
    <2>1. CASE n \in kept
      BY <1>3, <2>1
    <2>2. CASE n \notin kept
      <3>1. PICK m \in kept : Like(found[n], found[m])
        BY <1>4, <2>2
      <3>2. m \in DOMAIN found /\ Like(found[m], found[n])
        BY <1>2, <1>4, <3>1, LikeEachOther
      <3>3. found[n].at = o.at /\ found[n].size = o.size
        BY <1>3
      <3>4. Like(found[m], o)
        BY <1>6, <3>2, <3>3 DEF Like
      <3>5. found[m].at = o.at /\ found[m].size = o.size /\ found[m].label = o.label
        BY <1>3, <3>2, <3>4 DEF Like
      <3>6. m \in K
        BY <3>5
      <3>7. QED
        BY <3>6
    <2>3. QED
      BY <2>1, <2>2
  <1>8. \A m \in K : m = k
    <2> SUFFICES ASSUME NEW m \in K, m # k PROVE FALSE
      OBVIOUS
    <2>1. SameObject(found[m], found[k])
      BY <1>4, <1>5, <1>6, <1>7
    <2>2. Like(found[m], found[k])
      BY <1>7, <2>1 DEF Like
    <2>3. QED
      BY <1>4, <1>7, <2>2
  <1>9. K = {k}
    BY <1>7, <1>8
  <1> HIDE DEF K
  <1>10. Cardinality(K) = 1
    BY <1>9, FS_Singleton
  <1>11. QED
    BY <1>10, Zenon DEF K

\* What that means for what is reported.
LEMMA DtInvReports == DtInv => DetectorReports
  <1> SUFFICES ASSUME DtInv PROVE DetectorReports
    OBVIOUS
  <1>0. ASSUME NEW p \in DtThreads
        PROVE  ThreadAt(dtFrame[p], dtScene[p], dtTodo[p], dtFound[p], dtLeft[p], dtKept[p],
                        dtUsed[p], dtSince[p])
    BY DEF DtInv, ThreadInv
  <1>1. TilesCover
    <2>1. SUFFICES ASSUME dtConfig.tile > TileStep(dtConfig.tile, dtConfig.overlap),
                          NEW p \in DtThreads, dtFrame[p] > 0, NEW x \in 0..dtFrame[p] - 1
                   PROVE  \E r \in Regions(dtFrame[p]) : Inside([at |-> x, size |-> 1], r)
      BY DEF TilesCover
    <2>2. dtFrame[p] \in DtFrames
      BY <2>1 DEF DtInv
    <2>3. Tiled(dtFrame[p])
      BY <2>2, FramesTiled
    <2>4. QED
      BY <2>1, <2>3, TilesLeaveNoGap
  <1>2. FoundWhereSeen
    <2>1. SUFFICES ASSUME NEW p \in DtThreads, dtUsed[p] = dtFrame[p],
                          NEW n \in DOMAIN dtFound[p]
                   PROVE  \/ Misread(dtFound[p][n].part, dtFound[p][n].region)
                          \/ Placed(dtFound[p][n])
      BY DEF FoundWhereSeen
    <2>2. FoundAt(dtFound[p], dtFrame[p], dtUsed[p])
      BY <1>0 DEF ThreadAt
    <2>3. n \in 1..Len(dtFound[p])
      BY <2>1, <2>2 DEF FoundAt
    <2>4. QED
      BY <2>1, <2>2, <2>3 DEF FoundAt, IsDetection
  <1>3. MergeKeepsTheBest
    <2>1. SUFFICES ASSUME NEW p \in DtThreads, Returned(p), NEW found, found = dtFound[p]
                   PROVE  /\ \A n \in DOMAIN found \ dtKept[p] : \E m \in dtKept[p] :
                                Like(found[n], found[m]) /\ found[n].score <= found[m].score
                          /\ dtConfig.tile # 0 =>
                                \A m, n \in dtKept[p] : m # n => ~Like(found[m], found[n])
      BY DEF MergeKeepsTheBest
    <2>2. MergedAt(found, dtTodo[p], dtLeft[p], dtKept[p]) /\ dtLeft[p] = {}
      BY <1>0, <2>1 DEF ThreadAt, Returned
    <2>3. QED
      BY <2>2 DEF MergedAt
  <1>4. ObjectReportedOnce
    <2>1. SUFFICES ASSUME NEW p \in DtThreads, Returned(p), dtConfig.tile # 0,
                          NEW found, found = dtFound[p], NEW o \in dtScene[p],
                          NEW n \in DOMAIN found, found[n].label = o.label,
                          found[n].part = [at |-> o.at, size |-> o.size],
                          \A k \in DOMAIN found : ~Misread(found[k].part, found[k].region),
                          \A k \in DOMAIN found : Like(found[k], o) =>
                             found[k].part = [at |-> o.at, size |-> o.size]
                   PROVE  Cardinality({k \in dtKept[p] : /\ found[k].label = o.label
                                                         /\ found[k].at = o.at
                                                         /\ found[k].size = o.size}) = 1
      BY DEF ObjectReportedOnce
    <2>2. /\ FoundAt(found, dtFrame[p], dtUsed[p]) /\ MergedAt(found, {}, {}, dtKept[p])
          /\ found # <<>> => dtUsed[p] = dtFrame[p]
          /\ dtScene[p] \in DtScenes \cup {{}}
      BY <1>0, <2>1 DEF ThreadAt, Returned
    <2>3. o.at \in Nat /\ o.size \in Nat \ {0}
      BY <2>1, <2>2, DtAssumption
    <2>4. QED
      BY <2>1, <2>2, <2>3, ReportedOnce
  <1>5. ScaleIsRecent
    BY <1>0 DEF ThreadAt, ScaleIsRecent
  <1>6. QED
    BY <1>1, <1>2, <1>3, <1>4, <1>5 DEF DetectorReports

\* Tiles that overlap leave no place out; a detection is where the model saw
\* it when its box was scaled to the own frame, which another thread's frame
\* can be taken for only while infer runs; whatever the model saw is reported
\* or gave way to something like it, of its label and no less certain; and what
\* tiles showed whole, and nothing else was taken for, is reported once: for
\* any number of threads, any frames, objects, tiles, overlaps and scores
\* (CustomONNXDetector.infer, _generate_tiles, _scale_box, _nms).
THEOREM DetectionsAreSound == Spec => []DetectorReports
  <1>1. Init => DtInv
    BY DtInvInit DEF Init
  <1>2. DtInv /\ [Next]_Everything => DtInv'
    <2>1. ASSUME [Next]_Everything PROVE DtNext \/ UNCHANGED dtVars
      BY <2>1 DEF Next, Everything
    <2>2. QED
      BY <2>1, DtInvStep, DtInvStays
  <1>3. QED
    BY <1>1, <1>2, DtInvReports, PTL DEF Spec

-----------------------------------------------------------------------------
(***************************************************************************)
(* The merged outputs of a run that was cut                                *)
(***************************************************************************)
\* A total order of a set, and the place each element has in it.
TotalOrder(R, S) ==
    /\ \A x \in S : <<x, x>> \in R
    /\ \A x, y \in S : <<x, y>> \in R \/ <<y, x>> \in R
    /\ \A x, y \in S : <<x, y>> \in R /\ <<y, x>> \in R => x = y
    /\ \A x, y, z \in S : <<x, y>> \in R /\ <<y, z>> \in R => <<x, z>> \in R
Places(R, S, place) ==
    /\ place \in [S -> 1..Cardinality(S)]
    /\ \A x, y \in S : <<x, y>> \in R <=> place[x] <= place[y]
    /\ \A x, y \in S : place[x] = place[y] => x = y

\* Counting who comes no later gives each element a place of its own.
LEMMA PlacesCount ==
  ASSUME NEW S, IsFiniteSet(S), NEW R, TotalOrder(R, S), NEW place,
         place = [x \in S |-> Cardinality({y \in S : <<y, x>> \in R})]
  PROVE  Places(R, S, place) /\ Cardinality(S) \in Nat
  <1>1. PICK n \in Nat : n = Cardinality(S)
    BY FS_CardinalityType
  <1> DEFINE Below(x) == {y \in S : <<y, x>> \in R}
  <1>2. ASSUME NEW x \in S
        PROVE  /\ IsFiniteSet(Below(x)) /\ Cardinality(Below(x)) \in 1..n
               /\ x \in Below(x) /\ place[x] = Cardinality(Below(x))
               /\ Cardinality(Below(x)) \in Nat
    <2>1. Below(x) \subseteq S /\ x \in Below(x)
      BY DEF TotalOrder
    <2>2. IsFiniteSet(Below(x)) /\ Cardinality(Below(x)) <= n
      BY <1>1, <2>1, FS_Subset
    <2>3. Cardinality(Below(x)) \in Nat /\ Cardinality(Below(x)) # 0
      BY <2>1, <2>2, FS_CardinalityType, FS_EmptySet
    <2>4. QED
      BY <2>1, <2>2, <2>3
  <1>3. ASSUME NEW x \in S, NEW y \in S, <<x, y>> \in R PROVE place[x] <= place[y]
    <2>1. Below(x) \subseteq Below(y)
      BY <1>3 DEF TotalOrder
    <2>2. Cardinality(Below(x)) <= Cardinality(Below(y))
      BY <1>2, <2>1, FS_Subset
    <2>3. QED
      BY <1>2, <2>2
  <1>4. ASSUME NEW x \in S, NEW y \in S, ~(<<x, y>> \in R) PROVE place[y] < place[x]
    <2>1. <<y, x>> \in R /\ x \notin Below(y)
      BY <1>4 DEF TotalOrder
    <2>2. Below(y) \subseteq Below(x) /\ Below(y) # Below(x)
      BY <1>2, <2>1 DEF TotalOrder
    <2>3. /\ Cardinality(Below(y)) <= Cardinality(Below(x))
          /\ Cardinality(Below(y)) # Cardinality(Below(x))
      BY <1>2, <2>2, FS_Subset
    <2>4. PICK a, b : /\ a = Cardinality(Below(y)) /\ b = Cardinality(Below(x))
                      /\ a \in Nat /\ b \in Nat
      <3>1. Cardinality(Below(y)) \in Nat /\ Cardinality(Below(x)) \in Nat
        BY <1>2
      <3>2. QED
        BY <3>1
    <2>5. place[y] = a /\ place[x] = b
      BY <1>2, <2>4
    <2>6. a < b
      BY <2>3, <2>4
    <2>7. QED
      BY <2>5, <2>6
  <1>5. place \in [S -> 1..n]
    BY <1>2
  <1>6. \A x \in S : place[x] \in Nat
    BY <1>5
  <1> HIDE DEF Below
  <1>7. ASSUME NEW x \in S, NEW y \in S PROVE <<x, y>> \in R <=> place[x] <= place[y]
    <2>1. CASE <<x, y>> \in R
      BY <1>3, <2>1
    <2>2. CASE ~(<<x, y>> \in R)
      <3>1. place[y] < place[x] /\ place[x] \in Nat /\ place[y] \in Nat
        BY <1>4, <1>6, <2>2
      <3>2. ~(place[x] <= place[y])
        BY <3>1
      <3>3. QED
        BY <2>2, <3>2
    <2>3. QED
      BY <2>1, <2>2
  <1>8. ASSUME NEW x \in S, NEW y \in S, place[x] = place[y] PROVE x = y
    <2>1. place[x] <= place[y] /\ place[y] <= place[x]
      BY <1>6, <1>8
    <2>2. <<x, y>> \in R /\ <<y, x>> \in R
      BY <1>7, <2>1
    <2>3. QED
      BY <2>2 DEF TotalOrder
  <1>9. QED
    BY <1>1, <1>5, <1>7, <1>8 DEF Places

\* Keys are compared entry by entry.
Keys == [1..5 -> Int]
LEMMA BeforeOrders ==
  /\ \A a \in Keys : ~Before(a, a)
  /\ \A a, b \in Keys : a = b \/ Before(a, b) \/ Before(b, a)
  /\ \A a, b, c \in Keys : Before(a, b) /\ Before(b, c) => Before(a, c)
  <1>1. ASSUME NEW a \in Keys, NEW b \in Keys
        PROVE  Before(a, b) <=> \E k \in 1..5 : a[k] < b[k] /\ \A j \in 1..(k - 1) : a[j] = b[j]
    BY DEF Before, Keys
  <1>2. ASSUME NEW a \in Keys PROVE ~Before(a, a)
    BY <1>1 DEF Keys
  <1>3. ASSUME NEW a \in Keys, NEW b \in Keys, a # b PROVE Before(a, b) \/ Before(b, a)
    <2> DEFINE D == {k \in 1..5 : a[k] # b[k]}
    <2>1. D # {} /\ D \subseteq Nat
      BY <1>3 DEF Keys
    <2>2. PICK k \in D : \A y \in D : k <= y
      BY <2>1, LeastOfSet
    <2>3. \A j \in 1..(k - 1) : a[j] = b[j]
      <3>1. \A j \in 1..(k - 1) : j \in 1..5 /\ ~(k <= j)
        BY <2>2
      <3>2. QED
        BY <2>2, <3>1
    <2>4. a[k] \in Int /\ b[k] \in Int /\ a[k] # b[k] /\ k \in 1..5
      BY <2>2 DEF Keys
    <2>5. a[k] < b[k] \/ b[k] < a[k]
      BY <2>4
    <2>6. QED
      BY <1>1, <2>3, <2>4, <2>5
  <1>4. ASSUME NEW a \in Keys, NEW b \in Keys, NEW c \in Keys, Before(a, b), Before(b, c)
        PROVE  Before(a, c)
    <2>1. PICK k \in 1..5 : a[k] < b[k] /\ \A j \in 1..(k - 1) : a[j] = b[j]
      BY <1>1, <1>4
    <2>2. PICK l \in 1..5 : b[l] < c[l] /\ \A j \in 1..(l - 1) : b[j] = c[j]
      BY <1>1, <1>4
    <2>3. /\ a[k] \in Int /\ b[k] \in Int /\ c[k] \in Int
          /\ a[l] \in Int /\ b[l] \in Int /\ c[l] \in Int
      BY DEF Keys
    <2>4. CASE k < l
      <3>1. k \in 1..(l - 1) /\ \A j \in 1..(k - 1) : j \in 1..(l - 1)
        BY <2>4
      <3>2. a[k] < c[k] /\ \A j \in 1..(k - 1) : a[j] = c[j]
        BY <2>1, <2>2, <3>1
      <3>3. QED
        BY <1>1, <3>2
    <2>5. CASE k = l
      <3>1. a[k] < c[k] /\ \A j \in 1..(k - 1) : a[j] = c[j]
        BY <2>1, <2>2, <2>3, <2>5
      <3>2. QED
        BY <1>1, <3>1
    <2>6. CASE l < k
      <3>1. l \in 1..(k - 1) /\ \A j \in 1..(l - 1) : j \in 1..(k - 1)
        BY <2>6
      <3>2. a[l] < c[l] /\ \A j \in 1..(l - 1) : a[j] = c[j]
        BY <2>1, <2>2, <3>1
      <3>3. QED
        BY <1>1, <3>2
    <2>7. QED
      BY <2>4, <2>5, <2>6
  <1>5. QED
    BY <1>2, <1>3, <1>4

\* What a sort by keys gives: the same entries, by their keys.
Sorts(o, s, key, n) ==
    /\ \A i \in 1..n : \E m \in 1..n : o[i] = s[m]
    /\ \A m \in 1..n : \E i \in 1..n : o[i] = s[m]
    /\ \A i, j \in 1..n : i < j => Before(key[o[i]], key[o[j]]) \/ key[o[i]] = key[o[j]]

\* Ordered (stable_sort_detections) returns the same entries, in order.
LEMMA OrderedSorts ==
  ASSUME NEW s, NEW n \in Nat, DOMAIN s = 1..n, NEW key, \A m \in 1..n : key[s[m]] \in Keys
  PROVE  DOMAIN Ordered(s, key) = 1..n /\ Sorts(Ordered(s, key), s, key, n)
  <1> DEFINE R == {e \in (1..n) \X (1..n) :
                     \/ Before(key[s[e[1]]], key[s[e[2]]])
                     \/ key[s[e[1]]] = key[s[e[2]]] /\ e[1] <= e[2]}
             place == [x \in 1..n |-> Cardinality({y \in 1..n : <<y, x>> \in R})]
  <1>1. \A x, y \in 1..n : <<x, y>> \in R <=> \/ Before(key[s[x]], key[s[y]])
                                              \/ key[s[x]] = key[s[y]] /\ x <= y
    OBVIOUS
  <1>2. IsFiniteSet(1..n) /\ Cardinality(1..n) = n
    <2>1. 1 \in Int /\ n \in Int
      OBVIOUS
    <2>2. IsFiniteSet(1..n) /\ Cardinality(1..n) = IF 1 > n THEN 0 ELSE n - 1 + 1
      BY <2>1, FS_Interval
    <2>3. (IF 1 > n THEN 0 ELSE n - 1 + 1) = n
      OBVIOUS
    <2>4. QED
      BY <2>2, <2>3
  <1> HIDE DEF R
  <1>3. TotalOrder(R, 1..n)
    <2> DEFINE K == [x \in 1..n |-> key[s[x]]]
    <2>1. \A x \in 1..n : K[x] \in Keys
      OBVIOUS
    <2>2. \A x, y \in 1..n : <<x, y>> \in R <=> Before(K[x], K[y]) \/ (K[x] = K[y] /\ x <= y)
      BY <1>1
    <2> HIDE DEF K
    <2>3. /\ \A x \in 1..n : ~Before(K[x], K[x])
          /\ \A x, y \in 1..n : K[x] = K[y] \/ Before(K[x], K[y]) \/ Before(K[y], K[x])
          /\ \A x, y, z \in 1..n : Before(K[x], K[y]) /\ Before(K[y], K[z]) => Before(K[x], K[z])
      BY <2>1, BeforeOrders
    <2>4. \A x \in 1..n : <<x, x>> \in R
      BY <2>2
    <2>5. \A x, y \in 1..n : <<x, y>> \in R \/ <<y, x>> \in R
      <3>1. \A x, y \in 1..n : x <= y \/ y <= x
        OBVIOUS
      <3>2. SUFFICES ASSUME NEW x \in 1..n, NEW y \in 1..n PROVE <<x, y>> \in R \/ <<y, x>> \in R
        OBVIOUS
      <3>3. CASE K[x] = K[y]
        BY <2>2, <3>1, <3>3
      <3>4. CASE K[x] # K[y]
        BY <2>2, <2>3, <3>4
      <3>5. QED
        BY <3>3, <3>4
    <2>6. \A x, y \in 1..n : <<x, y>> \in R /\ <<y, x>> \in R => x = y
      <3>1. SUFFICES ASSUME NEW x \in 1..n, NEW y \in 1..n, <<x, y>> \in R, <<y, x>> \in R
                     PROVE  x = y
        OBVIOUS
      <3>2. ~(Before(K[x], K[y]) /\ Before(K[y], K[x]))
        BY <2>3
      <3>3. K[x] = K[y]
        BY <2>2, <3>1, <3>2
      <3>4. x <= y /\ y <= x
        BY <2>2, <2>3, <3>1, <3>3
      <3>5. QED
        BY <3>4
    <2>7. \A x, y, z \in 1..n : <<x, y>> \in R /\ <<y, z>> \in R => <<x, z>> \in R
      <3>1. SUFFICES ASSUME NEW x \in 1..n, NEW y \in 1..n, NEW z \in 1..n,
                            <<x, y>> \in R, <<y, z>> \in R PROVE <<x, z>> \in R
        OBVIOUS
      <3>2. Before(K[x], K[y]) \/ (K[x] = K[y] /\ x <= y)
        BY <2>2, <3>1
      <3>3. Before(K[y], K[z]) \/ (K[y] = K[z] /\ y <= z)
        BY <2>2, <3>1
      <3>4. Before(K[x], K[z]) \/ (K[x] = K[z] /\ x <= z)
        BY <2>3, <3>2, <3>3
      <3>5. QED
        BY <2>2, <3>4
    <2>8. QED
      BY <2>4, <2>5, <2>6, <2>7 DEF TotalOrder
  <1>4. Places(R, 1..n, place)
    BY <1>2, <1>3, PlacesCount
  <1>5. place \in [1..n -> 1..n] /\ \A x, y \in 1..n : place[x] = place[y] => x = y
    BY <1>2, <1>4 DEF Places
  <1>6. \A i \in 1..n : \E x \in 1..n : place[x] = i
    <2> HIDE DEF place
    <2>1. place \in Injection(1..n, 1..n)
      BY <1>5, Fun_IsInj
    <2>2. place \in Surjection(1..n, 1..n)
      BY <1>2, <2>1, FS_Injection
    <2>3. QED
      BY <2>2 DEF Surjection
  <1>7. \A x, y \in 1..n : <<x, y>> \in R <=> place[x] <= place[y]
    BY <1>4 DEF Places
  <1> DEFINE o == [i \in 1..n |-> s[CHOOSE x \in 1..n : place[x] = i]]
             at == [i \in 1..n |-> CHOOSE x \in 1..n : place[x] = i]
  <1>8. Ordered(s, key) = o
    <2>1. ASSUME NEW x \in 1..n
          PROVE place[x] = Cardinality({m \in 1..n : \/ Before(key[s[m]], key[s[x]])
                                                     \/ key[s[m]] = key[s[x]] /\ m <= x})
      <3>1. {y \in 1..n : <<y, x>> \in R} = {m \in 1..n : \/ Before(key[s[m]], key[s[x]])
                                                          \/ key[s[m]] = key[s[x]] /\ m <= x}
        BY <1>1
      <3>2. place[x] = Cardinality({y \in 1..n : <<y, x>> \in R})
        OBVIOUS
      <3>3. QED
        BY <3>1, <3>2
    <2> DEFINE Place(x) == Cardinality({m \in 1..n : \/ Before(key[s[m]], key[s[x]])
                                                     \/ key[s[m]] = key[s[x]] /\ m <= x})
    <2>2. Ordered(s, key) = [i \in 1..n |-> s[CHOOSE x \in 1..n : Place(x) = i]]
      BY DEF Ordered
    <2>3. \A x \in 1..n : place[x] = Place(x)
      BY <2>1
    <2> HIDE DEF Place, place
    <2>4. ASSUME NEW i \in 1..n
          PROVE  (CHOOSE x \in 1..n : Place(x) = i) = (CHOOSE x \in 1..n : place[x] = i)
      BY <2>3
    <2>5. QED
      BY <2>2, <2>4
  <1> HIDE DEF place
  <1>9. \A i \in 1..n : at[i] \in 1..n /\ place[at[i]] = i /\ o[i] = s[at[i]]
    BY <1>6
  <1>10. DOMAIN o = 1..n
    OBVIOUS
  <1> HIDE DEF o, at
  <1>11. \A x \in 1..n : place[x] \in 1..n /\ at[place[x]] = x
    BY <1>5, <1>9
  <1>12. \A i \in 1..n : \E m \in 1..n : o[i] = s[m]
    BY <1>9
  <1>13. \A m \in 1..n : \E i \in 1..n : o[i] = s[m]
    <2>1. SUFFICES ASSUME NEW m \in 1..n PROVE \E i \in 1..n : o[i] = s[m]
      OBVIOUS
    <2>2. place[m] \in 1..n /\ at[place[m]] = m
      BY <1>11
    <2>3. o[place[m]] = s[m]
      BY <1>9, <2>2
    <2>4. QED
      BY <2>2, <2>3
  <1>14. ASSUME NEW i \in 1..n, NEW j \in 1..n, i < j
         PROVE  Before(key[o[i]], key[o[j]]) \/ key[o[i]] = key[o[j]]
    <2>1. place[at[i]] <= place[at[j]] /\ at[i] \in 1..n /\ at[j] \in 1..n
      BY <1>9, <1>14
    <2>2. <<at[i], at[j]>> \in R
      BY <1>7, <2>1
    <2>3. Before(key[s[at[i]]], key[s[at[j]]]) \/ key[s[at[i]]] = key[s[at[j]]]
      BY <1>1, <2>1, <2>2
    <2>4. QED
      BY <1>9, <2>3
  <1>15. Sorts(o, s, key, n)
    BY <1>12, <1>13, <1>14 DEF Sorts
  <1>16. QED
    BY <1>8, <1>10, <1>15

\* The greedy pass, one detection after the other.
Joining(c, kept) == IF \E k \in Range(kept) : Alike(k, c) THEN kept ELSE Append(kept, c)
Passes(f, o, D) ==
    \A S \in SUBSET D : f[S] = IF S = {} THEN <<>> ELSE Joining(o[Max(S)], f[S \ {Max(S)}])
Grows(K, o, n) == K[0] = <<>> /\ \A m \in 1..n : K[m] = Joining(o[m], K[m - 1])

\* The last of some first numbers is the greatest of them.
LEMMA LastIsMax ==
  ASSUME NEW m \in Nat, NEW S \in SUBSET (1..m), m \in S
  PROVE  Max(S) = m
  <1>1. \A y \in S : m >= y
    OBVIOUS
  <1>2. Max(S) \in S /\ \A y \in S : Max(S) >= y
    BY <1>1 DEF Max
  <1>3. PICK x : x = Max(S)
    OBVIOUS
  <1>4. x \in 1..m /\ x >= m
    BY <1>2, <1>3
  <1>5. QED
    BY <1>3, <1>4

\* The greedy pass is a function of how many entries it has seen.
LEMMA PassExists ==
  ASSUME NEW o, NEW n \in Nat
  PROVE  \E f : f = [S \in SUBSET (1..n) |-> f[S]] /\ Passes(f, o, 1..n)
  <1> DEFINE Good(m) == \E f : f = [S \in SUBSET (1..m) |-> f[S]] /\ Passes(f, o, 1..m)
             bad == {m \in Nat : ~Good(m)}
  <1>1. Good(0)
    <2>1. PICK f : f = [S \in SUBSET (1..0) |-> <<>>]
      OBVIOUS
    <2>2. 1..0 = {} /\ \A S \in SUBSET (1..0) : S = {}
      OBVIOUS
    <2>3. f = [S \in SUBSET (1..0) |-> f[S]] /\ Passes(f, o, 1..0)
      BY <2>1, <2>2 DEF Passes
    <2>4. QED
      BY <2>3
  <1>2. ASSUME NEW m \in Nat, m # 0, Good(m - 1) PROVE Good(m)
    <2>1. PICK f : f = [S \in SUBSET (1..m - 1) |-> f[S]] /\ Passes(f, o, 1..m - 1)
      BY <1>2
    <2>2. PICK g : g = [S \in SUBSET (1..m) |-> IF m \in S THEN Joining(o[m], f[S \ {m}]) ELSE f[S]]
      OBVIOUS
    <2>3. \A S \in SUBSET (1..m) : m \notin S => S \in SUBSET (1..m - 1)
      OBVIOUS
    <2>4. \A S \in SUBSET (1..m) : g[S] = IF m \in S THEN Joining(o[m], f[S \ {m}]) ELSE f[S]
      BY <2>2
    <2>5. ASSUME NEW S \in SUBSET (1..m)
          PROVE  g[S] = IF S = {} THEN <<>> ELSE Joining(o[Max(S)], g[S \ {Max(S)}])
      <3>1. CASE m \in S
        <4>1. Max(S) = m
          BY <3>1, LastIsMax
        <4>2. S \ {m} \in SUBSET (1..m) /\ m \notin S \ {m}
          OBVIOUS
        <4>3. g[S \ {m}] = f[S \ {m}]
          BY <2>4, <4>2
        <4>4. g[S] = Joining(o[m], f[S \ {m}]) /\ S # {}
          BY <2>4, <3>1
        <4>5. QED
          BY <4>1, <4>3, <4>4
      <3>2. CASE m \notin S
        <4>1. S \in SUBSET (1..m - 1) /\ g[S] = f[S]
          BY <2>3, <2>4, <3>2
        <4>2. S \ {Max(S)} \in SUBSET (1..m) /\ m \notin S \ {Max(S)}
          BY <3>2
        <4>3. g[S \ {Max(S)}] = f[S \ {Max(S)}]
          BY <2>4, <4>2
        <4>4. f[S] = IF S = {} THEN <<>> ELSE Joining(o[Max(S)], f[S \ {Max(S)}])
          BY <2>1, <4>1 DEF Passes
        <4>5. QED
          BY <4>1, <4>3, <4>4
      <3>3. QED
        BY <3>1, <3>2
    <2>6. g = [S \in SUBSET (1..m) |-> g[S]]
      BY <2>2
    <2>7. Passes(g, o, 1..m)
      BY <2>5 DEF Passes
    <2>8. QED
      BY <2>6, <2>7
  <1> HIDE DEF Good
  <1>3. bad = {}
    <2> SUFFICES ASSUME bad # {} PROVE FALSE
      OBVIOUS
    <2>1. PICK m \in bad : \A y \in bad : m <= y
      <3>1. bad \subseteq Nat
        OBVIOUS
      <3>2. QED
        BY <3>1, LeastOfSet
    <2>2. m \in Nat /\ ~Good(m)
      OBVIOUS
    <2>3. m # 0
      BY <1>1, <2>2
    <2>4. m - 1 \in Nat /\ ~(m <= m - 1)
      BY <2>2, <2>3
    <2>5. Good(m - 1)
      BY <2>1, <2>4
    <2>6. QED
      BY <1>2, <2>2, <2>3, <2>5
  <1>4. Good(n)
    BY <1>3
  <1>5. QED
    BY <1>4 DEF Good

\* The fold over a list equals that function at the whole list.
LEMMA PassUnfolds ==
  ASSUME NEW o, NEW n \in Nat, DOMAIN o = 1..n
  PROVE  \E it : Unrivalled(o) = it[1..n] /\ Passes(it, o, 1..n)
  <1>0. PICK f : f = [S \in SUBSET (1..n) |-> f[S]] /\ Passes(f, o, 1..n)
    BY PassExists
  <1> DEFINE M(g, S) == IF S = {} THEN <<>>
                        ELSE IF \E k \in Range(g[S \ {Max(S)}]) : Alike(k, o[Max(S)])
                             THEN g[S \ {Max(S)}]
                             ELSE Append(g[S \ {Max(S)}], o[Max(S)])
  <1>1. f = [S \in SUBSET DOMAIN o |-> M(f, S)]
    BY <1>0 DEF Passes, Joining
  <1>2. Unrivalled(o) = (CHOOSE it : it = [S \in SUBSET DOMAIN o |-> M(it, S)])[DOMAIN o]
    BY DEF Unrivalled, FoldLeft, MapThenFoldSet
  <1>3. PICK it : Unrivalled(o) = it[DOMAIN o] /\ it = [S \in SUBSET DOMAIN o |-> M(it, S)]
    <2> DEFINE P(it) == it = [S \in SUBSET DOMAIN o |-> M(it, S)]
    <2>1. P(f) /\ Unrivalled(o) = (CHOOSE it : P(it))[DOMAIN o]
      BY <1>1, <1>2
    <2> HIDE DEF P, M
    <2>2. P(CHOOSE it : P(it))
      BY <2>1
    <2>3. \E it : Unrivalled(o) = it[DOMAIN o] /\ P(it)
      BY <2>1, <2>2
    <2>4. QED
      BY <2>3 DEF P
  <1>4. \A S \in SUBSET DOMAIN o : it[S] = M(it, S)
    BY <1>3
  <1>5. Passes(it, o, 1..n)
    BY <1>4 DEF Passes, Joining
  <1>6. QED
    BY <1>3, <1>5

\* So a pass starts with nothing and joins one entry after the other.
LEMMA PassGrows ==
  ASSUME NEW o, NEW n \in Nat, DOMAIN o = 1..n
  PROVE  \E K : Unrivalled(o) = K[n] /\ Grows(K, o, n)
  <1>1. PICK it : Unrivalled(o) = it[1..n] /\ Passes(it, o, 1..n)
    BY PassUnfolds
  <1>2. PICK K : K = [m \in 0..n |-> it[1..m]]
    OBVIOUS
  <1>3. K[0] = <<>>
    <2>1. 1..0 = {} /\ 0 \in 0..n /\ {} \in SUBSET (1..n)
      OBVIOUS
    <2>2. K[0] = it[{}]
      BY <1>2, <2>1
    <2>3. QED
      BY <1>1, <2>1, <2>2 DEF Passes
  <1>4. ASSUME NEW m \in 1..n PROVE K[m] = Joining(o[m], K[m - 1])
    <2>1. PICK S : S = 1..m
      OBVIOUS
    <2>2. m \in S /\ S \in SUBSET (1..m) /\ S \in SUBSET (1..n) /\ S # {} /\ S \ {m} = 1..(m - 1)
      <3>1. m \in 1..m /\ \A x \in 1..m : x \in 1..n
        OBVIOUS
      <3>2. \A x \in 1..m : x # m <=> x \in 1..(m - 1)
        OBVIOUS
      <3>3. \A x \in 1..(m - 1) : x \in 1..m
        OBVIOUS
      <3>4. S \ {m} = 1..(m - 1)
        BY <2>1, <3>2, <3>3
      <3>5. QED
        BY <2>1, <3>1, <3>4
    <2>3. Max(S) = m
      <3>1. m \in Nat
        OBVIOUS
      <3>2. QED
        BY <2>2, <3>1, LastIsMax
    <2>4. it[S] = Joining(o[m], it[S \ {m}])
      BY <1>1, <2>2, <2>3 DEF Passes
    <2>5. m \in 0..n /\ m - 1 \in 0..n
      OBVIOUS
    <2>6. K[m] = it[S] /\ K[m - 1] = it[S \ {m}]
      BY <1>2, <2>1, <2>2, <2>5
    <2>7. QED
      BY <2>4, <2>6
  <1>5. Grows(K, o, n)
    BY <1>3, <1>4 DEF Grows
  <1>6. K[n] = it[1..n]
    <2>1. n \in 0..n
      OBVIOUS
    <2>2. QED
      BY <1>2, <2>1
  <1>7. QED
    BY <1>1, <1>5, <1>6

\* Of detections in an order of rank those are chosen that no chosen one of a
\* better rank is like.
Chosen(K, W, rank) ==
    /\ K \in Seq(W)
    /\ \A i, j \in 1..Len(K) : i < j => rank[K[i]] < rank[K[j]]
    /\ \A d \in W : d \in Range(K) \/ \E k \in Range(K) : rank[k] < rank[d] /\ Alike(k, d)
    /\ \A k, d \in Range(K) : rank[k] < rank[d] => ~Alike(k, d)
Ranks(V, rank) ==
    /\ \A d \in V : rank[d] \in Nat
    /\ \A d, e \in V : rank[d] = rank[e] => d = e

\* One more detection, of a rank no better than those before it.
LEMMA OneMoreChosen ==
  ASSUME NEW V, NEW rank, Ranks(V, rank), NEW W \in SUBSET V, NEW K, Chosen(K, W, rank),
         NEW c \in V, Alike(c, c), \A d \in W : rank[d] <= rank[c]
  PROVE  Chosen(Joining(c, K), W \cup {c}, rank)
  <1>1. PICK n \in Nat : n = Len(K) /\ K \in [1..n -> W] /\ DOMAIN K = 1..n
    BY LenProperties DEF Chosen
  <1>2. /\ \A i, j \in 1..n : i < j => rank[K[i]] < rank[K[j]]
        /\ \A d \in W : d \in Range(K) \/ \E k \in Range(K) : rank[k] < rank[d] /\ Alike(k, d)
        /\ \A k, d \in Range(K) : rank[k] < rank[d] => ~Alike(k, d)
    BY <1>1 DEF Chosen
  <1>3. Range(K) \subseteq W /\ \A i \in 1..n : K[i] \in Range(K) /\ K[i] \in W
    BY <1>1 DEF Range
  <1>4. CASE \E k \in Range(K) : Alike(k, c)
    <2>1. PICK k \in Range(K) : Alike(k, c)
      BY <1>4
    <2>2. Joining(c, K) = K
      BY <1>4 DEF Joining
    <2>3. c \in Range(K) \/ rank[k] < rank[c]
      <3>1. rank[k] \in Nat /\ rank[c] \in Nat /\ rank[k] <= rank[c]
        BY <1>3 DEF Ranks
      <3>2. CASE rank[k] = rank[c]
        <4>1. k = c
          BY <1>3, <3>2 DEF Ranks
        <4>2. QED
          BY <4>1
      <3>3. CASE rank[k] # rank[c]
        BY <3>1, <3>3
      <3>4. QED
        BY <3>2, <3>3
    <2>4. K \in Seq(W \cup {c})
      <3>1. K \in [1..n -> W \cup {c}]
        BY <1>1
      <3>2. QED
        BY <3>1, IsASeq
    <2>5. \A d \in W \cup {c} :
             d \in Range(K) \/ \E e \in Range(K) : rank[e] < rank[d] /\ Alike(e, d)
      BY <1>2, <2>1, <2>3
    <2>6. QED
      BY <1>1, <1>2, <2>2, <2>4, <2>5 DEF Chosen
  <1>5. CASE ~\E k \in Range(K) : Alike(k, c)
    <2>1. PICK L : L = Append(K, c)
      OBVIOUS
    <2>2. Joining(c, K) = L
      BY <1>5, <2>1 DEF Joining
    <2>3. /\ L \in Seq(W \cup {c}) /\ Len(L) = n + 1 /\ DOMAIN L = 1..(n + 1)
          /\ \A i \in 1..n : L[i] = K[i]
          /\ L[n + 1] = c
      <3>1. K \in [1..n -> W \cup {c}]
        BY <1>1
      <3>2. K \in Seq(W \cup {c}) /\ c \in W \cup {c}
        BY <3>1, IsASeq
      <3>3. L \in Seq(W \cup {c}) /\ Len(L) = n + 1
        BY <1>1, <2>1, <3>2, AppendProperties
      <3>4. (\A i \in 1..n : L[i] = K[i]) /\ L[n + 1] = c
        BY <1>1, <2>1, <3>2, AppendProperties
      <3>5. DOMAIN L = 1..(n + 1)
        BY <3>3, LenProperties
      <3>6. QED
        BY <3>3, <3>4, <3>5
    <2>4. \A i \in 1..(n + 1) : i \in 1..n \/ i = n + 1
      OBVIOUS
    <2>5. Range(L) = Range(K) \cup {c}
      <3>1. \A x \in Range(L) : x \in Range(K) \cup {c}
        BY <1>3, <2>3, <2>4 DEF Range
      <3>2. \A x \in Range(K) : x \in Range(L)
        <4>1. \A i \in 1..n : i \in 1..(n + 1)
          OBVIOUS
        <4>2. QED
          BY <1>1, <2>3, <4>1 DEF Range
      <3>3. c \in Range(L)
        <4>1. n + 1 \in 1..(n + 1)
          OBVIOUS
        <4>2. QED
          BY <2>3, <4>1 DEF Range
      <3>4. QED
        BY <3>1, <3>2, <3>3
    <2>6. \A k \in Range(K) : rank[k] < rank[c]
      <3>1. SUFFICES ASSUME NEW k \in Range(K) PROVE rank[k] < rank[c]
        OBVIOUS
      <3>2. rank[k] \in Nat /\ rank[c] \in Nat /\ rank[k] <= rank[c]
        BY <1>3 DEF Ranks
      <3>3. rank[k] # rank[c]
        BY <1>3, <1>5 DEF Ranks
      <3>4. QED
        BY <3>2, <3>3
    <2>7. \A i, j \in 1..(n + 1) : i < j => rank[L[i]] < rank[L[j]]
      <3>1. SUFFICES ASSUME NEW i \in 1..(n + 1), NEW j \in 1..(n + 1), i < j
                     PROVE  rank[L[i]] < rank[L[j]]
        OBVIOUS
      <3>2. i \in 1..n
        BY <3>1
      <3>3. CASE j \in 1..n
        BY <1>2, <2>3, <3>1, <3>2, <3>3
      <3>4. CASE j = n + 1
        BY <1>3, <2>3, <2>6, <3>2, <3>4
      <3>5. QED
        BY <2>4, <3>3, <3>4
    <2>8. \A d \in W \cup {c} :
             d \in Range(L) \/ \E k \in Range(L) : rank[k] < rank[d] /\ Alike(k, d)
      BY <1>2, <2>5
    <2>9. \A k, d \in Range(L) : rank[k] < rank[d] => ~Alike(k, d)
      <3>1. SUFFICES ASSUME NEW k \in Range(L), NEW d \in Range(L), rank[k] < rank[d]
                     PROVE  ~Alike(k, d)
        OBVIOUS
      <3>2. CASE k \in Range(K) /\ d \in Range(K)
        BY <1>2, <3>1, <3>2
      <3>3. CASE k \in Range(K) /\ d = c
        BY <1>5, <3>3
      <3>4. ASSUME k = c PROVE FALSE
        <4>1. d \in Range(K) \/ d = c
          BY <2>5
        <4>2. rank[c] \in Nat /\ rank[d] \in Nat
          BY <1>3, <4>1 DEF Ranks
        <4>3. rank[d] <= rank[c]
          BY <2>6, <4>1, <4>2
        <4>4. QED
          BY <3>1, <3>4, <4>2, <4>3
      <3>5. QED
        BY <2>5, <3>2, <3>3, <3>4
    <2>10. QED
      BY <2>2, <2>3, <2>7, <2>8, <2>9 DEF Chosen
  <1>6. QED
    BY <1>4, <1>5

\* The greedy pass over detections by their rank chooses so.
LEMMA PassChooses ==
  ASSUME NEW V, NEW rank, Ranks(V, rank), \A d \in V : Alike(d, d),
         NEW o, NEW n \in Nat, DOMAIN o = 1..n, \A i \in 1..n : o[i] \in V,
         \A i, j \in 1..n : i < j => rank[o[i]] <= rank[o[j]]
  PROVE  Chosen(Unrivalled(o), {o[i] : i \in 1..n}, rank)
  <1>1. PICK K : Unrivalled(o) = K[n] /\ Grows(K, o, n)
    BY PassGrows
  <1> DEFINE W(m) == {o[i] : i \in 1..m}
             bad == {m \in 0..n : ~Chosen(K[m], W(m), rank)}
  <1>2. Chosen(K[0], W(0), rank)
    <2>1. K[0] = <<>> /\ W(0) = {}
      BY <1>1 DEF Grows
    <2>2. <<>> \in Seq({}) /\ Len(<<>>) = 0 /\ Range(<<>>) = {}
      BY DEF Range
    <2>3. Chosen(<<>>, {}, rank)
      BY <2>2 DEF Chosen
    <2>4. QED
      BY <2>1, <2>3
  <1>3. ASSUME NEW m \in 1..n, Chosen(K[m - 1], W(m - 1), rank) PROVE Chosen(K[m], W(m), rank)
    <2>1. K[m] = Joining(o[m], K[m - 1])
      BY <1>1 DEF Grows
    <2>2. PICK X : X = W(m - 1)
      OBVIOUS
    <2>3. PICK c \in V : c = o[m]
      OBVIOUS
    <2>4. \A i \in 1..(m - 1) : i \in 1..n /\ i < m /\ i \in 1..m
      OBVIOUS
    <2>5. X \in SUBSET V
      BY <2>2, <2>4
    <2>6. \A d \in X : rank[d] <= rank[c]
      BY <2>2, <2>3, <2>4
    <2>7. Chosen(K[m - 1], X, rank) /\ Alike(c, c)
      BY <1>3, <2>2
    <2>8. Chosen(Joining(c, K[m - 1]), X \cup {c}, rank)
      BY <2>5, <2>6, <2>7, OneMoreChosen
    <2>9. W(m) = X \cup {c}
      <3>1. \A i \in 1..m : i \in 1..(m - 1) \/ i = m
        OBVIOUS
      <3>2. m \in 1..m
        OBVIOUS
      <3>3. QED
        BY <2>2, <2>3, <2>4, <3>1, <3>2
    <2>10. QED
      BY <2>1, <2>3, <2>8, <2>9
  <1> HIDE DEF W
  <1>4. bad = {}
    <2> SUFFICES ASSUME bad # {} PROVE FALSE
      OBVIOUS
    <2>1. PICK m \in bad : \A y \in bad : m <= y
      <3>1. bad \subseteq Nat
        OBVIOUS
      <3>2. QED
        BY <3>1, LeastOfSet
    <2>2. m \in 0..n /\ ~Chosen(K[m], W(m), rank)
      OBVIOUS
    <2>3. m # 0
      BY <1>2, <2>2
    <2>4. m \in 1..n /\ m - 1 \in 0..n /\ ~(m <= m - 1)
      BY <2>2, <2>3
    <2>5. Chosen(K[m - 1], W(m - 1), rank)
      BY <2>1, <2>4
    <2>6. QED
      BY <1>3, <2>2, <2>4, <2>5
  <1>5. n \in 0..n
    OBVIOUS
  <1>6. Chosen(K[n], W(n), rank)
    BY <1>4, <1>5
  <1>7. QED
    BY <1>1, <1>6 DEF W

\* The chosen are of the set they are chosen from.
LEMMA RangeOfChosen ==
  ASSUME NEW W, NEW rank, NEW K, Chosen(K, W, rank)
  PROVE  Range(K) \subseteq W
  <1>1. K \in [1..Len(K) -> W]
    BY LenProperties DEF Chosen
  <1>2. QED
    BY <1>1 DEF Range

\* There is one such choice.
LEMMA OneChoice ==
  ASSUME NEW V, NEW rank, Ranks(V, rank), NEW K, Chosen(K, V, rank), NEW L, Chosen(L, V, rank)
  PROVE  Range(K) = Range(L)
  <1>1. /\ \A d \in V : d \in Range(L) \/ \E k \in Range(L) : rank[k] < rank[d] /\ Alike(k, d)
        /\ \A d \in V : d \in Range(K) \/ \E k \in Range(K) : rank[k] < rank[d] /\ Alike(k, d)
        /\ \A k, d \in Range(K) : rank[k] < rank[d] => ~Alike(k, d)
        /\ \A k, d \in Range(L) : rank[k] < rank[d] => ~Alike(k, d)
        /\ Range(K) \subseteq V /\ Range(L) \subseteq V
    BY RangeOfChosen DEF Chosen
  <1> DEFINE odd == {d \in V : (d \in Range(K)) # (d \in Range(L))}
             ranks == {rank[d] : d \in odd}
  <1>2. odd = {}
    <2> SUFFICES ASSUME odd # {} PROVE FALSE
      OBVIOUS
    <2>1. PICK r \in ranks : \A y \in ranks : r <= y
      <3>1. ranks \subseteq Nat /\ ranks # {}
        BY DEF Ranks
      <3>2. QED
        BY <3>1, LeastOfSet
    <2>2. PICK d \in odd : r = rank[d]
      OBVIOUS
    <2>3. \A k \in V : rank[k] < rank[d] => (k \in Range(K) <=> k \in Range(L))
      <3>1. SUFFICES ASSUME NEW k \in V, rank[k] < rank[d], k \in odd PROVE FALSE
        OBVIOUS
      <3>2. rank[k] \in ranks
        BY <3>1
      <3>3. rank[d] <= rank[k] /\ rank[d] \in Nat /\ rank[k] \in Nat
        BY <2>1, <2>2, <3>2 DEF Ranks
      <3>4. QED
        BY <3>1, <3>3
    <2>4. CASE d \in Range(K) /\ d \notin Range(L)
      <3>1. PICK k \in Range(L) : rank[k] < rank[d] /\ Alike(k, d)
        BY <1>1, <2>4
      <3>2. k \in Range(K)
        BY <1>1, <2>3, <3>1
      <3>3. QED
        BY <1>1, <2>4, <3>1, <3>2
    <2>5. CASE d \in Range(L) /\ d \notin Range(K)
      <3>1. PICK k \in Range(K) : rank[k] < rank[d] /\ Alike(k, d)
        BY <1>1, <2>5
      <3>2. k \in Range(L)
        BY <1>1, <2>3, <3>1
      <3>3. QED
        BY <1>1, <2>5, <3>1, <3>2
    <2>6. QED
      BY <2>4, <2>5
  <1>3. QED
    BY <1>1, <1>2

\* Two lists in an order of rank are the same when they have the same entries.
Agree(K, L, a, b) == \A i \in 1..a : i \in 1..b /\ K[i] = L[i]
Rises(K, rank, a) == \A i, j \in 1..a : i < j => rank[K[i]] < rank[K[j]]

\* Two lists of the same entries that both rise agree entry by entry.
LEMMA RisingAgree ==
  ASSUME NEW V, NEW rank, Ranks(V, rank), NEW a \in Nat, NEW b \in Nat, NEW K \in [1..a -> V],
         NEW L \in [1..b -> V], Range(K) = Range(L),
         Rises(K, rank, a), Rises(L, rank, b)
  PROVE  Agree(K, L, a, b)
  <1> USE DEF Rises
  <1> DEFINE bad == {i \in 1..a : ~(i \in 1..b /\ K[i] = L[i])}
  <1>1. \A i \in 1..a : rank[K[i]] \in Nat
    BY DEF Ranks
  <1>2. \A i \in 1..b : rank[L[i]] \in Nat
    BY DEF Ranks
  <1>3. bad = {}
    <2> SUFFICES ASSUME bad # {} PROVE FALSE
      OBVIOUS
    <2>1. PICK i \in bad : \A y \in bad : i <= y
      <3>1. bad \subseteq Nat
        OBVIOUS
      <3>2. QED
        BY <3>1, LeastOfSet
    <2>2. i \in 1..a /\ ~(i \in 1..b /\ K[i] = L[i])
      OBVIOUS
    <2>3. \A h \in 1..a : h < i => h \in 1..b /\ K[h] = L[h]
      <3>1. SUFFICES ASSUME NEW h \in 1..a, h < i, h \in bad PROVE FALSE
        OBVIOUS
      <3>2. i <= h
        BY <2>1, <3>1
      <3>3. QED
        BY <2>2, <3>1, <3>2
    <2>4. PICK j \in 1..b : K[i] = L[j]
      BY <2>2 DEF Range
    <2>5. i <= j
      <3>1. SUFFICES ASSUME j < i PROVE FALSE
        BY <2>2
      <3>2. j \in 1..a
        BY <2>2, <3>1
      <3>3. K[j] = K[i] /\ rank[K[j]] < rank[K[i]]
        BY <2>2, <2>3, <2>4, <3>1, <3>2
      <3>4. QED
        BY <1>1, <2>2, <3>3
    <2>6. i \in 1..b
      BY <2>2, <2>5
    <2>7. PICK h \in 1..a : L[i] = K[h]
      BY <2>6 DEF Range
    <2>8. i <= h
      <3>1. SUFFICES ASSUME h < i PROVE FALSE
        BY <2>2
      <3>2. h \in 1..b /\ K[h] = L[h]
        BY <2>3, <3>1
      <3>3. rank[L[h]] < rank[L[i]] /\ L[h] = L[i]
        BY <2>6, <2>7, <3>1, <3>2
      <3>4. QED
        BY <1>2, <2>6, <3>3
    <2>9. rank[K[i]] <= rank[K[h]]
      <3>1. CASE i = h
        BY <1>1, <3>1
      <3>2. CASE i < h
        BY <1>1, <2>2, <3>2
      <3>3. QED
        BY <2>2, <2>8, <3>1, <3>2
    <2>10. i = j
      <3>1. SUFFICES ASSUME i < j PROVE FALSE
        BY <2>5, <2>6
      <3>2. rank[L[i]] < rank[L[j]]
        BY <2>6, <3>1
      <3>3. rank[K[h]] < rank[K[i]]
        BY <2>4, <2>7, <3>2
      <3>4. QED
        BY <1>1, <2>2, <2>9, <3>3
    <2>11. QED
      BY <2>2, <2>4, <2>6, <2>10
  <1>4. QED
    BY <1>3 DEF Agree

\* Of one set in one order only one list can be chosen.
LEMMA SameChosen ==
  ASSUME NEW V, NEW rank, Ranks(V, rank), NEW K, Chosen(K, V, rank), NEW L, Chosen(L, V, rank)
  PROVE  K = L
  <1>1. PICK a \in Nat : a = Len(K) /\ K \in [1..a -> V]
    BY LenProperties DEF Chosen
  <1>2. PICK b \in Nat : b = Len(L) /\ L \in [1..b -> V]
    BY LenProperties DEF Chosen
  <1>3. Range(K) = Range(L)
    BY OneChoice
  <1>4. Rises(K, rank, a) /\ Rises(L, rank, b)
    BY <1>1, <1>2 DEF Chosen, Rises
  <1>5. \A i \in 1..a : i \in 1..b /\ K[i] = L[i]
    <2>1. Agree(K, L, a, b)
      BY <1>1, <1>2, <1>3, <1>4, RisingAgree
    <2>2. QED
      BY <2>1 DEF Agree
  <1>6. \A i \in 1..b : i \in 1..a /\ L[i] = K[i]
    <2>1. Agree(L, K, b, a)
      BY <1>1, <1>2, <1>3, <1>4, RisingAgree
    <2>2. QED
      BY <2>1 DEF Agree
  <1>7. a = b
    <2>1. a <= b
      <3>1. CASE a = 0
        BY <3>1
      <3>2. CASE a # 0
        BY <1>5, <3>2
      <3>3. QED
        BY <3>1, <3>2
    <2>2. b <= a
      <3>1. CASE b = 0
        BY <3>1
      <3>2. CASE b # 0
        BY <1>6, <3>2
      <3>3. QED
        BY <3>1, <3>2
    <2>3. QED
      BY <2>1, <2>2
  <1>8. QED
    BY <1>1, <1>2, <1>5, <1>7

\* The keys of detections.
LEMMA KeyOfFive ==
  ASSUME NEW a \in Int, NEW b \in Int, NEW c \in Int, NEW d \in Int, NEW e \in Int
  PROVE  <<a, b, c, d, e>> \in Keys
  <1>1. <<a, b, c, d, e>> \in Seq(Int) /\ Len(<<a, b, c, d, e>>) = 5
    OBVIOUS
  <1>2. QED
    BY <1>1, LenProperties DEF Keys

\* Both sort keys of a detection are keys.
LEMMA KeysOfDetections ==
  ASSUME NEW d \in Detections
  PROVE  TimeKey(d) \in Keys /\ RankKey(d) \in Keys
  <1>1. d.ts \in Int /\ d.cls \in Int /\ -d.conf \in Int /\ d.x \in Int /\ d.w \in Int
    BY DEF Detections
  <1>2. QED
    BY <1>1, KeyOfFive DEF TimeKey, RankKey

\* No two detections have one key of rank: it names every field.
LEMMA RankKeyIsOwn ==
  ASSUME NEW d \in Detections, NEW e \in Detections, RankKey(d) = RankKey(e)
  PROVE  d = e
  <1>1. /\ RankKey(d)[1] = -d.conf /\ RankKey(d)[2] = d.ts /\ RankKey(d)[3] = d.cls
        /\ RankKey(d)[4] = d.x /\ RankKey(d)[5] = d.w
    BY DEF RankKey
  <1>2. /\ RankKey(e)[1] = -e.conf /\ RankKey(e)[2] = e.ts /\ RankKey(e)[3] = e.cls
        /\ RankKey(e)[4] = e.x /\ RankKey(e)[5] = e.w
    BY DEF RankKey
  <1>3. -d.conf = -e.conf /\ d.conf \in Int /\ e.conf \in Int
    BY <1>1, <1>2 DEF Detections
  <1>4. d.conf = e.conf
    BY <1>3
  <1>5. d.ts = e.ts /\ d.cls = e.cls /\ d.x = e.x /\ d.w = e.w
    BY <1>1, <1>2
  <1>6. QED
    BY <1>4, <1>5 DEF Detections

\* The greatest and the least of two numbers.
LEMMA MaxOfTwo ==
  ASSUME NEW a \in Int, NEW b \in Int
  PROVE  Max({a, b}) = IF a >= b THEN a ELSE b
  <1>1. PICK m \in {a, b} : \A y \in {a, b} : m >= y
    <2>1. a >= b \/ b >= a
      OBVIOUS
    <2>2. QED
      BY <2>1
  <1>2. PICK x : x = Max({a, b})
    OBVIOUS
  <1>3. x \in {a, b} /\ \A y \in {a, b} : x >= y
    BY <1>1, <1>2 DEF Max
  <1>4. QED
    BY <1>2, <1>3

LEMMA MinOfTwo ==
  ASSUME NEW a \in Int, NEW b \in Int
  PROVE  Min({a, b}) = IF a <= b THEN a ELSE b
  <1>1. PICK m \in {a, b} : \A y \in {a, b} : m <= y
    <2>1. a <= b \/ b <= a
      OBVIOUS
    <2>2. QED
      BY <2>1
  <1>2. PICK x : x = Min({a, b})
    OBVIOUS
  <1>3. x \in {a, b} /\ \A y \in {a, b} : x <= y
    BY <1>1, <1>2 DEF Min
  <1>4. QED
    BY <1>2, <1>3

\* A box with an area is like its own copy.
LEMMA OwnCopyAlike ==
  ASSUME NEW d \in Detections, d.w > 0
  PROVE  Alike(d, d)
  <1>1. PICK x, w : x = d.x /\ w = d.w /\ x \in Nat /\ w \in Nat /\ w > 0
    BY DEF Detections
  <1>2. Min({x + w, x + w}) = x + w /\ Max({x, x}) = x
    BY <1>1, MinOfTwo, MaxOfTwo
  <1>3. Max({0, (x + w) - x}) = w
    <2>1. 0 \in Int /\ (x + w) - x \in Int /\ ~(0 >= (x + w) - x) /\ (x + w) - x = w
      BY <1>1
    <2>2. QED
      BY <2>1, MaxOfTwo
  <1>4. Overlap(d, d) = w
    BY <1>1, <1>2, <1>3 DEF Overlap
  <1>5. w > 0 /\ 2 * w >= w + w - w
    BY <1>1
  <1>6. QED
    BY <1>1, <1>4, <1>5 DEF Alike

\* A set of detections has an order of rank.
RankPairs(V) == {e \in V \X V : e[1] = e[2] \/ Before(RankKey(e[1]), RankKey(e[2]))}

\* The place by sort key is such an order of rank.
LEMMA DetectionsRanked ==
  ASSUME NEW V \in SUBSET Detections, IsFiniteSet(V)
  PROVE  \E rank :
            /\ Ranks(V, rank)
            /\ \A d, e \in V : Before(RankKey(d), RankKey(e)) => rank[d] <= rank[e]
  <1>1. PICK R : R = RankPairs(V)
    OBVIOUS
  <1>2. \A d, e \in V : <<d, e>> \in R <=> d = e \/ Before(RankKey(d), RankKey(e))
    BY <1>1 DEF RankPairs
  <1>3. \A d \in V : RankKey(d) \in Keys
    BY KeysOfDetections
  <1>4. /\ \A d \in V : ~Before(RankKey(d), RankKey(d))
        /\ \A d, e \in V : RankKey(d) = RankKey(e) \/ Before(RankKey(d), RankKey(e))
                                                   \/ Before(RankKey(e), RankKey(d))
        /\ \A d, e, f \in V : Before(RankKey(d), RankKey(e)) /\ Before(RankKey(e), RankKey(f))
                                  => Before(RankKey(d), RankKey(f))
    BY <1>3, BeforeOrders
  <1>5. TotalOrder(R, V)
    <2>1. \A x \in V : <<x, x>> \in R
      BY <1>2
    <2>2. \A x, y \in V : <<x, y>> \in R \/ <<y, x>> \in R
      BY <1>2, <1>4, RankKeyIsOwn
    <2>3. \A x, y \in V : <<x, y>> \in R /\ <<y, x>> \in R => x = y
      BY <1>2, <1>4
    <2>4. \A x, y, z \in V : <<x, y>> \in R /\ <<y, z>> \in R => <<x, z>> \in R
      BY <1>2, <1>4
    <2>5. QED
      BY <2>1, <2>2, <2>3, <2>4 DEF TotalOrder
  <1>6. PICK rank : rank = [x \in V |-> Cardinality({y \in V : <<y, x>> \in R})]
    OBVIOUS
  <1>7. Places(R, V, rank) /\ Cardinality(V) \in Nat
    BY <1>5, <1>6, PlacesCount
  <1>8. Ranks(V, rank)
    BY <1>7 DEF Places, Ranks
  <1>9. \A d, e \in V : Before(RankKey(d), RankKey(e)) => rank[d] <= rank[e]
    BY <1>2, <1>7 DEF Places
  <1>10. QED
    BY <1>8, <1>9

\* A merge depends on what is merged, not on the copies and their order.
LEMMA MergeChooses ==
  ASSUME NEW V \in SUBSET Detections, \A d \in V : d.w > 0, NEW rank, Ranks(V, rank),
         \A d, e \in V : Before(RankKey(d), RankKey(e)) => rank[d] <= rank[e],
         NEW s \in Seq(V), Range(s) = V
  PROVE  Chosen(Unrivalled(ByRank(s)), V, rank)
  <1>1. PICK n \in Nat : n = Len(s) /\ s \in [1..n -> V] /\ DOMAIN s = 1..n
    BY LenProperties
  <1>2. PICK key : key = [d \in Range(s) |-> RankKey(d)]
    OBVIOUS
  <1>3. \A m \in 1..n : key[s[m]] = RankKey(s[m]) /\ RankKey(s[m]) \in Keys /\ s[m] \in V
    BY <1>1, <1>2, KeysOfDetections
  <1>4. PICK o : o = ByRank(s) /\ o = Ordered(s, key)
    BY <1>2 DEF ByRank
  <1>5. DOMAIN o = 1..n /\ Sorts(o, s, key, n)
    BY <1>1, <1>3, <1>4, OrderedSorts
  <1>6. \A i \in 1..n : o[i] \in V /\ key[o[i]] = RankKey(o[i])
    <2>1. SUFFICES ASSUME NEW i \in 1..n PROVE o[i] \in V /\ key[o[i]] = RankKey(o[i])
      OBVIOUS
    <2>2. PICK m \in 1..n : o[i] = s[m]
      BY <1>5 DEF Sorts
    <2>3. QED
      BY <1>3, <2>2
  <1>7. {o[i] : i \in 1..n} = V
    BY <1>1, <1>5, <1>6 DEF Sorts, Range
  <1>8. ASSUME NEW i \in 1..n, NEW j \in 1..n, i < j PROVE rank[o[i]] <= rank[o[j]]
    <2>1. Before(RankKey(o[i]), RankKey(o[j])) \/ RankKey(o[i]) = RankKey(o[j])
      <3>1. Before(key[o[i]], key[o[j]]) \/ key[o[i]] = key[o[j]]
        BY <1>5, <1>8 DEF Sorts
      <3>2. key[o[i]] = RankKey(o[i]) /\ key[o[j]] = RankKey(o[j])
        BY <1>6
      <3>3. QED
        BY <3>1, <3>2
    <2>2. CASE Before(RankKey(o[i]), RankKey(o[j]))
      BY <1>6, <2>2
    <2>3. CASE RankKey(o[i]) = RankKey(o[j])
      <3>1. o[i] \in Detections /\ o[j] \in Detections
        BY <1>6
      <3>2. o[i] = o[j] /\ rank[o[i]] \in Nat
        BY <1>6, <2>3, <3>1, RankKeyIsOwn DEF Ranks
      <3>3. QED
        BY <3>2
    <2>4. QED
      BY <2>1, <2>2, <2>3
  <1>9. \A d \in V : Alike(d, d)
    BY OwnCopyAlike
  <1>10. Chosen(Unrivalled(o), {o[i] : i \in 1..n}, rank)
    BY <1>5, <1>6, <1>8, <1>9, PassChooses
  <1>11. QED
    BY <1>4, <1>7, <1>10

\* So two lists of the same detections merge to the same result.
LEMMA MergeOfSet ==
  ASSUME NEW V \in SUBSET Detections, IsFiniteSet(V), \A d \in V : d.w > 0,
         NEW s \in Seq(V), Range(s) = V, NEW t \in Seq(V), Range(t) = V
  PROVE  Dedupe(s) = Dedupe(t)
  <1>1. PICK rank : /\ Ranks(V, rank)
                    /\ \A d, e \in V : Before(RankKey(d), RankKey(e)) => rank[d] <= rank[e]
    BY DetectionsRanked
  <1>2. Chosen(Unrivalled(ByRank(s)), V, rank) /\ Chosen(Unrivalled(ByRank(t)), V, rank)
    BY <1>1, MergeChooses
  <1>3. Unrivalled(ByRank(s)) = Unrivalled(ByRank(t))
    BY <1>1, <1>2, SameChosen
  <1>4. QED
    BY <1>3 DEF Dedupe

\* A sorted list is a function on the places of what was sorted.
LEMMA OrderedIsFunction ==
  ASSUME NEW s, NEW key
  PROVE  Ordered(s, key) = [i \in DOMAIN Ordered(s, key) |-> Ordered(s, key)[i]]
  BY DEF Ordered

\* A run over some detections returns these.
LEMMA RunReturns ==
  ASSUME NEW V \in SUBSET Detections, IsFiniteSet(V)
  PROVE  RunOf(V) \in Seq(V) /\ Range(RunOf(V)) = V
  <1>1. PICK n, s : n = Cardinality(V) /\ n \in Nat /\ s = SetToSeq(V)
    BY FS_CardinalityType
  <1>2. s \in Seq(V) /\ Len(s) = n /\ \A x \in V : \E i \in 1..n : s[i] = x
    BY <1>1, ListOfSet
  <1>3. s \in [1..n -> V] /\ DOMAIN s = 1..n
    BY <1>2, LenProperties
  <1>4. Range(s) = V
    BY <1>2, <1>3 DEF Range
  <1>5. PICK key : key = [d \in Range(s) |-> TimeKey(d)]
    OBVIOUS
  <1>6. \A m \in 1..n : key[s[m]] \in Keys
    BY <1>3, <1>4, <1>5, KeysOfDetections
  <1>7. PICK o : o = RunOf(V) /\ o = Ordered(s, key)
    BY <1>1, <1>5 DEF RunOf, ByTime
  <1>8. DOMAIN o = 1..n /\ Sorts(o, s, key, n)
    BY <1>1, <1>3, <1>6, <1>7, OrderedSorts
  <1>9. \A i \in 1..n : o[i] \in V
    BY <1>3, <1>8 DEF Sorts
  <1>10. o \in Seq(V)
    <2>1. o = [i \in 1..n |-> o[i]]
      BY <1>7, <1>8, OrderedIsFunction
    <2>2. o \in [1..n -> V]
      BY <1>9, <2>1
    <2>3. QED
      BY <1>1, <2>2, IsASeq
  <1>11. Range(o) = V
    <2>1. \A x \in V : \E i \in 1..n : o[i] = x
      BY <1>2, <1>8 DEF Sorts
    <2>2. Range(o) = {o[i] : i \in 1..n}
      BY <1>8 DEF Range
    <2>3. QED
      BY <1>9, <2>1, <2>2
  <1>12. QED
    BY <1>7, <1>10, <1>11

\* A number is rounded to the multiple of the grain below it or to the next.
Rounds(p, q, D, u, s, r) ==
    /\ D \in Nat \ {0} /\ D = q * OrGrain
    /\ u \in Int /\ s \in Nat /\ s < D /\ p = u * D + s
    /\ r = (IF 2 * s > D \/ (2 * s = D /\ u % 2 = 1) THEN u + 1 ELSE u)
    /\ Rounded(p, q) = OrGrain * r

\* Every number is rounded so.
LEMMA RoundedIs ==
  ASSUME NEW p \in Int, NEW q \in Nat \ {0}
  PROVE  \E D, u, s, r : Rounds(p, q, D, u, s, r)
  <1>0. OrGrain \in Nat \ {0}
    BY OrAssumption
  <1>1. PICK D \in Nat \ {0} : D = q * OrGrain
    <2>1. q * OrGrain \in Nat \ {0}
      BY <1>0
    <2>2. QED
      BY <2>1
  <1>2. PICK u \in Int, s \in Nat : u = p \div D /\ s = p % D /\ p = D * u + s /\ s < D
    OBVIOUS
  <1>3. PICK r : r = IF 2 * s > D \/ (2 * s = D /\ u % 2 = 1) THEN u + 1 ELSE u
    OBVIOUS
  <1>4. p = u * D + s /\ p - u * q * OrGrain = s
    <2>1. PICK g \in Nat : g = OrGrain
      BY <1>0
    <2>2. u * (q * g) = u * q * g /\ D = q * g
      BY <1>1, <2>1
    <2>3. p = u * D + s
      BY <1>2
    <2>4. u * D \in Int /\ u * D = u * q * OrGrain
      BY <2>1, <2>2
    <2>5. QED
      BY <2>3, <2>4
  <1>5. Rounded(p, q) = OrGrain * (IF 2 * (p - u * q * OrGrain) > q * OrGrain
                                      \/ (2 * (p - u * q * OrGrain) = q * OrGrain /\ u % 2 = 1)
                                   THEN u + 1 ELSE u)
    BY <1>1, <1>2, Zenon DEF Rounded
  <1>6. Rounded(p, q) = OrGrain * r
    BY <1>1, <1>3, <1>4, <1>5
  <1>7. QED
    BY <1>1, <1>2, <1>3, <1>4, <1>6 DEF Rounds

\* Rounding keeps the order of numbers.
LEMMA RoundedGrows ==
  ASSUME NEW a \in Int, NEW b \in Int, a <= b, NEW q \in Nat \ {0}
  PROVE  Rounded(a, q) \in Int /\ Rounded(b, q) \in Int /\ Rounded(a, q) <= Rounded(b, q)
  <1>1. PICK D, u, s, r : Rounds(a, q, D, u, s, r)
    BY RoundedIs
  <1>2. PICK E, v, t, w : Rounds(b, q, E, v, t, w)
    BY RoundedIs
  <1>3. /\ E = D /\ D \in Nat \ {0} /\ u \in Int /\ v \in Int /\ s \in Nat /\ t \in Nat
        /\ s < D /\ t < D /\ a = u * D + s /\ b = v * D + t
    BY <1>1, <1>2 DEF Rounds
  <1>4. u <= v
    <2>1. SUFFICES ASSUME u - v >= 1 PROVE FALSE
      BY <1>3
    <2>2. (u - v) * D >= D
      BY <1>3, <2>1
    <2>3. (u - v) * D = u * D - v * D
      BY <1>3
    <2>4. u * D \in Int /\ v * D \in Int
      BY <1>3
    <2>5. QED
      BY <1>3, <2>2, <2>3, <2>4
  <1>5. PICK o, e : o = u % 2 /\ e = v % 2
    OBVIOUS
  <1>6. /\ r = (IF 2 * s > D \/ (2 * s = D /\ o = 1) THEN u + 1 ELSE u)
        /\ w = (IF 2 * t > D \/ (2 * t = D /\ e = 1) THEN v + 1 ELSE v)
    BY <1>1, <1>2, <1>3, <1>5, Zenon DEF Rounds
  <1>7. r \in Int /\ w \in Int /\ r <= w
    <2>1. CASE u = v
      <3>1. s <= t /\ o = e
        BY <1>3, <1>5, <2>1
      <3>2. QED
        BY <1>3, <1>6, <2>1, <3>1
    <2>2. CASE u # v
      <3>1. u + 1 <= v
        BY <1>3, <1>4, <2>2
      <3>2. r \in {u, u + 1} /\ w \in {v, v + 1}
        BY <1>6
      <3>3. QED
        BY <1>3, <3>1, <3>2
    <2>3. QED
      BY <2>1, <2>2
  <1>8. PICK g \in Nat : g = OrGrain
    BY OrAssumption
  <1>9. Rounded(a, q) = g * r /\ Rounded(b, q) = g * w
    BY <1>1, <1>2, <1>8 DEF Rounds
  <1>10. PICK d \in Nat : w = r + d
    <2>1. w - r \in Nat /\ w = r + (w - r)
      BY <1>7
    <2>2. QED
      BY <2>1
  <1>11. g * w = g * r + g * d /\ g * d \in Nat /\ g * r \in Int
    BY <1>7, <1>10
  <1>12. QED
    BY <1>9, <1>11

\* A multiple of the grain stays what it is.
LEMMA RoundedExact ==
  ASSUME NEW m \in Int, NEW q \in Nat \ {0}, NEW p, p = m * (q * OrGrain)
  PROVE  Rounded(p, q) = OrGrain * m
  <1>1. p \in Int
    BY OrAssumption
  <1>2. PICK D, u, s, r : Rounds(p, q, D, u, s, r)
    BY <1>1, RoundedIs
  <1>3. /\ D \in Nat \ {0} /\ u \in Int /\ s \in Nat /\ s < D
        /\ m * D = u * D + s
    BY <1>2 DEF Rounds
  <1>4. (m - u) * D = s
    BY <1>3
  <1>5. m - u >= 1 => (m - u) * D >= D
    BY <1>3
  <1>6. m - u <= -1 => (m - u) * D <= -D
    BY <1>3
  <1>7. m = u
    BY <1>3, <1>4, <1>5, <1>6
  <1>8. s = 0
    BY <1>3, <1>4, <1>7
  <1>9. ~(2 * s > D) /\ ~(2 * s = D)
    BY <1>3, <1>8
  <1>10. r = u /\ Rounded(p, q) = OrGrain * r
    BY <1>2, <1>9 DEF Rounds
  <1>11. QED
    BY <1>7, <1>10

\* The pieces of a length: the first begins at nothing, the last ends at all of
\* it, each begins before the one before it has ended, and none goes further.
Cuts(len, n) ==
    /\ \A i \in 0..(n - 1) : \E a \in Int, b \in Int :
          Low(len, n, i) = a * len /\ High(len, n, i) = b * len
    /\ Low(len, n, 0) = 0 /\ High(len, n, n - 1) = 4 * n * len
    /\ \A i \in 1..(n - 1) : Low(len, n, i) <= High(len, n, i - 1)
    /\ \A i \in 0..(n - 1) : High(len, n, i) <= 4 * n * len

\* The pieces a video or a frame is cut into are such pieces.
LEMMA PiecesOf ==
  ASSUME NEW len \in Nat, NEW n \in Nat \ {0}, orPlan.overlap \in {0, 1}
  PROVE  Cuts(len, n)
  <1>1. PICK v \in {0, 1} : v = orPlan.overlap
    OBVIOUS
  <1>2. ASSUME NEW i \in Int
        PROVE  /\ Low(len, n, i) = IF 0 >= (4 * i - v) * len THEN 0 ELSE (4 * i - v) * len
               /\ High(len, n, i) = IF 4 * n * len <= (4 * (i + 1) + v) * len
                                    THEN 4 * n * len ELSE (4 * (i + 1) + v) * len
    <2>1. 4 * i * len - len * v = (4 * i - v) * len /\ (4 * i - v) * len \in Int
      BY <1>1
    <2>2. /\ 4 * (i + 1) * len + len * v = (4 * (i + 1) + v) * len
          /\ (4 * (i + 1) + v) * len \in Int /\ 4 * n * len \in Int
      BY <1>1
    <2>3. Low(len, n, i) = Max({0, (4 * i - v) * len})
      BY <1>1, <2>1 DEF Low
    <2>4. High(len, n, i) = Min({4 * n * len, (4 * (i + 1) + v) * len})
      BY <1>1, <2>2 DEF High
    <2>5. 0 \in Int
      OBVIOUS
    <2>6. QED
      BY <2>1, <2>2, <2>3, <2>4, <2>5, MaxOfTwo, MinOfTwo
  <1>3. ASSUME NEW i \in 0..(n - 1)
        PROVE  \E a \in Int, b \in Int : Low(len, n, i) = a * len /\ High(len, n, i) = b * len
    <2>1. PICK a \in Int : Low(len, n, i) = a * len
      <3>1. PICK e \in Int : e = 4 * i - v
        BY <1>1
      <3>2. Low(len, n, i) = IF 0 >= e * len THEN 0 ELSE e * len
        BY <1>2, <3>1
      <3>3. CASE 0 >= e * len
        <4>1. Low(len, n, i) = 0 * len
          BY <3>2, <3>3
        <4>2. QED
          BY <4>1
      <3>4. CASE ~(0 >= e * len)
        BY <3>2, <3>4
      <3>5. QED
        BY <3>3, <3>4
    <2>2. PICK b \in Int : High(len, n, i) = b * len
      <3>1. PICK e \in Int, f \in Int : e = 4 * (i + 1) + v /\ f = 4 * n
        BY <1>1
      <3>2. High(len, n, i) = IF f * len <= e * len THEN f * len ELSE e * len
        BY <1>2, <3>1
      <3>3. High(len, n, i) = f * len \/ High(len, n, i) = e * len
        BY <3>2
      <3>4. QED
        BY <3>3
    <2>3. QED
      BY <2>1, <2>2
  <1>4. Low(len, n, 0) = 0
    <2>1. (4 * 0 - v) * len = -(v * len) /\ v * len \in Nat
      BY <1>1
    <2>2. Low(len, n, 0) = IF 0 >= (4 * 0 - v) * len THEN 0 ELSE (4 * 0 - v) * len
      BY <1>2
    <2>3. QED
      BY <2>1, <2>2
  <1>5. High(len, n, n - 1) = 4 * n * len
    <2>1. /\ (4 * ((n - 1) + 1) + v) * len = 4 * n * len + v * len
          /\ v * len \in Nat /\ 4 * n * len \in Nat
      <3>1. 4 * ((n - 1) + 1) + v = 4 * n + v
        BY <1>1
      <3>2. PICK f \in Nat : f = 4 * n
        OBVIOUS
      <3>3. CASE v = 0
        BY <3>1, <3>2, <3>3
      <3>4. CASE v = 1
        <4>1. (f + 1) * len = f * len + 1 * len /\ 1 * len \in Nat /\ f * len \in Nat
          OBVIOUS
        <4>2. QED
          BY <3>1, <3>2, <3>4, <4>1
      <3>5. QED
        BY <1>1, <3>3, <3>4
    <2>2. n - 1 \in Int
      OBVIOUS
    <2>3. QED
      BY <1>2, <2>1, <2>2
  <1>6. ASSUME NEW i \in 1..(n - 1) PROVE Low(len, n, i) <= High(len, n, i - 1)
    <2>1. PICK d \in Nat : n = i + d
      <3>1. n - i \in Nat /\ n = i + (n - i)
        OBVIOUS
      <3>2. QED
        BY <3>1
    <2>2. PICK x \in Nat, y \in Nat, z \in Nat : x = i * len /\ y = v * len /\ z = d * len
      BY <1>1
    <2>3. /\ (4 * i - v) * len = 4 * x - y
          /\ (4 * ((i - 1) + 1) + v) * len = 4 * x + y
          /\ 4 * n * len = 4 * x + 4 * z
      BY <1>1, <2>1, <2>2
    <2>4. i - 1 \in Int /\ i \in Int
      OBVIOUS
    <2>5. Low(len, n, i) = IF 0 >= 4 * x - y THEN 0 ELSE 4 * x - y
      BY <1>2, <2>3, <2>4
    <2>6. High(len, n, i - 1) = IF 4 * x + 4 * z <= 4 * x + y THEN 4 * x + 4 * z ELSE 4 * x + y
      BY <1>2, <2>3, <2>4
    <2>7. QED
      BY <2>2, <2>5, <2>6
  <1>7. ASSUME NEW i \in 0..(n - 1) PROVE High(len, n, i) <= 4 * n * len
    <2>1. PICK y \in Int, z \in Int : y = (4 * (i + 1) + v) * len /\ z = 4 * n * len
      BY <1>1
    <2>2. High(len, n, i) = IF z <= y THEN z ELSE y
      BY <1>2, <2>1
    <2>3. QED
      BY <2>1, <2>2
  <1>8. QED
    BY <1>3, <1>4, <1>5, <1>6, <1>7 DEF Cuts

\* Pieces that leave no gap cover what is between the first and the last.
LEMMA PiecesCover ==
  ASSUME NEW n \in Nat \ {0}, NEW lo, NEW hi, NEW t \in Int,
         \A i \in 0..(n - 1) : lo[i] \in Int /\ hi[i] \in Int,
         lo[0] <= t, t <= hi[n - 1], \A i \in 1..(n - 1) : lo[i] <= hi[i - 1]
  PROVE  \E i \in 0..(n - 1) : lo[i] <= t /\ t <= hi[i]
  <1>1. PICK S : S = {i \in 0..(n - 1) : t <= hi[i]}
    OBVIOUS
  <1>2. S \subseteq Nat /\ n - 1 \in S
    BY <1>1
  <1>3. PICK i \in S : \A y \in S : i <= y
    BY <1>2, LeastOfSet
  <1>4. i \in 0..(n - 1) /\ t <= hi[i]
    BY <1>1
  <1>5. lo[i] <= t
    <2>1. CASE i = 0
      BY <2>1
    <2>2. CASE i # 0
      <3>1. i - 1 \in 0..(n - 1) /\ i \in 1..(n - 1) /\ ~(i <= i - 1)
        BY <1>4, <2>2
      <3>2. ~(t <= hi[i - 1])
        BY <1>1, <1>3, <3>1
      <3>3. lo[i] <= hi[i - 1] /\ hi[i - 1] \in Int /\ lo[i] \in Int
        BY <1>4, <3>1
      <3>4. QED
        BY <3>2, <3>3
    <2>3. QED
      BY <2>1, <2>2
  <1>6. QED
    BY <1>4, <1>5

\* With edges on the grid, every time of a video is in a window, and every place
\* of a frame in a tile.
TimeInSomeWindow(t) == \E i \in 0..(orPlan.windows - 1) : InWindow(t, i)
PlaceInSomeTile(d) == \E i \in 0..(orPlan.columns - 1) : CenterInTile(d, i)

\* Every time up to the last frame that the plan covers lies in a window.
LEMMA EveryTimeInWindow ==
  ASSUME orPlan.windows \in Nat \ {0}, orPlan.overlap \in {0, 1}, orEnd \in Nat,
         orEnd % OrGrain = 0, NEW t \in Nat, t <= orEnd,
         orPlan.windows = 1 => InRequest(t)
  PROVE  TimeInSomeWindow(t)
  <1>1. PICK n \in Nat \ {0}, g \in Nat \ {0}, E \in Nat :
           n = orPlan.windows /\ g = OrGrain /\ E = orEnd /\ E % g = 0
    BY OrAssumption
  <1>2. PICK m \in Int : E = m * g
    <2>1. PICK u \in Int, s \in Int : u = E \div g /\ s = E % g /\ E = g * u + s
      OBVIOUS
    <2>2. E = g * u
      BY <1>1, <2>1
    <2>3. E = u * g
      BY <2>2
    <2>4. QED
      BY <2>3
  <1>3. Cuts(E, n)
    BY PiecesOf
  <1>4. PICK q \in Nat \ {0} : q = 4 * n
    OBVIOUS
  <1>5. PICK lo, hi : /\ lo = [i \in 0..(n - 1) |-> Rounded(Low(E, n, i), q)]
                      /\ hi = [i \in 0..(n - 1) |-> Rounded(High(E, n, i), q)]
    OBVIOUS
  <1>6. \A i \in 0..(n - 1) : Low(E, n, i) \in Int /\ High(E, n, i) \in Int
    <2>1. SUFFICES ASSUME NEW i \in 0..(n - 1)
                   PROVE  Low(E, n, i) \in Int /\ High(E, n, i) \in Int
      OBVIOUS
    <2>2. PICK a \in Int, b \in Int : Low(E, n, i) = a * E /\ High(E, n, i) = b * E
      BY <1>3 DEF Cuts
    <2>3. a * E \in Int /\ b * E \in Int
      OBVIOUS
    <2>4. QED
      BY <2>2, <2>3
  <1>7. ASSUME NEW i \in 0..(n - 1)
        PROVE  /\ lo[i] = Rounded(Low(E, n, i), q) /\ hi[i] = Rounded(High(E, n, i), q)
               /\ lo[i] \in Int /\ hi[i] \in Int
    <2>1. lo[i] = Rounded(Low(E, n, i), q) /\ hi[i] = Rounded(High(E, n, i), q)
      BY <1>5
    <2>2. PICK a \in Int, b \in Int : a = Low(E, n, i) /\ b = High(E, n, i)
      BY <1>6
    <2>3. a <= a /\ b <= b
      OBVIOUS
    <2>4. Rounded(a, q) \in Int /\ Rounded(b, q) \in Int
      BY <2>3, RoundedGrows
    <2>5. QED
      BY <2>1, <2>2, <2>4
  <1>8. lo[0] = 0
    <2>1. 0 \in Int /\ 0 = 0 * (q * OrGrain) /\ OrGrain * 0 = 0 /\ 0 \in 0..(n - 1)
      BY <1>1
    <2>2. Rounded(0, q) = OrGrain * 0
      BY <2>1, RoundedExact
    <2>3. QED
      BY <1>3, <1>7, <2>1, <2>2 DEF Cuts
  <1>9. hi[n - 1] = E
    <2>1. PICK p \in Int : p = 4 * n * E
      OBVIOUS
    <2>2. p = m * (q * g)
      <3>1. p = q * (m * g)
        BY <1>2, <1>4, <2>1
      <3>2. q * (m * g) = m * (q * g)
        OBVIOUS
      <3>3. QED
        BY <3>1, <3>2
    <2>3. Rounded(p, q) = OrGrain * m
      BY <1>1, <2>2, RoundedExact
    <2>4. OrGrain * m = E
      BY <1>1, <1>2
    <2>5. High(E, n, n - 1) = p /\ n - 1 \in 0..(n - 1)
      BY <1>3, <2>1 DEF Cuts
    <2>6. QED
      BY <1>7, <2>3, <2>4, <2>5
  <1>10. ASSUME NEW i \in 1..(n - 1) PROVE lo[i] <= hi[i - 1]
    <2>1. i \in 0..(n - 1) /\ i - 1 \in 0..(n - 1)
      OBVIOUS
    <2>2. PICK a \in Int, b \in Int : a = Low(E, n, i) /\ b = High(E, n, i - 1)
      BY <1>6, <2>1
    <2>3. a <= b
      BY <1>3, <2>2 DEF Cuts
    <2>4. Rounded(a, q) <= Rounded(b, q)
      BY <2>3, RoundedGrows
    <2>5. QED
      BY <1>7, <2>1, <2>2, <2>4
  <1>11. lo[0] <= t /\ t <= hi[n - 1]
    BY <1>1, <1>8, <1>9
  <1>12. \A i \in 0..(n - 1) : lo[i] \in Int /\ hi[i] \in Int
    BY <1>7
  <1>13. \A i \in 1..(n - 1) : lo[i] <= hi[i - 1]
    BY <1>10
  <1>14. t \in Int
    OBVIOUS
  <1>15. PICK i \in 0..(n - 1) : lo[i] <= t /\ t <= hi[i]
    BY <1>11, <1>12, <1>13, <1>14, PiecesCover
  <1>16. t >= lo[i]
    BY <1>7, <1>15
  <1>17. InWindow(t, i)
    <2>1. t >= Rounded(Low(orEnd, n, i), 4 * n) /\ t <= Rounded(High(orEnd, n, i), 4 * n)
      BY <1>1, <1>4, <1>7, <1>15, <1>16
    <2>2. QED
      BY <1>1, <2>1 DEF InWindow
  <1>18. QED
    BY <1>1, <1>17 DEF TimeInSomeWindow

\* The tiles of a frame begin and end at multiples of the grain, which rounding
\* does not move.
EdgesStay(W, n, g, q) ==
    \A i \in 0..(n - 1) : \E a \in Int, b \in Int :
        /\ Low(W, n, i) = a * (q * g) /\ High(W, n, i) = b * (q * g)
        /\ Rounded(Low(W, n, i), q) = g * a
        /\ Rounded(High(W, n, i) - Low(W, n, i), q) = g * b - g * a

\* So it is in a frame whose edges are on the grid.
LEMMA TileEdges ==
  ASSUME NEW n \in Nat \ {0}, NEW g \in Nat \ {0}, NEW W \in Nat \ {0}, NEW q \in Nat \ {0},
         q = 4 * n, g = OrGrain, W % (q * g) = 0, orPlan.overlap \in {0, 1}
  PROVE  Cuts(W, n) /\ EdgesStay(W, n, g, q)
  <1>1. PICK m \in Int : W = m * (q * g)
    <2>1. PICK D \in Nat \ {0} : D = q * g
      <3>1. q * g \in Nat \ {0}
        OBVIOUS
      <3>2. QED
        BY <3>1
    <2>2. W % D = 0
      BY <2>1
    <2>3. PICK u \in Int, s \in Int : u = W \div D /\ s = W % D /\ W = D * u + s
      OBVIOUS
    <2>4. W = D * u
      BY <2>2, <2>3
    <2>5. W = u * D
      BY <2>4
    <2>6. QED
      BY <2>1, <2>5
  <1>2. Cuts(W, n)
    BY PiecesOf
  <1>3. ASSUME NEW i \in 0..(n - 1)
        PROVE  \E a \in Int, b \in Int :
                  /\ Low(W, n, i) = a * (q * g) /\ High(W, n, i) = b * (q * g)
                  /\ Rounded(Low(W, n, i), q) = g * a
                  /\ Rounded(High(W, n, i) - Low(W, n, i), q) = g * b - g * a
    <2>1. PICK h \in Int, k \in Int : Low(W, n, i) = h * W /\ High(W, n, i) = k * W
      BY <1>2 DEF Cuts
    <2>2. PICK a \in Int, b \in Int, D \in Int : a = h * m /\ b = k * m /\ D = q * g
      <3>1. h * m \in Int /\ k * m \in Int /\ q * g \in Int
        OBVIOUS
      <3>2. QED
        BY <3>1
    <2>3. Low(W, n, i) = a * D /\ High(W, n, i) = b * D
      <3>1. h * (m * D) = (h * m) * D /\ k * (m * D) = (k * m) * D
        OBVIOUS
      <3>2. QED
        BY <1>1, <2>1, <2>2, <3>1
    <2>4. PICK c \in Int : c = b - a
      OBVIOUS
    <2>5. High(W, n, i) - Low(W, n, i) = c * D
      <3>1. (b - a) * D = b * D - a * D
        OBVIOUS
      <3>2. QED
        BY <2>3, <2>4, <3>1
    <2>6. Rounded(a * D, q) = OrGrain * a /\ Rounded(c * D, q) = OrGrain * c
      BY <2>2, RoundedExact
    <2>7. g * c = g * b - g * a
      BY <2>4
    <2>8. QED
      BY <2>2, <2>3, <2>5, <2>6, <2>7
  <1>4. QED
    BY <1>2, <1>3 DEF EdgesStay

\* The centre of every box that is in the frame lies in a tile.
LEMMA EveryPlaceInTile ==
  ASSUME orPlan.columns \in Nat \ {0}, orPlan.overlap \in {0, 1}, Width \in Nat \ {0},
         Width % (4 * orPlan.columns * OrGrain) = 0 \/ orPlan.columns = 1,
         NEW d \in Detections, orPlan.columns > 1 => 2 * d.x + d.w <= 2 * Width
  PROVE  PlaceInSomeTile(d)
  <1>1. CASE orPlan.columns = 1
    <2>1. CenterInTile(d, 0) /\ 0 \in 0..(orPlan.columns - 1)
      BY <1>1 DEF CenterInTile
    <2>2. QED
      BY <2>1 DEF PlaceInSomeTile
  <1>2. CASE orPlan.columns # 1
    <2>1. PICK n \in Nat \ {0}, g \in Nat \ {0}, W \in Nat \ {0} :
             n = orPlan.columns /\ g = OrGrain /\ W = Width
      BY OrAssumption
    <2>2. PICK q \in Nat \ {0} : q = 4 * n
      BY <2>1
    <2>3. W % (q * g) = 0
      <3>1. 4 * n * g = q * g
        BY <2>2
      <3>2. QED
        BY <1>2, <2>1, <3>1
    <2>4. Cuts(W, n)
      BY <2>1, <2>2, <2>3, TileEdges
    <2>5. \A i \in 0..(n - 1) : \E a \in Int, b \in Int :
             /\ Low(W, n, i) = a * (q * g) /\ High(W, n, i) = b * (q * g)
             /\ Rounded(Low(W, n, i), q) = g * a
             /\ Rounded(High(W, n, i) - Low(W, n, i), q) = g * b - g * a
      <3>1. EdgesStay(W, n, g, q)
        BY <2>1, <2>2, <2>3, TileEdges
      <3>2. QED
        BY <3>1 DEF EdgesStay
    <2>6. PICK lo, hi : /\ lo = [i \in 0..(n - 1) |-> 2 * Rounded(Low(W, n, i), q)]
                        /\ hi = [i \in 0..(n - 1) |->
                                    2 * (Rounded(Low(W, n, i), q)
                                         + Rounded(High(W, n, i) - Low(W, n, i), q))]
      OBVIOUS
    <2>7. ASSUME NEW i \in 0..(n - 1), NEW a \in Int, NEW b \in Int,
                 Rounded(Low(W, n, i), q) = g * a,
                 Rounded(High(W, n, i) - Low(W, n, i), q) = g * b - g * a
          PROVE  lo[i] = 2 * (g * a) /\ hi[i] = 2 * (g * b) /\ lo[i] \in Int /\ hi[i] \in Int
      <3>1. PICK x \in Int, y \in Int : x = g * a /\ y = g * b
        <4>1. g * a \in Int /\ g * b \in Int
          OBVIOUS
        <4>2. QED
          BY <4>1
      <3>2. lo[i] = 2 * x /\ hi[i] = 2 * (x + (y - x))
        BY <2>6, <2>7, <3>1
      <3>3. QED
        BY <3>1, <3>2
    <2>8. \A i \in 0..(n - 1) : lo[i] \in Int /\ hi[i] \in Int
      <3>1. SUFFICES ASSUME NEW i \in 0..(n - 1) PROVE lo[i] \in Int /\ hi[i] \in Int
        OBVIOUS
      <3>2. PICK a \in Int, b \in Int :
               /\ Rounded(Low(W, n, i), q) = g * a
               /\ Rounded(High(W, n, i) - Low(W, n, i), q) = g * b - g * a
        BY <2>5
      <3>3. QED
        BY <2>7, <3>2
    <2>9. lo[0] = 0
      <3>1. 0 \in 0..(n - 1)
        OBVIOUS
      <3>2. 0 = 0 * (q * OrGrain) /\ OrGrain * 0 = 0 /\ 0 \in Int
        BY <2>1
      <3>3. Rounded(0, q) = OrGrain * 0
        BY <3>2, RoundedExact
      <3>4. QED
        BY <2>4, <2>6, <3>1, <3>2, <3>3 DEF Cuts
    <2>10. hi[n - 1] = 2 * W
      <3>1. n - 1 \in 0..(n - 1)
        OBVIOUS
      <3>2. PICK a \in Int, b \in Int :
               /\ High(W, n, n - 1) = b * (q * g)
               /\ Rounded(Low(W, n, n - 1), q) = g * a
               /\ Rounded(High(W, n, n - 1) - Low(W, n, n - 1), q) = g * b - g * a
        BY <2>5, <3>1
      <3>3. hi[n - 1] = 2 * (g * b)
        BY <2>7, <3>1, <3>2
      <3>4. q * W = q * (g * b)
        <4>1. High(W, n, n - 1) = 4 * n * W
          BY <2>4 DEF Cuts
        <4>2. 4 * n * W = q * W /\ b * (q * g) = q * (g * b)
          BY <2>2
        <4>3. QED
          BY <3>2, <4>1, <4>2
      <3>5. PICK y \in Int : y = g * b
        <4>1. g * b \in Int
          OBVIOUS
        <4>2. QED
          BY <4>1
      <3>6. W = y
        BY <3>4, <3>5
      <3>7. QED
        BY <3>3, <3>5, <3>6
    <2>11. ASSUME NEW i \in 1..(n - 1) PROVE lo[i] <= hi[i - 1]
      <3>1. i \in 0..(n - 1) /\ i - 1 \in 0..(n - 1)
        OBVIOUS
      <3>2. PICK a \in Int, b \in Int :
               /\ Low(W, n, i) = a * (q * g)
               /\ Rounded(Low(W, n, i), q) = g * a
               /\ Rounded(High(W, n, i) - Low(W, n, i), q) = g * b - g * a
        BY <2>5, <3>1
      <3>3. PICK h \in Int, k \in Int :
               /\ High(W, n, i - 1) = k * (q * g)
               /\ Rounded(Low(W, n, i - 1), q) = g * h
               /\ Rounded(High(W, n, i - 1) - Low(W, n, i - 1), q) = g * k - g * h
        BY <2>5, <3>1
      <3>4. lo[i] = 2 * (g * a) /\ hi[i - 1] = 2 * (g * k)
        <4>1. lo[i] = 2 * (g * a)
          BY <2>7, <3>1, <3>2
        <4>2. PICK z \in 0..(n - 1) : z = i - 1
          BY <3>1
        <4>3. /\ Rounded(Low(W, n, z), q) = g * h
              /\ Rounded(High(W, n, z) - Low(W, n, z), q) = g * k - g * h
          BY <3>3, <4>2
        <4>4. hi[z] = 2 * (g * k)
          BY <2>7, <4>3
        <4>5. QED
          BY <4>1, <4>2, <4>4
      <3>5. PICK x \in Int, y \in Int : x = g * a /\ y = g * k
        <4>1. g * a \in Int /\ g * k \in Int
          OBVIOUS
        <4>2. QED
          BY <4>1
      <3>6. x * q <= y * q
        <4>1. Low(W, n, i) <= High(W, n, i - 1)
          BY <2>4 DEF Cuts
        <4>2. a * (q * g) = x * q /\ k * (q * g) = y * q
          BY <3>5
        <4>3. QED
          BY <3>2, <3>3, <4>1, <4>2
      <3>7. x <= y
        <4>1. SUFFICES ASSUME x - y >= 1 PROVE FALSE
          OBVIOUS
        <4>2. (x - y) * q >= q /\ (x - y) * q = x * q - y * q
          BY <4>1
        <4>3. x * q \in Int /\ y * q \in Int
          OBVIOUS
        <4>4. QED
          BY <3>6, <4>2, <4>3
      <3>8. QED
        BY <3>4, <3>5, <3>7
    <2>12. PICK t \in Int : t = 2 * d.x + d.w /\ 0 <= t /\ t <= 2 * W
      <3>1. d.x \in Nat /\ d.w \in Nat
        BY DEF Detections
      <3>2. orPlan.columns > 1
        BY <1>2
      <3>3. QED
        BY <2>1, <3>1, <3>2
    <2>13. lo[0] <= t /\ t <= hi[n - 1]
      BY <2>9, <2>10, <2>12
    <2>14. \A i \in 1..(n - 1) : lo[i] <= hi[i - 1]
      BY <2>11
    <2>15. PICK i \in 0..(n - 1) : lo[i] <= t /\ t <= hi[i]
      BY <2>8, <2>13, <2>14, PiecesCover
    <2>16. /\ 2 * Rounded(Low(Width, n, i), 4 * n) <= 2 * d.x + d.w
           /\ 2 * d.x + d.w <= 2 * (Rounded(Low(Width, n, i), 4 * n)
                                    + Rounded(High(Width, n, i) - Low(Width, n, i), 4 * n))
      BY <2>1, <2>2, <2>6, <2>12, <2>15
    <2>17. CenterInTile(d, i)
      BY <2>1, <2>16, Zenon DEF CenterInTile
    <2>18. QED
      BY <2>1, <2>17 DEF PlaceInSomeTile
  <1>3. QED
    BY <1>1, <1>2

\* And a box whose centre is in a tile has it in the frame.
LEMMA TilesAreInside ==
  ASSUME orPlan.columns \in Nat \ {0}, orPlan.columns # 1, orPlan.overlap \in {0, 1},
         Width \in Nat \ {0}, Width % (4 * orPlan.columns * OrGrain) = 0,
         NEW d \in Detections, NEW i \in 0..(orPlan.columns - 1), CenterInTile(d, i)
  PROVE  2 * d.x + d.w <= 2 * Width
  <1>1. PICK n \in Nat \ {0}, g \in Nat \ {0}, W \in Nat \ {0} :
           n = orPlan.columns /\ g = OrGrain /\ W = Width
    BY OrAssumption
  <1>2. PICK q \in Nat \ {0} : q = 4 * n
    BY <1>1
  <1>3. W % (q * g) = 0
    <2>1. 4 * n * g = q * g
      BY <1>2
    <2>2. QED
      BY <1>1, <2>1
  <1>4. PICK a \in Int, b \in Int :
           /\ Low(W, n, i) = a * (q * g) /\ High(W, n, i) = b * (q * g)
           /\ Rounded(Low(W, n, i), q) = g * a
           /\ Rounded(High(W, n, i) - Low(W, n, i), q) = g * b - g * a
    <2>1. EdgesStay(W, n, g, q)
      BY <1>1, <1>2, <1>3, TileEdges
    <2>2. QED
      BY <1>1, <2>1 DEF EdgesStay
  <1>5. PICK x \in Int, y \in Int : x = g * a /\ y = g * b
    <2>1. g * a \in Int /\ g * b \in Int
      OBVIOUS
    <2>2. QED
      BY <2>1
  <1>6. y <= W
    <2>1. High(W, n, i) <= 4 * n * W
      BY <1>1, <1>2, <1>3, TileEdges DEF Cuts
    <2>2. b * (q * g) = y * q /\ 4 * n * W = W * q
      BY <1>2, <1>5
    <2>3. y * q <= W * q
      BY <1>4, <2>1, <2>2
    <2>4. SUFFICES ASSUME y - W >= 1 PROVE FALSE
      OBVIOUS
    <2>5. (y - W) * q >= q /\ (y - W) * q = y * q - W * q
      BY <2>4
    <2>6. y * q \in Int /\ W * q \in Int
      OBVIOUS
    <2>7. QED
      BY <2>3, <2>5, <2>6
  <1>7. 2 * d.x + d.w <= 2 * (Rounded(Low(W, n, i), q) + Rounded(High(W, n, i) - Low(W, n, i), q))
    BY <1>1, <1>2, Zenon DEF CenterInTile
  <1>8. d.x \in Nat /\ d.w \in Nat
    BY DEF Detections
  <1>9. QED
    BY <1>1, <1>4, <1>5, <1>6, <1>7, <1>8

\* A window and a tile of it, both of them pieces of the plan, and the
\* detections the child of that part returns.
OrParts == (0..(orPlan.windows - 1)) \X (0..(orPlan.columns - 1))
PartOf(p) == {d \in orVideo : InWindow(d.ts, p[1]) /\ CenterInTile(d, p[2])}

\* The parts of a plan in the order they are run.
ListOfParts ==
    [k \in 1..(orPlan.windows * orPlan.columns) |->
        <<(k - 1) \div orPlan.columns, (k - 1) % orPlan.columns>>]

\* build_partitions lists every window with every tile, and nothing else.
LEMMA EveryPartIsListed ==
  ASSUME orPlan.windows \in Nat \ {0}, orPlan.columns \in Nat \ {0}
  PROVE  ListOfParts \in Seq(OrParts) /\ OrParts \subseteq Range(ListOfParts)
  <1>1. PICK n \in Nat \ {0}, c \in Nat \ {0}, N \in Nat :
           n = orPlan.windows /\ c = orPlan.columns /\ N = n * c
    <2>1. PICK n \in Nat \ {0}, c \in Nat \ {0} : n = orPlan.windows /\ c = orPlan.columns
      OBVIOUS
    <2>2. n * c \in Nat
      OBVIOUS
    <2>3. QED
      BY <2>1, <2>2
  <1>2. PICK L : L = [k \in 1..N |-> <<(k - 1) \div c, (k - 1) % c>>]
    OBVIOUS
  <1>3. L = ListOfParts
    BY <1>1, <1>2 DEF ListOfParts
  <1>4. ASSUME NEW k \in 1..N PROVE <<(k - 1) \div c, (k - 1) % c>> \in OrParts
    <2>1. PICK a \in Int, b \in Int : /\ a = (k - 1) \div c /\ b = (k - 1) % c
                                      /\ k - 1 = c * a + b /\ 0 <= b /\ b < c
      OBVIOUS
    <2>2. a >= 0
      <3>1. a <= -1 => c * a <= -c
        OBVIOUS
      <3>2. c * a \in Int
        OBVIOUS
      <3>3. QED
        BY <2>1, <3>1, <3>2
    <2>3. a < n
      <3>1. SUFFICES ASSUME a >= n PROVE FALSE
        OBVIOUS
      <3>2. PICK e \in Nat : a = n + e
        <4>1. a - n \in Nat /\ a = n + (a - n)
          BY <3>1
        <4>2. QED
          BY <4>1
      <3>3. c * a = N + c * e /\ c * e \in Nat
        BY <1>1, <3>2
      <3>4. QED
        BY <2>1, <3>3
    <2>4. a \in 0..(n - 1) /\ b \in 0..(c - 1)
      BY <2>1, <2>2, <2>3
    <2>5. QED
      BY <1>1, <2>1, <2>4 DEF OrParts
  <1>5. L \in Seq(OrParts)
    <2>1. L \in [1..N -> OrParts]
      BY <1>2, <1>4
    <2>2. QED
      BY <2>1, IsASeq
  <1>6. ASSUME NEW p \in OrParts PROVE p \in Range(L)
    <2>1. PICK i \in 0..(n - 1), j \in 0..(c - 1) : p = <<i, j>>
      BY <1>1 DEF OrParts
    <2>2. PICK x \in Nat : x = i * c
      <3>1. i * c \in Nat
        OBVIOUS
      <3>2. QED
        BY <3>1
    <2>3. PICK k \in Int : k = x + j + 1
      OBVIOUS
    <2>4. x + c <= N
      <3>1. PICK e \in Nat : n = (i + 1) + e
        <4>1. n - (i + 1) \in Nat /\ n = (i + 1) + (n - (i + 1))
          OBVIOUS
        <4>2. QED
          BY <4>1
      <3>2. N = (x + c) + e * c /\ e * c \in Nat
        BY <1>1, <2>2, <3>1
      <3>3. QED
        BY <3>2
    <2>5. k \in 1..N /\ k - 1 = x + j
      BY <2>2, <2>3, <2>4
    <2>6. (x + j) \div c = i /\ (x + j) % c = j
      <3>1. PICK a \in Int, b \in Int : /\ a = (x + j) \div c /\ b = (x + j) % c
                                        /\ x + j = c * a + b /\ 0 <= b /\ b < c
        OBVIOUS
      <3>2. (i - a) * c = b - j
        BY <2>2, <3>1
      <3>3. i - a >= 1 => (i - a) * c >= c
        OBVIOUS
      <3>4. i - a <= -1 => (i - a) * c <= -c
        OBVIOUS
      <3>5. i = a
        BY <3>1, <3>2, <3>3, <3>4
      <3>6. b = j
        BY <3>2, <3>5
      <3>7. QED
        BY <3>1, <3>5, <3>6
    <2>7. L[k] = p
      BY <1>2, <2>1, <2>5, <2>6
    <2>8. DOMAIN L = 1..N
      BY <1>2
    <2>9. QED
      BY <2>5, <2>7, <2>8 DEF Range
  <1>7. QED
    BY <1>3, <1>5, <1>6

\* A list taken apart, and two put together.
LEMMA RangeOfTail ==
  ASSUME NEW S, NEW s \in Seq(S), s # <<>>
  PROVE  Head(s) \in S /\ Tail(s) \in Seq(S) /\ Range(s) \subseteq {Head(s)} \cup Range(Tail(s))
  <1>1. /\ Head(s) \in S /\ Tail(s) \in Seq(S) /\ Len(Tail(s)) = Len(s) - 1
        /\ \A i \in 1..Len(Tail(s)) : Tail(s)[i] = s[i + 1]
        /\ Head(s) = s[1] /\ Len(s) \in Nat
    BY HeadTailProperties, LenProperties
  <1>2. DOMAIN s = 1..Len(s) /\ DOMAIN Tail(s) = 1..Len(Tail(s))
    BY <1>1, LenProperties
  <1>3. ASSUME NEW i \in 1..Len(s), i # 1 PROVE s[i] \in Range(Tail(s))
    <2>1. i - 1 \in 1..Len(Tail(s)) /\ Tail(s)[i - 1] = s[i]
      BY <1>1, <1>3
    <2>2. QED
      BY <1>2, <2>1 DEF Range
  <1>4. Range(s) = {s[i] : i \in 1..Len(s)}
    BY <1>2 DEF Range
  <1>5. QED
    BY <1>1, <1>3, <1>4

\* Both lists' entries are among those of the two put together.
LEMMA RangeOfConcat ==
  ASSUME NEW S, NEW s \in Seq(S), NEW t \in Seq(S)
  PROVE  s \o t \in Seq(S) /\ Range(s) \cup Range(t) \subseteq Range(s \o t)
  <1>1. /\ Len(s) \in Nat /\ Len(t) \in Nat
        /\ s \o t \in Seq(S) /\ Len(s \o t) = Len(s) + Len(t)
        /\ \A i \in 1..Len(s) + Len(t) :
               (s \o t)[i] = IF i <= Len(s) THEN s[i] ELSE t[i - Len(s)]
    BY ConcatProperties, LenProperties
  <1>2. /\ DOMAIN s = 1..Len(s) /\ DOMAIN t = 1..Len(t)
        /\ DOMAIN (s \o t) = 1..(Len(s) + Len(t))
    BY <1>1, LenProperties
  <1>3. ASSUME NEW i \in 1..Len(s) PROVE s[i] \in Range(s \o t)
    <2>1. i \in 1..Len(s) + Len(t) /\ (s \o t)[i] = s[i]
      BY <1>1
    <2>2. QED
      BY <1>2, <2>1 DEF Range
  <1>4. ASSUME NEW i \in 1..Len(t) PROVE t[i] \in Range(s \o t)
    <2>1. Len(s) + i \in 1..Len(s) + Len(t) /\ (s \o t)[Len(s) + i] = t[i]
      BY <1>1
    <2>2. QED
      BY <1>2, <2>1 DEF Range
  <1>5. Range(s) = {s[i] : i \in 1..Len(s)} /\ Range(t) = {t[i] : i \in 1..Len(t)}
    BY <1>2 DEF Range
  <1>6. QED
    BY <1>1, <1>3, <1>4, <1>5

\* What is known of a run: the video fits, and while the run is under way every
\* part is still to be run or has left all its detections in the outputs, where
\* there are no others.
OrFits ==
    /\ orVideo \in OrVideos /\ orEnd \in OrEnds /\ orWidth \in OrWidths /\ orPlan \in Plans
    /\ \A d \in orVideo : d.ts <= orEnd
OrRan ==
    /\ orTodo \in Seq(OrParts) /\ orOutputs \in Seq(orVideo)
    /\ \A p \in OrParts : p \in Range(orTodo) \/ PartOf(p) \subseteq Range(orOutputs)
    /\ \A k \in 1..Len(orOutputs) : \E p \in OrParts : orOutputs[k] \in PartOf(p)
OrInv ==
    /\ OrFits
    /\ orPc = "new" => orOutputs = <<>>
    /\ orPc \in {"running", "merged"} => OrRan
    /\ orPc = "merged" => orTodo = <<>> /\ orMerged = Dedupe(orOutputs)

\* A run starts with a video that fits and no outputs.
LEMMA OrInvInit == OrInit => OrInv
  BY DEF OrInit, OrInv, OrFits

\* What the plan is made of.
LEMMA PlanIs ==
  ASSUME OrFits
  PROVE  /\ orPlan.windows \in Nat \ {0} /\ orPlan.columns \in Nat \ {0}
         /\ orPlan.overlap \in {0, 1} /\ orEnd \in Nat /\ Width \in Nat \ {0}
         /\ orVideo \subseteq Detections /\ IsFiniteSet(orVideo)
  <1>1. OrPieces \in Nat /\ OrEnds \subseteq Nat
    BY OrAssumption
  <1>2. orPlan.windows \in 1..OrPieces /\ orPlan.columns \in 1..OrPieces
    BY DEF OrFits, Plans
  <1>3. orPlan.overlap \in {0, 1} /\ orEnd \in OrEnds
    BY DEF OrFits, Plans
  <1>4. orVideo \subseteq Detections /\ IsFiniteSet(orVideo)
    BY OrAssumption DEF OrFits
  <1>5. Width \in Nat \ {0}
    BY OrAssumption DEF OrFits, Width
  <1>6. QED
    BY <1>1, <1>2, <1>3, <1>4, <1>5

\* Whatever a run does next, its video and plan stay; a part taken from the list
\* leaves its detections behind (ProcessPartition), and only an empty list is
\* merged (MergeRunOutputs).
LEMMA OrInvStep == OrInv /\ [OrNext]_orVars => OrInv'
  <1> SUFFICES ASSUME OrInv, [OrNext]_orVars PROVE OrInv'
    OBVIOUS
  <1>1. /\ orVideo' = orVideo /\ orEnd' = orEnd /\ orPlan' = orPlan
        /\ orWidth' = orWidth /\ orAsked' = orAsked
    BY DEF OrNext, orVars, BuildPartitions, ProcessPartition, ChildRaises, MergeRunOutputs
  <1>2. OrFits /\ OrFits'
    BY <1>1 DEF OrInv, OrFits
  <1>3. OrParts' = OrParts
    BY <1>1 DEF OrParts
  <1>4. \A p : PartOf(p)' = PartOf(p)
    BY <1>1 DEF PartOf, InWindow, InRequest, CenterInTile, Width, Low, High
  <1>5. CASE BuildPartitions
    <2>1. orTodo' = ListOfParts /\ orOutputs' = <<>> /\ orPc' = "running"
      BY <1>5 DEF BuildPartitions, ListOfParts, OrInv
    <2>2. ListOfParts \in Seq(OrParts) /\ OrParts \subseteq Range(ListOfParts)
      BY <1>2, PlanIs, EveryPartIsListed
    <2>3. OrRan'
      <3>1. orTodo' \in Seq(OrParts)' /\ orOutputs' \in Seq(orVideo)'
        BY <1>1, <1>3, <2>1, <2>2
      <3>2. \A p \in OrParts' : p \in Range(orTodo)'
        BY <1>3, <2>1, <2>2
      <3>3. 1..Len(orOutputs)' = {}
        BY <2>1
      <3>4. QED
        BY <3>1, <3>2, <3>3 DEF OrRan
    <2>4. QED
      BY <1>2, <2>1, <2>3 DEF OrInv
  <1>6. CASE ProcessPartition
    <2>1. /\ orPc = "running" /\ orPc' = "running" /\ orTodo # <<>>
          /\ orTodo' = Tail(orTodo)
          /\ orOutputs' = orOutputs \o RunOf(PartOf(Head(orTodo)))
      BY <1>6 DEF ProcessPartition, PartOf
    <2>2. OrRan
      BY <2>1 DEF OrInv
    <2>3. PICK P : P = PartOf(Head(orTodo))
      OBVIOUS
    <2>4. P \subseteq orVideo /\ P \in SUBSET Detections /\ IsFiniteSet(P)
      <3>1. P \subseteq orVideo
        BY <2>3 DEF PartOf
      <3>2. orVideo \subseteq Detections /\ IsFiniteSet(orVideo)
        BY <1>2, PlanIs
      <3>3. QED
        BY <3>1, <3>2, FS_Subset
    <2>5. PICK r : r = RunOf(P) /\ r \in Seq(orVideo) /\ Range(r) = P
      <3>1. RunOf(P) \in Seq(P) /\ Range(RunOf(P)) = P
        BY <2>4, RunReturns
      <3>2. RunOf(P) \in [1..Len(RunOf(P)) -> P] /\ Len(RunOf(P)) \in Nat
        BY <3>1, LenProperties
      <3>3. RunOf(P) \in [1..Len(RunOf(P)) -> orVideo]
        BY <2>4, <3>2
      <3>4. RunOf(P) \in Seq(orVideo)
        BY <3>2, <3>3, IsASeq
      <3>5. QED
        BY <3>1, <3>4
    <2>6. /\ orTodo' \in Seq(OrParts)
          /\ Range(orTodo) \subseteq {Head(orTodo)} \cup Range(orTodo')
      BY <2>1, <2>2, RangeOfTail DEF OrRan
    <2>7. /\ orOutputs' \in Seq(orVideo)
          /\ Range(orOutputs) \cup P \subseteq Range(orOutputs')
      <3>1. orOutputs' = orOutputs \o r /\ orOutputs \in Seq(orVideo)
        BY <2>1, <2>2, <2>3, <2>5 DEF OrRan
      <3>2. QED
        BY <2>5, <3>1, RangeOfConcat
    <2>8. ASSUME NEW p \in OrParts
          PROVE  p \in Range(orTodo') \/ PartOf(p) \subseteq Range(orOutputs')
      <3>1. p \in Range(orTodo) \/ PartOf(p) \subseteq Range(orOutputs)
        BY <2>2 DEF OrRan
      <3>2. CASE p = Head(orTodo)
        BY <2>3, <2>7, <3>2
      <3>3. CASE p # Head(orTodo)
        BY <2>6, <2>7, <3>1, <3>3
      <3>4. QED
        BY <3>2, <3>3
    <2>9. Range(orTodo)' = Range(orTodo') /\ Range(orOutputs)' = Range(orOutputs')
      BY DEF Range
    <2>10. Head(orTodo) \in OrParts
      BY <2>1, <2>2, RangeOfTail DEF OrRan
    <2>11. ASSUME NEW k \in 1..Len(orOutputs')
           PROVE  \E p \in OrParts : orOutputs'[k] \in PartOf(p)
      <3>1. orOutputs' = orOutputs \o r /\ orOutputs \in Seq(orVideo)
        BY <2>1, <2>2, <2>3, <2>5 DEF OrRan
      <3>2. /\ Len(orOutputs) \in Nat /\ Len(r) \in Nat
            /\ Len(orOutputs') = Len(orOutputs) + Len(r)
            /\ orOutputs'[k] = IF k <= Len(orOutputs) THEN orOutputs[k]
                                ELSE r[k - Len(orOutputs)]
        BY <2>5, <3>1, ConcatProperties, LenProperties
      <3>3. CASE k <= Len(orOutputs)
        <4>1. k \in 1..Len(orOutputs) /\ orOutputs'[k] = orOutputs[k]
          BY <3>2, <3>3
        <4>2. QED
          BY <2>2, <4>1 DEF OrRan
      <3>4. CASE ~(k <= Len(orOutputs))
        <4>1. PICK j \in 1..Len(r) : orOutputs'[k] = r[j]
          <5>1. k - Len(orOutputs) \in 1..Len(r) /\ orOutputs'[k] = r[k - Len(orOutputs)]
            BY <3>2, <3>4
          <5>2. QED
            BY <5>1
        <4>2. DOMAIN r = 1..Len(r)
          BY <2>5, LenProperties
        <4>3. r[j] \in P
          BY <2>5, <4>2 DEF Range
        <4>4. QED
          BY <2>3, <2>10, <4>1, <4>3
      <3>5. QED
        BY <3>3, <3>4
    <2>12. OrRan'
      <3>1. \A k \in (1..Len(orOutputs))' : \E p \in OrParts' : orOutputs'[k] \in PartOf(p)'
        BY <1>3, <1>4, <2>11
      <3>2. QED
        BY <1>1, <1>3, <1>4, <2>6, <2>7, <2>8, <2>9, <3>1 DEF OrRan
    <2>13. QED
      BY <1>2, <2>1, <2>12 DEF OrInv
  <1>7. CASE ChildRaises
    BY <1>2, <1>7 DEF ChildRaises, OrInv
  <1>8. CASE MergeRunOutputs
    <2>1. /\ orPc = "running" /\ orPc' = "merged" /\ orTodo = <<>>
          /\ orTodo' = orTodo /\ orOutputs' = orOutputs /\ orMerged' = Dedupe(orOutputs)
      BY <1>8 DEF MergeRunOutputs
    <2>2. OrRan
      BY <2>1 DEF OrInv
    <2>3. OrRan'
      BY <1>1, <1>3, <1>4, <2>1, <2>2 DEF OrRan
    <2>4. QED
      BY <1>2, <2>1, <2>3 DEF OrInv
  <1>9. CASE UNCHANGED orVars
    <2>1. /\ orTodo' = orTodo /\ orOutputs' = orOutputs /\ orMerged' = orMerged
          /\ orPc' = orPc
      BY <1>9 DEF orVars
    <2>2. OrRan => OrRan'
      BY <1>1, <1>3, <1>4, <2>1 DEF OrRan
    <2>3. QED
      BY <1>2, <2>1, <2>2 DEF OrInv
  <1>10. QED
    BY <1>5, <1>6, <1>7, <1>8, <1>9 DEF OrNext

\* Every detection the plan covers lies in a window and in a tile of it, and no
\* other does, so the outputs that are merged hold what the plan covers.
LEMMA OrInvSound == OrInv => CutIsExact
  <1> SUFFICES ASSUME OrInv, orPc = "merged", OnGrid
               PROVE  orMerged = Dedupe(RunOf(PlanCovers))
    BY DEF CutIsExact
  <1>1. OrFits /\ OrRan /\ orTodo = <<>> /\ orMerged = Dedupe(orOutputs)
    BY DEF OrInv
  <1>2. /\ orPlan.windows \in Nat \ {0} /\ orPlan.columns \in Nat \ {0}
        /\ orPlan.overlap \in {0, 1} /\ orEnd \in Nat /\ Width \in Nat \ {0}
        /\ orVideo \subseteq Detections /\ IsFiniteSet(orVideo)
    BY <1>1, PlanIs
  <1>3. /\ orEnd % OrGrain = 0
        /\ Width % (4 * orPlan.columns * OrGrain) = 0 \/ orPlan.columns = 1
        /\ \A d \in orVideo : d.w > 0
    BY DEF OnGrid
  <1>4. PICK C : C = PlanCovers
    OBVIOUS
  <1>5. C \subseteq orVideo /\ C \in SUBSET Detections /\ IsFiniteSet(C)
    <2>1. C \subseteq orVideo
      BY <1>4 DEF PlanCovers
    <2>2. QED
      BY <1>2, <2>1, FS_Subset
  <1>6. ASSUME NEW d \in C PROVE d \in Range(orOutputs)
    <2>1. d \in orVideo /\ d \in Detections /\ d.ts \in Nat /\ d.ts <= orEnd
      BY <1>1, <1>2, <1>5 DEF OrFits, Detections
    <2>2. /\ orPlan.windows = 1 => InRequest(d.ts)
          /\ orPlan.columns > 1 => 2 * d.x + d.w <= 2 * Width
      BY <1>4 DEF PlanCovers
    <2>3. PICK i \in 0..(orPlan.windows - 1) : InWindow(d.ts, i)
      BY <1>2, <1>3, <2>1, <2>2, EveryTimeInWindow DEF TimeInSomeWindow
    <2>4. PICK j \in 0..(orPlan.columns - 1) : CenterInTile(d, j)
      BY <1>2, <1>3, <2>1, <2>2, EveryPlaceInTile DEF PlaceInSomeTile
    <2>5. <<i, j>> \in OrParts
      BY DEF OrParts
    <2>6. d \in PartOf(<<i, j>>)
      BY <2>1, <2>3, <2>4 DEF PartOf
    <2>7. <<i, j>> \notin Range(orTodo)
      BY <1>1 DEF Range
    <2>8. QED
      BY <1>1, <2>5, <2>6, <2>7 DEF OrRan
  <1>7. ASSUME NEW k \in 1..Len(orOutputs) PROVE orOutputs[k] \in C
    <2>1. PICK p \in OrParts : orOutputs[k] \in PartOf(p)
      BY <1>1 DEF OrRan
    <2>2. PICK d \in orVideo : /\ d = orOutputs[k]
                               /\ InWindow(d.ts, p[1]) /\ CenterInTile(d, p[2])
      BY <2>1 DEF PartOf
    <2>3. orPlan.windows = 1 => InRequest(d.ts)
      BY <2>2 DEF InWindow
    <2>4. ASSUME orPlan.columns > 1 PROVE 2 * d.x + d.w <= 2 * Width
      <3>1. p[2] \in 0..(orPlan.columns - 1)
        BY DEF OrParts
      <3>2. /\ orPlan.columns # 1 /\ Width % (4 * orPlan.columns * OrGrain) = 0
            /\ d \in Detections
        BY <1>2, <1>3, <2>4
      <3>3. QED
        BY <1>2, <2>2, <3>1, <3>2, TilesAreInside
    <2>5. QED
      BY <1>4, <2>2, <2>3, <2>4 DEF PlanCovers
  <1>8. orOutputs \in Seq(C) /\ Range(orOutputs) = C
    <2>1. orOutputs \in Seq(orVideo) /\ DOMAIN orOutputs = 1..Len(orOutputs) /\ Len(orOutputs) \in Nat
      BY <1>1, LenProperties DEF OrRan
    <2>2. orOutputs \in [1..Len(orOutputs) -> C]
      <3>1. orOutputs \in [1..Len(orOutputs) -> orVideo]
        BY <2>1, LenProperties
      <3>2. QED
        BY <1>7, <3>1
    <2>3. orOutputs \in Seq(C)
      BY <2>1, <2>2, IsASeq
    <2>4. Range(orOutputs) \subseteq C
      BY <1>7, <2>1 DEF Range
    <2>5. QED
      BY <1>6, <2>3, <2>4
  <1>9. RunOf(C) \in Seq(C) /\ Range(RunOf(C)) = C
    BY <1>5, RunReturns
  <1>10. Dedupe(orOutputs) = Dedupe(RunOf(C))
    BY <1>3, <1>5, <1>8, <1>9, MergeOfSet
  <1>11. QED
    BY <1>1, <1>4, <1>10

\* However a video is cut, the merge of what its parts return, copies and all,
\* is what it would answer of one run over what the plan covers: the window that
\* was asked for when there is one window, the whole video when there are more
\* (build_partitions, filter_predictions_by_tile, dedupe_detections).
THEOREM CuttingIsExact == Spec => []CutIsExact
  <1>1. Init => OrInv
    BY OrInvInit DEF Init
  <1>2. OrInv /\ [Next]_Everything => OrInv'
    <2>1. SUFFICES ASSUME OrInv, [Next]_Everything PROVE OrInv'
      OBVIOUS
    <2>2. OrNext \/ UNCHANGED orVars
      BY <2>1 DEF Next, Everything
    <2>3. QED
      BY <2>1, <2>2, OrInvStep
  <1>3. QED
    BY <1>1, <1>2, OrInvSound, PTL DEF Spec
=============================================================================
