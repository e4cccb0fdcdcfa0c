---------------------------- MODULE ObjectTracks ----------------------------
(***************************************************************************)
(* The SORT tracker and the trajectory routine built on it                 *)
(* (apps/analytics/routines/tracking.py), one action per sampled frame.    *)
(*                                                                         *)
(* Which detection continues which track is geometry (a Kalman prediction, *)
(* the overlap of boxes, scipy's assignment, the overlap threshold): here  *)
(* any one-to-one matching may come out of it.  Everything the tracker     *)
(* then does with ages, streaks and identities is as in the code.          *)
(***************************************************************************)
EXTENDS Integers, Sequences, FiniteSets, FiniteSetsExt

CONSTANTS SoMaxAge, SoMinHits, SoMinLength, \* max_age, min_hits, min_track_len
          SoDetections, \* bound: detections in one frame
          SoFrames      \* bound: frames of the clip

ASSUME SoAssumption ==
    /\ SoMaxAge \in Nat /\ SoMinHits \in Nat \ {0} /\ SoMinLength \in Nat
    /\ SoDetections \in Nat /\ SoFrames \in Nat

VARIABLES soTracks, \* the live tracks: identity, frames since an update, streak
          soNextId, soFrame,
          soPoints, \* per identity: the frames of its trajectory
          soHeld,   \* per identity: the frames it had a detection in (history)
          soKept    \* the trajectories returned, once the clip is over

soVars == <<soTracks, soNextId, soFrame, soPoints, soHeld, soKept>>

MaxId == SoDetections * SoFrames

SoTypeOK ==
    /\ soTracks \subseteq [id : 0..MaxId, since : 0..SoMaxAge, streak : 0..SoFrames]
    /\ soNextId \in 0..MaxId /\ soFrame \in 0..SoFrames
    /\ DOMAIN soPoints = 0..soNextId - 1 /\ DOMAIN soHeld = 0..soNextId - 1
    /\ soKept \subseteq 0..MaxId

SoInit ==
    /\ soTracks = {} /\ soNextId = 0 /\ soFrame = 0 /\ soKept = {}
    /\ soPoints = [i \in {} |-> <<>>] /\ soHeld = [i \in {} |-> {}]

\* Variant of Predicted: a missed frame does not break the streak.
PredictedKeeps(t) == [t EXCEPT !.since = @ + 1]
\* A track that went without a detection in the last frame loses its streak.
Predicted(t) ==
    [t EXCEPT !.streak = IF t.since > 0 THEN 0 ELSE @, !.since = @ + 1]

Matched(t) == [t EXCEPT !.since = 0, !.streak = @ + 1]
Fresh(id) == [id |-> id, since |-> 0, streak |-> 0]

\* A track after a frame, with the detection matched to it or none (0).
Stepped(t, d) == IF d # 0 THEN Matched(Predicted(t)) ELSE Predicted(t)

\* One-to-one matchings of tracks with detections.
Matchings(n) ==
    {m \in [soTracks -> 0..n] :
        \A t, u \in soTracks : m[t] = m[u] /\ m[t] # 0 => t = u}

Confirmed(t, frame) == t.since < 1 /\ (t.streak >= SoMinHits \/ frame <= SoMinHits)

\* SortTracker.update and the loop around it: predict, match, start a track for
\* every detection left over, report the confirmed, retire the stale.
Frame(n, m) ==
    LET left == n - Cardinality({t \in soTracks : m[t] # 0})
        all == {Stepped(t, m[t]) : t \in soTracks}
               \cup {Fresh(soNextId + k) : k \in 0..left - 1}
        reported == {t.id : t \in {x \in all : Confirmed(x, soFrame + 1)}}
        seen == {t.id : t \in {x \in all : x.since = 0}}
        Of(f, i, default) == IF i \in DOMAIN f THEN f[i] ELSE default
    IN  /\ soFrame < SoFrames /\ soKept = {}
        /\ soFrame' = soFrame + 1
        /\ soNextId' = soNextId + left
        /\ soTracks' = {t \in all : t.since <= SoMaxAge}
        /\ soPoints' = [i \in 0..soNextId' - 1 |->
               Of(soPoints, i, <<>>) \o (IF i \in reported THEN <<soFrame'>> ELSE <<>>)]
        /\ soHeld' = [i \in 0..soNextId' - 1 |->
               Of(soHeld, i, {}) \cup (IF i \in seen THEN {soFrame'} ELSE {})]
        /\ UNCHANGED soKept

\* The trajectories long enough to return.
Finish ==
    /\ soFrame = SoFrames /\ soKept = {}
    /\ soKept' = {i \in DOMAIN soPoints : soPoints[i] # <<>> /\ Len(soPoints[i]) >= SoMinLength}
    /\ soKept' # {}
    /\ UNCHANGED <<soTracks, soNextId, soFrame, soPoints, soHeld>>

SoNext ==
    \/ \E n \in 0..SoDetections : \E m \in Matchings(n) : Frame(n, m)
    \/ Finish

(***************************************************************************)
(* Properties.                                                             *)
(***************************************************************************)

LastSeen(i) == Max(soHeld[i])

\* A trajectory is one object's: after the warm-up frames it has a point only
\* where the object was detected in each of the last min_hits frames, one point
\* per frame, in order, so that neither a lost track nor a flicker draws one;
\* and identities are not used again.
TracksHonest ==
    /\ \A i \in DOMAIN soPoints :
           /\ \A k \in 1..Len(soPoints[i]) :
                  LET f == soPoints[i][k]
                  IN  /\ (IF f > SoMinHits THEN f - SoMinHits + 1 ELSE f)..f \subseteq soHeld[i]
                      /\ k > 1 => soPoints[i][k - 1] < f
    /\ \A t, u \in soTracks : t.id = u.id => t = u

\* A track lives exactly until its object went undetected for more than max_age
\* frames, and every detection belongs to one track.
TracksRetire ==
    /\ {t.id : t \in soTracks} = {i \in DOMAIN soHeld : soFrame - LastSeen(i) <= SoMaxAge}
    /\ \A f \in 1..soFrame : Cardinality({i \in DOMAIN soHeld : f \in soHeld[i]}) <= SoDetections
=============================================================================
