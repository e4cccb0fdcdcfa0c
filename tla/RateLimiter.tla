---------------------------- MODULE RateLimiter ----------------------------
(***************************************************************************)
(* The sliding window in front of the mission views and of the Foundry     *)
(* session views: a queue of arrival times per key.  The time is read      *)
(* before the lock is taken, so arrivals may be queued out of order.       *)
(***************************************************************************)
EXTENDS Naturals, Sequences, FiniteSets

CONSTANTS RlThreads,  \* requests; each passes the guard once
          RlWorkers,  \* how many of them the server handles at a time
          RlKeys,     \* user or address, and what the view adds to it
          RateMax,    \* requests allowed in a window
          RateWindow, \* length of the window
          RlHorizon   \* the clock stops here

\* The code writes the limit and the window as constants (120 or 60 requests a
\* minute); the proofs need no more of them than this.
ASSUME RlAssumption ==
    /\ IsFiniteSet(RlThreads) /\ RlKeys # {}
    /\ RlWorkers \in Nat \ {0}
    /\ RateMax \in Nat /\ RateWindow \in Nat /\ RlHorizon \in Nat

VARIABLES
    rlClock,   \* time.monotonic()
    rlHits,    \* key -> queue of arrival times
    rlPc,      \* request -> new, timed, accepted or refused
    rlKey,     \* request -> its key
    rlNow,     \* request -> the time it read
    rlInWindow \* refused request -> how many accepted ones were recent

rlVars == <<rlClock, rlHits, rlPc, rlKey, rlNow, rlInWindow>>

RlTypeOK ==
    /\ rlClock \in 0..RlHorizon
    /\ \A k \in RlKeys : rlHits[k] \in Seq(0..RlHorizon)
    /\ rlPc \in [RlThreads -> {"new", "timed", "accepted", "refused"}]
    /\ rlKey \in [RlThreads -> RlKeys]
    /\ rlNow \in [RlThreads -> 0..RlHorizon]

RlInit ==
    /\ rlClock = 0
    /\ rlHits = [k \in RlKeys |-> <<>>]
    /\ rlPc = [t \in RlThreads |-> "new"]
    /\ rlKey = [t \in RlThreads |-> CHOOSE k \in RlKeys : TRUE]
    /\ rlNow = [t \in RlThreads |-> 0]
    /\ rlInWindow = [t \in RlThreads |-> 0]

Tick ==
    /\ rlClock < RlHorizon
    /\ rlClock' = rlClock + 1
    /\ UNCHANGED <<rlHits, rlPc, rlKey, rlNow, rlInWindow>>

InFlight == {t \in RlThreads : rlPc[t] = "timed"}

ReadClock(t) ==
    /\ rlPc[t] = "new"
    /\ Cardinality(InFlight) < RlWorkers
    /\ rlPc' = [rlPc EXCEPT ![t] = "timed"]
    /\ \E k \in RlKeys : rlKey' = [rlKey EXCEPT ![t] = k]
    /\ rlNow' = [rlNow EXCEPT ![t] = rlClock]
    /\ UNCHANGED <<rlClock, rlHits, rlInWindow>>

\* Variant of Kept: an entry as old as the window has left it.
KeptLess(q, now) ==
    LET expired == {i \in 0..Len(q) : \A j \in 1..i : now >= q[j] + RateWindow} IN
    SubSeq(q, 1 + CHOOSE i \in expired : \A j \in expired : j <= i, Len(q))

\* Entries leave from the left while they are older than the window.
Kept(q, now) ==
    LET expired == {i \in 0..Len(q) : \A j \in 1..i : now > q[j] + RateWindow} IN
    SubSeq(q, 1 + CHOOSE i \in expired : \A j \in expired : j <= i, Len(q))

\* Accepted requests that arrived at most a window before now, or later.
Recent(k, now) ==
    {t \in RlThreads : /\ rlPc[t] = "accepted" /\ rlKey[t] = k
                       /\ now <= rlNow[t] + RateWindow}

\* _rate_limited, from the lock on.  The mission views and the Foundry views
\* each have a limiter, of the same code; this is either.
RateLimited(t) ==
    LET k == rlKey[t]
        q == Kept(rlHits[k], rlNow[t])
        full == Len(q) >= RateMax IN
    /\ rlPc[t] = "timed"
    /\ rlHits' = [rlHits EXCEPT ![k] = IF full THEN q ELSE Append(q, rlNow[t])]
    /\ rlPc' = [rlPc EXCEPT ![t] = IF full THEN "refused" ELSE "accepted"]
    /\ rlInWindow' = [rlInWindow EXCEPT ![t] = Cardinality(Recent(k, rlNow[t]))]
    /\ UNCHANGED <<rlClock, rlKey, rlNow>>

RlNext ==
    \/ Tick
    \/ \E t \in RlThreads : ReadClock(t) \/ RateLimited(t)

RlSpec == RlInit /\ [][RlNext]_rlVars

\* No window of RateWindow holds more accepted arrivals than RateMax and, as
\* the clock is read outside the lock, one more per other worker.
RateBound ==
    \A k \in RlKeys, n \in 0..RlHorizon :
        Cardinality({t \in Recent(k, n) : rlNow[t] <= n}) <= RateMax + (RlWorkers - 1)

\* A request is refused only when its window was full, up to the late
\* arrivals that other workers queued behind younger ones.
RefusedWhenFull ==
    \A t \in RlThreads :
        rlPc[t] = "refused" => rlInWindow[t] + (RlWorkers - 1) >= RateMax

\* Workers that read the clock outside the lock bend the limit by no more
\* than their own number, to either side.
RateWindowKept == RateBound /\ RefusedWhenFull
=============================================================================
