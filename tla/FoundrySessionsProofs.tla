----------------------- MODULE FoundrySessionsProofs -----------------------
(* Theorems about FoundrySessions, for every instance of its constants.    *)
EXTENDS FoundrySessions, FiniteSetTheorems, SequenceTheorems, TLAPS

(* Type correctness.  A thread at work has a session; without that the     *)
(* types are not inductive, since the store takes what sid holds.          *)

StoreOK == store \subseteq Sessions /\ order \in Seq(Sessions)

SessionOK ==
    /\ issued \subseteq Sessions
    /\ status \in [Sessions -> {"none", "active", "torn_down", "over_budget"}]
    /\ cost \in [Sessions -> Nat]
    /\ expired \subseteq Sessions /\ idle \subseteq Sessions

CloudOK ==
    /\ res \in [Sessions -> {"none", "partial", "full"}]
    /\ keys \subseteq Sessions

ThreadOK ==
    /\ pc \in [Threads -> Labels]
    /\ sid \in [Threads -> Sessions \cup {NoSession}]
    /\ why \in [Threads -> Reasons]
    /\ seen \in [Threads -> Nat]
    /\ todo \in [Threads -> Seq(Sessions)]
    /\ \A p \in Threads : pc[p] \notin {"free", "sweep"} => sid[p] \in Sessions

TypeInv == StoreOK /\ SessionOK /\ CloudOK /\ ThreadOK

BackendOK == backend \in {"sdk", "terraform", "dryrun"}

LEMMA TypeParts == BackendOK /\ TypeInv => TypeOK
BY DEF BackendOK, TypeInv, StoreOK, SessionOK, CloudOK, ThreadOK, TypeOK

LEMMA InitTypeInv == Init => TypeInv
<1> SUFFICES ASSUME Init PROVE TypeInv
  OBVIOUS
<1>1. StoreOK /\ SessionOK /\ CloudOK
  BY DEF Init, StoreOK, SessionOK, CloudOK
<1>2. ThreadOK
  BY DEF Init, ThreadOK, Labels, Reasons
<1>3. QED
  BY <1>1, <1>2 DEF TypeInv

\* What a thread's moves keep.
LEMMA GotoType ==
  ASSUME ThreadOK, NEW p \in Threads, NEW l \in Labels, Goto(p, l),
         l \notin {"free", "sweep"} => sid[p] \in Sessions
  PROVE  ThreadOK'
BY DEF ThreadOK, Goto

LEMMA LeaveType ==
  ASSUME ThreadOK, NEW p \in Threads, Leave(p)
  PROVE  ThreadOK'
BY DEF ThreadOK, Leave, Labels, Reasons

LEMMA TakeType ==
  ASSUME ThreadOK, NEW p \in Threads, NEW s \in Sessions, NEW l \in Labels,
         Take(p, s, l), UNCHANGED <<seen, todo>>,
         why' = why \/ \E r \in Reasons : why' = [why EXCEPT ![p] = r]
  PROVE  ThreadOK'
BY DEF ThreadOK, Take

LEMMA AnsweredType ==
  ASSUME ThreadOK, NEW p \in Threads, pc[p] \notin {"free", "sweep"}, Answered(p)
  PROVE  ThreadOK'
<1>1. "over" \in Labels /\ "sweep" \in Labels
  BY DEF Labels
<1>2. QED
  BY <1>1, GotoType, LeaveType DEF Answered, ThreadOK

LEMMA PutType ==
  ASSUME StoreOK, NEW s \in Sessions, Put(s)
  PROVE  StoreOK'
BY DEF StoreOK, Put

LEMMA RemoveType ==
  ASSUME StoreOK, NEW s \in Sessions, Remove(s)
  PROVE  StoreOK'
<1>1. PICK i \in DOMAIN order :
        order' = SubSeq(order, 1, i - 1) \o SubSeq(order, i + 1, Len(order))
  BY DEF Remove
<1>2. /\ SubSeq(order, 1, i - 1) \in Seq(Sessions)
      /\ SubSeq(order, i + 1, Len(order)) \in Seq(Sessions)
  BY DEF StoreOK
<1>3. order' \in Seq(Sessions)
  BY <1>1, <1>2, ConcatProperties
<1>4. store' \subseteq Sessions
  BY DEF Remove, StoreOK
<1>5. QED
  BY <1>3, <1>4 DEF StoreOK

LEMMA CreateTypeInv ==
  ASSUME TypeInv, NEW p \in Threads, CreateSession(p)
  PROVE  TypeInv'
<1> USE DEF TypeInv
<1>1. {"user", "group", "secret", "cleanup", "put"} \subseteq Labels
  BY DEF Labels, Creating
<1>2. ASSUME pc[p] \notin {"free", "sweep"}
      PROVE  sid[p] \in Sessions
  BY <1>2 DEF ThreadOK
<1>3. CASE CheckQuota(p)
  <2>1. PICK s \in Sessions \ issued : Take(p, s, "user") /\ issued' = issued \cup {s}
    BY <1>3 DEF CheckQuota
  <2>2. ThreadOK'
    BY <1>1, <1>3, <2>1, TakeType DEF CheckQuota
  <2>3. QED
    BY <1>3, <2>1, <2>2
    DEF CheckQuota, StoreOK, SessionOK, CloudOK, storeVars, cloudVars
<1>4. CASE CheckUser(p)
  BY <1>1, <1>2, <1>4, GotoType
  DEF CheckUser, StoreOK, SessionOK, CloudOK, storeVars, sessionVars, cloudVars
<1>5. CASE RejectCreate(p)
  BY <1>5, LeaveType
  DEF RejectCreate, StoreOK, SessionOK, CloudOK, storeVars, cloudVars
<1>6. CASE MakeGroup(p)
  <2>1. ThreadOK'
    BY <1>1, <1>2, <1>6, GotoType DEF MakeGroup
  <2>2. QED
    BY <1>6, <2>1 DEF MakeGroup, StoreOK, SessionOK, CloudOK, storeVars, sessionVars
<1>7. CASE GroupFails(p)
  <2>1. ThreadOK'
    BY <1>1, <1>2, <1>7, GotoType DEF GroupFails
  <2>2. QED
    BY <1>7, <2>1 DEF GroupFails, StoreOK, SessionOK, CloudOK, storeVars, sessionVars
<1>8. CASE MakeSecret(p) \/ SecretFails(p)
  <2>1. ThreadOK'
    BY <1>1, <1>2, <1>8, GotoType DEF MakeSecret, SecretFails
  <2>2. QED
    BY <1>2, <1>8, <2>1
    DEF MakeSecret, SecretFails, StoreOK, SessionOK, CloudOK, storeVars, sessionVars
<1>9. CASE InitRaises(p) \/ Cleanup(p) \/ CleanupFails(p)
  <2>1. ThreadOK'
    BY <1>9, LeaveType DEF InitRaises, Cleanup, CleanupFails
  <2>2. QED
    BY <1>9, <2>1
    DEF InitRaises, Cleanup, CleanupFails, DropKey, StoreOK, SessionOK, CloudOK,
        storeVars, sessionVars, cloudVars
<1>10. CASE StoreSession(p)
  BY <1>2, <1>10, LeaveType, PutType DEF StoreSession, SessionOK, CloudOK, cloudVars
<1>11. QED
  BY <1>3, <1>4, <1>5, <1>6, <1>7, <1>8, <1>9, <1>10 DEF CreateSession

LEMMA UseTypeInv ==
  ASSUME TypeInv, NEW p \in Threads, UseSession(p)
  PROVE  TypeInv'
<1> USE DEF TypeInv
<1>1. {"beat", "call", "pop", "accrue", "write", "stop"} \subseteq Labels
  BY DEF Labels, Tearing
<1>2. {"expired", "hard"} \subseteq Reasons
  BY DEF Reasons
<1>3. ASSUME pc[p] \notin {"free", "sweep"}
      PROVE  sid[p] \in Sessions
  BY <1>3 DEF ThreadOK
<1>4. ASSUME NEW s \in Sessions,
             \/ Beat(p, s) \/ InferExpired(p, s)
             \/ \E force \in Forces : CheckCanInfer(p, s, force)
      PROVE  TypeInv'
  <2>1. ThreadOK'
    BY <1>1, <1>2, <1>4, TakeType DEF Beat, InferExpired, CheckCanInfer
  <2>2. QED
    BY <1>4, <2>1
    DEF Beat, InferExpired, CheckCanInfer, StoreOK, SessionOK, CloudOK, storeVars,
        sessionVars, cloudVars
<1>5. CASE BeatPut(p)
  BY <1>3, <1>5, LeaveType, PutType DEF BeatPut, SessionOK, CloudOK, cloudVars
<1>6. CASE CallFails(p) \/ WithinLimit(p)
  BY <1>6, LeaveType
  DEF CallFails, WithinLimit, StoreOK, SessionOK, CloudOK, storeVars, sessionVars,
      cloudVars
<1>7. CASE CallReturns(p)
  BY <1>1, <1>3, <1>7, GotoType
  DEF CallReturns, StoreOK, SessionOK, CloudOK, storeVars, sessionVars, cloudVars
<1>8. CASE ReadCost(p)
  <2>1. ThreadOK'
    BY <1>1, <1>3, <1>8 DEF ReadCost, ThreadOK, SessionOK
  <2>2. QED
    BY <1>8, <2>1
    DEF ReadCost, StoreOK, SessionOK, CloudOK, storeVars, sessionVars, cloudVars
<1>9. ASSUME NEW c \in CallCosts, WriteCost(p, c)
      PROVE  TypeInv'
  <2>1. ThreadOK'
    BY <1>1, <1>3, <1>9, GotoType DEF WriteCost
  <2>2. seen[p] + c \in Nat
    BY <1>9, FoundryAssumption DEF ThreadOK
  <2>3. QED
    BY <1>3, <1>9, <2>1, <2>2, PutType DEF WriteCost, SessionOK, CloudOK, cloudVars
<1>10. CASE HardStop(p)
  <2>1. ThreadOK'
    BY <1>1, <1>2, <1>3, <1>10 DEF HardStop, ThreadOK
  <2>2. QED
    BY <1>10, <2>1
    DEF HardStop, StoreOK, SessionOK, CloudOK, storeVars, sessionVars, cloudVars
<1>11. CASE OverBudget(p)
  BY <1>3, <1>11, LeaveType DEF OverBudget, StoreOK, SessionOK, CloudOK, storeVars, cloudVars
<1>12. QED
  BY <1>4, <1>5, <1>6, <1>7, <1>8, <1>9, <1>10, <1>11 DEF UseSession

LEMMA TeardownTypeInv ==
  ASSUME TypeInv, NEW p \in Threads, Teardown(p)
  PROVE  TypeInv'
<1> USE DEF TypeInv
<1>1. {"pop", "delete", "scrub", "reinsert"} \subseteq Labels /\ "manual" \in Reasons
  BY DEF Labels, Tearing, Reasons
<1>2. ASSUME pc[p] \notin {"free", "sweep"}
      PROVE  sid[p] \in Sessions
  BY <1>2 DEF ThreadOK
<1>3. ASSUME NEW s \in Sessions, TeardownRequest(p, s)
      PROVE  TypeInv'
  <2>1. ThreadOK'
    BY <1>1, <1>3, TakeType DEF TeardownRequest
  <2>2. QED
    BY <1>3, <2>1
    DEF TeardownRequest, StoreOK, SessionOK, CloudOK, storeVars, sessionVars, cloudVars
<1>4. CASE Pop(p)
  BY <1>1, <1>2, <1>4, GotoType, RemoveType
  DEF Pop, SessionOK, CloudOK, sessionVars, cloudVars
<1>5. CASE AlreadyGone(p)
  BY <1>5, AnsweredType
  DEF AlreadyGone, StoreOK, SessionOK, CloudOK, storeVars, sessionVars, cloudVars
<1>6. CASE Delete(p) \/ DestroyFails(p) \/ DeleteFails(p)
  <2>1. ThreadOK'
    BY <1>1, <1>2, <1>6, GotoType DEF Delete, DestroyFails, DeleteFails
  <2>2. QED
    BY <1>6, <2>1
    DEF Delete, DestroyFails, DeleteFails, StoreOK, SessionOK, CloudOK, storeVars,
        sessionVars, cloudVars
<1>7. CASE DestroyRaises(p)
  BY <1>7, LeaveType
  DEF DestroyRaises, StoreOK, SessionOK, CloudOK, storeVars, sessionVars, cloudVars
<1>8. CASE Reinsert(p)
  BY <1>2, <1>8, LeaveType, PutType DEF Reinsert, SessionOK, CloudOK, sessionVars, cloudVars
<1>9. CASE Scrub(p)
  <2>1. ThreadOK'
    BY <1>9, AnsweredType DEF Scrub
  <2>2. QED
    BY <1>9, <2>1 DEF Scrub, DropKey, StoreOK, SessionOK, CloudOK, storeVars
<1>10. QED
  BY <1>3, <1>4, <1>5, <1>6, <1>7, <1>8, <1>9 DEF Teardown

LEMMA SweepTypeInv ==
  ASSUME TypeInv, NEW p \in Threads, Sweep(p)
  PROVE  TypeInv'
<1> USE DEF TypeInv
<1>1. StoreOK' /\ SessionOK' /\ CloudOK'
  BY DEF Sweep, SweepStart, SweepSkip, SweepReap, SweepEnd, StoreOK, SessionOK,
         CloudOK, storeVars, sessionVars, cloudVars
<1>2. "sweep" \in Labels /\ "pop" \in Labels /\ "sweep" \in Reasons
  BY DEF Labels, Tearing, Reasons
<1>3. CASE SweepStart(p)
  BY <1>1, <1>2, <1>3 DEF SweepStart, ThreadOK, StoreOK
<1>4. CASE SweepSkip(p) \/ SweepReap(p)
  <2>1. todo[p] \in Seq(Sessions) /\ todo[p] # <<>>
    BY <1>4 DEF SweepSkip, SweepReap, ThreadOK
  <2>2. Head(todo[p]) \in Sessions /\ Tail(todo[p]) \in Seq(Sessions)
    BY <2>1
  <2>3. CASE SweepSkip(p)
    BY <1>1, <2>2, <2>3 DEF SweepSkip, ThreadOK
  <2>4. CASE SweepReap(p)
    <3>1. todo' \in [Threads -> Seq(Sessions)] /\ sid' \in [Threads -> Sessions \cup {NoSession}]
      BY <2>2, <2>4 DEF SweepReap, ThreadOK
    <3>2. pc' \in [Threads -> Labels] /\ UNCHANGED <<why, seen>>
      BY <1>2, <2>4 DEF SweepReap, ThreadOK
    <3>3. \A q \in Threads : pc'[q] \notin {"free", "sweep"} => sid'[q] \in Sessions
      BY <2>2, <2>4 DEF SweepReap, ThreadOK
    <3>4. QED
      BY <1>1, <3>1, <3>2, <3>3 DEF ThreadOK
  <2>5. QED
    BY <1>4, <2>3, <2>4
<1>5. CASE SweepEnd(p)
  BY <1>1, <1>5, LeaveType DEF SweepEnd
<1>6. QED
  BY <1>3, <1>4, <1>5 DEF Sweep

LEMMA StepTypeInv == TypeInv /\ [Next]_vars => TypeInv'
<1> SUFFICES ASSUME TypeInv, [Next]_vars PROVE TypeInv'
  OBVIOUS
<1>1. ASSUME NEW s \in Sessions, Expire(s) \/ IdleOut(s)
      PROVE  TypeInv'
  BY <1>1 DEF Expire, IdleOut, TypeInv, StoreOK, SessionOK, CloudOK, ThreadOK,
              storeVars, cloudVars, threadVars
<1>2. CASE UNCHANGED vars
  BY <1>2 DEF vars, TypeInv, StoreOK, SessionOK, CloudOK, ThreadOK
<1>3. QED
  BY <1>1, <1>2, CreateTypeInv, UseTypeInv, TeardownTypeInv, SweepTypeInv DEF Next

\* The session manager's variables keep their types.
THEOREM TypeCorrect == Spec => []TypeOK
<1>1. Init => BackendOK
  BY FoundryAssumption DEF Init, BackendOK
<1>2. BackendOK /\ [Next]_vars => BackendOK'
  BY DEF Next, vars, BackendOK
<1>3. QED
  BY <1>1, <1>2, InitTypeInv, StepTypeInv, TypeParts, PTL DEF Spec
-----------------------------------------------------------------------------
(* Where sessions come from.  A create works on an id that nobody else     *)
(* knows; everything the store, a sweep or another request works on has    *)
(* been created.                                                           *)

Fresh == \A s \in Sessions \ issued : status[s] = "none"

Stored == \A s \in store : status[s] # "none"

Listed ==
    /\ \A i \in DOMAIN order : status[order[i]] # "none"
    /\ \A p \in Threads : \A i \in DOMAIN todo[p] : status[todo[p][i]] # "none"

Creators ==
    \A p \in Threads : pc[p] \in Creating =>
        /\ sid[p] \in issued /\ status[sid[p]] = "none"
        /\ \A q \in Threads \ {p} : pc[q] \in Creating => sid[q] # sid[p]

Users ==
    \A p \in Threads : pc[p] \notin Creating \cup {"free", "sweep"} =>
        status[sid[p]] # "none"

OriginInv == Fresh /\ Stored /\ Listed /\ Creators /\ Users

LEMMA InitOriginInv == Init => OriginInv
BY DEF Init, OriginInv, Fresh, Stored, Listed, Creators, Users, Creating

\* What the store's operations do to the dict's order.
LEMMA PutListed ==
  ASSUME StoreOK, NEW s \in Sessions, Put(s), NEW i \in DOMAIN order'
  PROVE  order'[i] = s \/ \E j \in DOMAIN order : order'[i] = order[j]
BY DEF StoreOK, Put

LEMMA RemoveListed ==
  ASSUME StoreOK, NEW s \in Sessions, Remove(s), NEW i \in DOMAIN order'
  PROVE  \E j \in DOMAIN order : order'[i] = order[j]
<1>1. PICK k \in DOMAIN order :
        order' = SubSeq(order, 1, k - 1) \o SubSeq(order, k + 1, Len(order))
  BY DEF Remove
<1> DEFINE front == SubSeq(order, 1, k - 1)
           back  == SubSeq(order, k + 1, Len(order))
<1>2. PICK n \in Nat : n = Len(order) /\ order \in Seq(Sessions) /\ DOMAIN order = 1..n
  BY LenProperties DEF StoreOK
<1>3. PICK a \in Nat : k = a + 1 /\ a + 1 <= n
  <2>1. k \in 1..n
    BY <1>2
  <2>2. k - 1 \in Nat /\ k = (k - 1) + 1 /\ (k - 1) + 1 <= n
    BY <2>1
  <2>3. QED
    BY <2>2
<1>4. /\ front \in Seq(Sessions) /\ Len(front) = a
      /\ \A m \in 1..a : front[m] = order[m]
  <2>1. \A m \in 1..a : m \in 1..n
    BY <1>3
  <2>2. QED
    BY <1>2, <1>3, <2>1
<1>5. PICK b \in Nat : b = n - (a + 1)
  BY <1>3
<1>6. /\ back \in Seq(Sessions) /\ Len(back) = b
      /\ \A m \in 1..b : back[m] = order[(a + 1) + m]
  BY <1>2, <1>3, <1>5
<1> HIDE DEF front, back
<1>7. /\ DOMAIN order' = 1..(a + b)
      /\ \A m \in 1..(a + b) : order'[m] = IF m <= a THEN front[m] ELSE back[m - a]
  <2>1. order' = front \o back
    BY <1>1 DEF front, back
  <2>2. PICK joined \in Seq(Sessions) :
          /\ joined = front \o back /\ Len(joined) = Len(front) + Len(back)
          /\ \A m \in 1..Len(front) + Len(back) :
                joined[m] = IF m <= Len(front) THEN front[m] ELSE back[m - Len(front)]
    <3>1. front \in Seq(Sessions) /\ back \in Seq(Sessions)
      BY <1>4, <1>6
    <3>2. /\ front \o back \in Seq(Sessions) /\ Len(front \o back) = Len(front) + Len(back)
          /\ \A m \in 1..Len(front) + Len(back) :
                (front \o back)[m] = IF m <= Len(front) THEN front[m] ELSE back[m - Len(front)]
      BY <3>1, ConcatProperties
    <3>3. QED
      BY <3>2
  <2>3. DOMAIN joined = 1..(a + b)
    BY <1>4, <1>6, <2>2, LenProperties
  <2>4. QED
    BY <1>4, <1>6, <2>1, <2>2, <2>3
<1>8. CASE i <= a
  <2>1. i \in 1..a /\ i \in 1..n
    BY <1>3, <1>7, <1>8
  <2>2. order'[i] = order[i]
    BY <1>4, <1>7, <1>8, <2>1
  <2>3. QED
    BY <1>2, <2>1, <2>2
<1>9. CASE ~(i <= a)
  <2>1. i \in 1..(a + b)
    BY <1>7
  <2>2. i - a \in 1..b /\ (a + 1) + (i - a) \in 1..n
    BY <1>3, <1>5, <1>9, <2>1
  <2>3. order'[i] = order[(a + 1) + (i - a)]
    BY <1>6, <1>7, <1>9, <2>1, <2>2
  <2>4. QED
    BY <1>2, <2>2, <2>3
<1>10. QED
  BY <1>8, <1>9

\* A step of thread p that creates no session: the statuses other than "none"
\* may change, and only known sessions enter the store and the lists.
LEMMA OriginKept ==
  ASSUME TypeInv, OriginInv, NEW p \in Threads,
         issued' = issued,
         \A s \in Sessions : status'[s] = "none" <=> status[s] = "none",
         \A s \in store' : status[s] # "none",
         \A i \in DOMAIN order' : status[order'[i]] # "none",
         \A q \in Threads : \A i \in DOMAIN todo'[q] : status[todo'[q][i]] # "none",
         TypeInv',
         \A q \in Threads \ {p} : pc'[q] = pc[q] /\ sid'[q] = sid[q],
         pc'[p] \in Creating => pc[p] \in Creating /\ sid'[p] = sid[p],
         pc'[p] \notin Creating \cup {"free", "sweep"} => status[sid'[p]] # "none"
  PROVE  OriginInv'
<1>1. Fresh'
  BY DEF OriginInv, Fresh
<1>2. Stored'
  BY DEF Stored, TypeInv, StoreOK
<1>3. Listed'
  <2>1. ASSUME NEW i \in DOMAIN order' PROVE status'[order'[i]] # "none"
    <3>1. order'[i] \in Sessions
      BY <2>1 DEF TypeInv, StoreOK
    <3>2. QED
      BY <2>1, <3>1
  <2>2. ASSUME NEW q \in Threads, NEW i \in DOMAIN todo'[q]
        PROVE  status'[todo'[q][i]] # "none"
    <3>1. todo'[q] \in Seq(Sessions)
      BY DEF TypeInv, ThreadOK
    <3>2. todo'[q][i] \in Sessions
      BY <3>1, <2>2
    <3>3. QED
      BY <2>2, <3>2
  <2>3. QED
    BY <2>1, <2>2 DEF Listed
<1>a. ASSUME NEW q \in Threads, pc'[q] \notin {"free", "sweep"}
      PROVE  sid'[q] \in Sessions
  BY <1>a DEF TypeInv, ThreadOK
<1>b. "free" \notin Creating /\ "sweep" \notin Creating
  BY DEF Creating
<1>4. Creators'
  <2>1. ASSUME NEW q \in Threads, pc'[q] \in Creating
        PROVE  pc[q] \in Creating /\ sid'[q] = sid[q] /\ sid[q] \in Sessions
    BY <1>a, <1>b, <2>1
  <2>2. QED
    BY <2>1 DEF OriginInv, Creators
<1>5. Users'
  <2>1. ASSUME NEW q \in Threads, pc'[q] \notin Creating \cup {"free", "sweep"}
        PROVE  status[sid'[q]] # "none" /\ sid'[q] \in Sessions
    BY <1>a, <2>1 DEF OriginInv, Users
  <2>2. QED
    BY <2>1 DEF Users
<1>6. QED
  BY <1>1, <1>2, <1>3, <1>4, <1>5 DEF OriginInv
\* Most steps: p goes on with its session, or is done with it, and the store
\* gains or loses that session or stays as it is.
LEMMA MoveOrigin ==
  ASSUME TypeInv, OriginInv, TypeInv', NEW p \in Threads,
         issued' = issued,
         \A s \in Sessions : status'[s] = "none" <=> status[s] = "none",
         \/ UNCHANGED storeVars
         \/ /\ pc[p] \notin Creating \cup {"free", "sweep"}
            /\ Put(sid[p]) \/ Remove(sid[p]),
         \/ Leave(p)
         \/ /\ pc[p] \notin {"free", "sweep"}
            /\ \E l \in Labels :
                /\ pc' = [pc EXCEPT ![p] = l]
                /\ UNCHANGED <<sid, todo>>
                /\ l = "sweep" \/ (l \in Creating <=> pc[p] \in Creating)
  PROVE  OriginInv'
<1>0. "free" \notin Creating /\ "sweep" \notin Creating
  BY DEF Creating
<1>1. ASSUME pc[p] \notin Creating \cup {"free", "sweep"}
      PROVE  sid[p] \in Sessions /\ status[sid[p]] # "none"
  BY <1>1 DEF TypeInv, ThreadOK, OriginInv, Users
<1>2. \A s \in store' : status[s] # "none"
  BY <1>1 DEF OriginInv, Stored, Put, Remove, storeVars
<1>3. ASSUME NEW i \in DOMAIN order' PROVE status[order'[i]] # "none"
  <2>1. CASE UNCHANGED storeVars
    BY <1>3, <2>1 DEF OriginInv, Listed, storeVars
  <2>2. CASE /\ pc[p] \notin Creating \cup {"free", "sweep"}
             /\ Put(sid[p]) \/ Remove(sid[p])
    <3>1. order'[i] = sid[p] \/ \E j \in DOMAIN order : order'[i] = order[j]
      BY <1>1, <1>3, <2>2, PutListed, RemoveListed DEF TypeInv
    <3>2. QED
      BY <1>1, <2>2, <3>1 DEF OriginInv, Listed
  <2>3. QED
    BY <2>1, <2>2
<1>4. \A q \in Threads : \A i \in DOMAIN todo'[q] : status[todo'[q][i]] # "none"
  <2>1. \A q \in Threads : todo'[q] = todo[q] \/ todo'[q] = <<>>
    BY DEF TypeInv, ThreadOK, Leave
  <2>2. QED
    BY <2>1 DEF OriginInv, Listed
<1>5. \A q \in Threads \ {p} : pc'[q] = pc[q] /\ sid'[q] = sid[q]
  BY DEF Leave, TypeInv, ThreadOK
<1>6. pc'[p] \in Creating => pc[p] \in Creating /\ sid'[p] = sid[p]
  BY <1>0 DEF Leave, TypeInv, ThreadOK
<1>7. pc'[p] \notin Creating \cup {"free", "sweep"} => status[sid'[p]] # "none"
  BY <1>0, <1>1 DEF Leave, TypeInv, ThreadOK
<1>8. QED
  BY <1>2, <1>3, <1>4, <1>5, <1>6, <1>7, OriginKept

\* A request takes up a session that has been created.
LEMMA TakeOrigin ==
  ASSUME TypeInv, OriginInv, TypeInv', NEW p \in Threads, NEW s \in Sessions,
         NEW l \in {"beat", "call", "pop"},
         Take(p, s, l), status[s] # "none",
         UNCHANGED <<store, order, issued, status, todo>>
  PROVE  OriginInv'
<1>1. l \notin Creating
  BY DEF Creating
<1>2. /\ \A q \in Threads \ {p} : pc'[q] = pc[q] /\ sid'[q] = sid[q]
      /\ pc'[p] = l /\ sid'[p] = s
  BY DEF Take, TypeInv, ThreadOK
<1>3. /\ \A t \in store' : status[t] # "none"
      /\ \A i \in DOMAIN order' : status[order'[i]] # "none"
      /\ \A q \in Threads : \A i \in DOMAIN todo'[q] : status[todo'[q][i]] # "none"
  BY DEF OriginInv, Stored, Listed
<1>4. QED
  BY <1>1, <1>2, <1>3, OriginKept

LEMMA CreateOriginInv ==
  ASSUME TypeInv, OriginInv, TypeInv', NEW p \in Threads, CreateSession(p)
  PROVE  OriginInv'
<1>0. /\ {"user", "group", "secret", "cleanup", "put"} \subseteq Creating
      /\ "free" \notin Creating /\ "sweep" \notin Creating
  BY DEF Creating
<1>1. Creating \subseteq Labels
  BY DEF Labels
<1>2. CASE CheckQuota(p)
  <2>1. PICK s \in Sessions \ issued : Take(p, s, "user") /\ issued' = issued \cup {s}
    BY <1>2 DEF CheckQuota
  <2>2. UNCHANGED <<store, order, status, todo>>
    BY <1>2 DEF CheckQuota, storeVars
  <2>3. /\ \A q \in Threads \ {p} : pc'[q] = pc[q] /\ sid'[q] = sid[q]
        /\ pc'[p] = "user" /\ sid'[p] = s
    BY <2>1 DEF Take, TypeInv, ThreadOK
  <2>4. Fresh' /\ Stored' /\ Listed'
    BY <2>1, <2>2 DEF OriginInv, Fresh, Stored, Listed
  <2>5. \A q \in Threads : pc[q] \in Creating => sid[q] \in issued
    BY DEF OriginInv, Creators
  <2>6. status[s] = "none"
    BY <2>1 DEF OriginInv, Fresh
  <2>7. Creators'
    BY <2>1, <2>2, <2>3, <2>5, <2>6 DEF OriginInv, Creators
  <2>8. Users'
    BY <1>0, <2>2, <2>3 DEF OriginInv, Users
  <2>9. QED
    BY <2>4, <2>7, <2>8 DEF OriginInv
<1>3. CASE RejectCreate(p)
  <2>1. /\ pc[p] \in Creating
        /\ issued' = issued \ {sid[p]}
        /\ UNCHANGED <<store, order, status>>
    BY <1>0, <1>3 DEF RejectCreate, storeVars
  <2>2. /\ \A q \in Threads \ {p} :
            pc'[q] = pc[q] /\ sid'[q] = sid[q] /\ todo'[q] = todo[q]
        /\ pc'[p] = "free" /\ todo'[p] = <<>>
    BY <1>3 DEF RejectCreate, Leave, TypeInv, ThreadOK
  <2>3. Fresh'
    BY <2>1 DEF OriginInv, Fresh, Creators
  <2>4. Stored' /\ Listed'
    BY <2>1, <2>2 DEF OriginInv, Stored, Listed
  <2>5. Creators'
    BY <1>0, <2>1, <2>2 DEF OriginInv, Creators
  <2>6. Users'
    BY <2>1, <2>2 DEF OriginInv, Users
  <2>7. QED
    BY <2>3, <2>4, <2>5, <2>6 DEF OriginInv
<1>4. CASE CheckUser(p)
  BY <1>0, <1>1, <1>4, MoveOrigin DEF CheckUser, Goto, storeVars, sessionVars
<1>5. CASE MakeGroup(p)
  BY <1>0, <1>1, <1>5, MoveOrigin DEF MakeGroup, Goto, storeVars, sessionVars
<1>6. CASE GroupFails(p)
  BY <1>0, <1>1, <1>6, MoveOrigin DEF GroupFails, Goto, storeVars, sessionVars
<1>7. CASE MakeSecret(p) \/ SecretFails(p)
  BY <1>0, <1>1, <1>7, MoveOrigin
  DEF MakeSecret, SecretFails, Goto, storeVars, sessionVars
<1>8. CASE InitRaises(p) \/ Cleanup(p) \/ CleanupFails(p)
  BY <1>8, MoveOrigin DEF InitRaises, Cleanup, CleanupFails, sessionVars
<1>9. CASE StoreSession(p)
  <2>1. /\ pc[p] \in Creating /\ Put(sid[p])
        /\ status' = [status EXCEPT ![sid[p]] = "active"]
        /\ issued' = issued
    BY <1>0, <1>9 DEF StoreSession
  <2>2. /\ sid[p] \in issued /\ sid[p] \in Sessions
        /\ \A q \in Threads \ {p} : pc[q] \in Creating => sid[q] # sid[p]
    BY <1>0, <2>1 DEF OriginInv, Creators, TypeInv, ThreadOK
  <2>3. /\ \A q \in Threads \ {p} :
            pc'[q] = pc[q] /\ sid'[q] = sid[q] /\ todo'[q] = todo[q]
        /\ pc'[p] = "free" /\ todo'[p] = <<>>
    BY <1>9 DEF StoreSession, Leave, TypeInv, ThreadOK
  <2>4. \A s \in Sessions : status[s] # "none" \/ s = sid[p] => status'[s] # "none"
    BY <2>1, <2>2 DEF TypeInv, SessionOK
  <2>5. \A s \in Sessions : s # sid[p] => status'[s] = status[s]
    BY <2>1, <2>2 DEF TypeInv, SessionOK
  <2>6. Fresh'
    BY <2>1, <2>2, <2>5 DEF OriginInv, Fresh
  <2>7. Stored'
    BY <2>1, <2>2, <2>4 DEF OriginInv, Stored, Put, TypeInv, StoreOK
  <2>8. Listed'
    <3>1. ASSUME NEW i \in DOMAIN order' PROVE status'[order'[i]] # "none"
      <4>1. order'[i] \in Sessions
        BY <3>1 DEF TypeInv, StoreOK
      <4>2. order'[i] = sid[p] \/ \E j \in DOMAIN order : order'[i] = order[j]
        BY <2>1, <2>2, <3>1, PutListed DEF TypeInv
      <4>3. QED
        BY <2>4, <4>1, <4>2 DEF OriginInv, Listed
    <3>2. ASSUME NEW q \in Threads, NEW i \in DOMAIN todo'[q]
          PROVE  status'[todo'[q][i]] # "none"
      <4>1. CASE q = p
        BY <2>3, <3>2, <4>1
      <4>2. CASE q # p
        <5>1. todo'[q] = todo[q] /\ todo[q] \in Seq(Sessions)
          BY <2>3, <4>2 DEF TypeInv, ThreadOK
        <5>2. todo[q][i] \in Sessions /\ status[todo[q][i]] # "none"
          BY <3>2, <5>1 DEF OriginInv, Listed
        <5>3. QED
          BY <2>4, <5>1, <5>2
      <4>3. QED
        BY <4>1, <4>2
    <3>3. QED
      BY <3>1, <3>2 DEF Listed
  <2>9. Creators'
    <3>1. ASSUME NEW q \in Threads, pc'[q] \in Creating
          PROVE  /\ q # p /\ pc[q] \in Creating /\ sid'[q] = sid[q]
                 /\ sid[q] \in Sessions /\ sid[q] # sid[p]
      BY <1>0, <2>2, <2>3, <3>1 DEF TypeInv, ThreadOK
    <3>2. QED
      BY <2>1, <2>5, <3>1 DEF OriginInv, Creators
  <2>10. Users'
    <3>1. ASSUME NEW q \in Threads, pc'[q] \notin Creating \cup {"free", "sweep"}
          PROVE  /\ pc[q] \notin Creating \cup {"free", "sweep"}
                 /\ sid'[q] = sid[q] /\ sid[q] \in Sessions
      BY <2>3, <3>1 DEF TypeInv, ThreadOK
    <3>2. QED
      BY <2>4, <3>1 DEF OriginInv, Users
  <2>11. QED
    BY <2>6, <2>7, <2>8, <2>9, <2>10 DEF OriginInv
<1>10. QED
  BY <1>2, <1>3, <1>4, <1>5, <1>6, <1>7, <1>8, <1>9 DEF CreateSession

LEMMA UseOriginInv ==
  ASSUME TypeInv, OriginInv, TypeInv', NEW p \in Threads, UseSession(p)
  PROVE  OriginInv'
<1>0. /\ {"beat", "call", "accrue", "write", "stop", "over", "pop"}
           \cap (Creating \cup {"free", "sweep"}) = {}
      /\ {"beat", "call", "accrue", "write", "stop", "over", "pop"} \subseteq Labels
  BY DEF Creating, Labels, Tearing
<1>1. ASSUME NEW s \in Sessions,
             \/ Beat(p, s) \/ InferExpired(p, s)
             \/ \E force \in Forces : CheckCanInfer(p, s, force)
      PROVE  OriginInv'
  <2>1. /\ status[s] # "none"
        /\ UNCHANGED <<store, order, issued, status, todo>>
    BY <1>1 DEF Beat, InferExpired, CheckCanInfer, OriginInv, Stored, storeVars,
                sessionVars
  <2>2. \E l \in {"beat", "call", "pop"} : Take(p, s, l)
    BY <1>1 DEF Beat, InferExpired, CheckCanInfer
  <2>3. QED
    BY <2>1, <2>2, TakeOrigin
<1>2. CASE BeatPut(p)
  BY <1>0, <1>2, MoveOrigin DEF BeatPut
<1>3. CASE CallFails(p) \/ WithinLimit(p)
  BY <1>3, MoveOrigin DEF CallFails, WithinLimit, sessionVars
<1>4. CASE CallReturns(p)
  BY <1>0, <1>4, MoveOrigin DEF CallReturns, Goto, sessionVars
<1>5. CASE ReadCost(p)
  BY <1>0, <1>5, MoveOrigin DEF ReadCost, sessionVars
<1>6. ASSUME NEW c \in CallCosts, WriteCost(p, c)
      PROVE  OriginInv'
  BY <1>0, <1>6, MoveOrigin DEF WriteCost, Goto
<1>7. CASE HardStop(p)
  BY <1>0, <1>7, MoveOrigin DEF HardStop, sessionVars
<1>8. CASE OverBudget(p)
  <2>1. sid[p] \in Sessions /\ status[sid[p]] # "none"
    BY <1>0, <1>8 DEF OverBudget, OriginInv, Users, TypeInv, ThreadOK
  <2>2. \A s \in Sessions : status'[s] = "none" <=> status[s] = "none"
    BY <1>8, <2>1 DEF OverBudget, TypeInv, SessionOK
  <2>3. QED
    BY <1>8, <2>2, MoveOrigin DEF OverBudget
<1>9. QED
  BY <1>1, <1>2, <1>3, <1>4, <1>5, <1>6, <1>7, <1>8 DEF UseSession

LEMMA AnsweredOrigin ==
  ASSUME TypeInv, OriginInv, TypeInv', NEW p \in Threads,
         issued' = issued, UNCHANGED storeVars,
         \A s \in Sessions : status'[s] = "none" <=> status[s] = "none",
         pc[p] \in {"pop", "scrub"}, Answered(p)
  PROVE  OriginInv'
<1>1. /\ {"pop", "scrub", "over"} \cap (Creating \cup {"free", "sweep"}) = {}
      /\ {"over", "sweep"} \subseteq Labels
  BY DEF Creating, Labels
<1>2. QED
  BY <1>1, MoveOrigin DEF Answered, Goto

LEMMA TeardownOriginInv ==
  ASSUME TypeInv, OriginInv, TypeInv', NEW p \in Threads, Teardown(p)
  PROVE  OriginInv'
<1>0. Tearing \cap (Creating \cup {"free", "sweep"}) = {} /\ Tearing \subseteq Labels
  BY DEF Creating, Labels, Tearing
<1>1. {"pop", "delete", "scrub", "reinsert"} \subseteq Tearing
  BY DEF Tearing
<1>2. ASSUME NEW s \in Sessions, TeardownRequest(p, s)
      PROVE  OriginInv'
  BY <1>2, TakeOrigin DEF TeardownRequest, storeVars, sessionVars
<1>3. CASE Pop(p)
  BY <1>0, <1>1, <1>3, MoveOrigin DEF Pop, Goto, sessionVars
<1>4. CASE AlreadyGone(p)
  BY <1>4, AnsweredOrigin DEF AlreadyGone, sessionVars
<1>5. CASE Delete(p)
  BY <1>0, <1>1, <1>5, MoveOrigin DEF Delete, Goto, sessionVars
<1>6. CASE DestroyFails(p) \/ DeleteFails(p)
  BY <1>0, <1>1, <1>6, MoveOrigin DEF DestroyFails, DeleteFails, Goto, sessionVars
<1>7. CASE DestroyRaises(p)
  BY <1>7, MoveOrigin DEF DestroyRaises, sessionVars
<1>8. CASE Reinsert(p)
  BY <1>0, <1>1, <1>8, MoveOrigin DEF Reinsert, sessionVars
<1>9. CASE Scrub(p)
  <2>1. sid[p] \in Sessions /\ status[sid[p]] # "none"
    BY <1>0, <1>1, <1>9 DEF Scrub, OriginInv, Users, TypeInv, ThreadOK
  <2>2. \A s \in Sessions : status'[s] = "none" <=> status[s] = "none"
    BY <1>9, <2>1 DEF Scrub, TypeInv, SessionOK
  <2>3. QED
    BY <1>9, <2>2, AnsweredOrigin DEF Scrub
<1>10. QED
  BY <1>2, <1>3, <1>4, <1>5, <1>6, <1>7, <1>8, <1>9 DEF Teardown

LEMMA SweepOriginInv ==
  ASSUME TypeInv, OriginInv, TypeInv', NEW p \in Threads, Sweep(p)
  PROVE  OriginInv'
<1>0. {"free", "sweep", "pop"} \cap Creating = {}
  BY DEF Creating
<1>1. UNCHANGED <<store, order, issued, status>>
  BY DEF Sweep, SweepStart, SweepSkip, SweepReap, SweepEnd, storeVars, sessionVars
<1>2. /\ \A s \in store' : status[s] # "none"
      /\ \A i \in DOMAIN order' : status[order'[i]] # "none"
  BY <1>1 DEF OriginInv, Stored, Listed
<1>3. CASE SweepStart(p)
  <2>1. \A q \in Threads : todo'[q] = IF q = p THEN order ELSE todo[q]
    BY <1>3 DEF SweepStart, TypeInv, ThreadOK
  <2>2. \A q \in Threads : \A i \in DOMAIN todo'[q] : status[todo'[q][i]] # "none"
    BY <2>1 DEF OriginInv, Listed
  <2>3. pc' = [pc EXCEPT ![p] = "sweep"] /\ sid' = sid
    BY <1>3 DEF SweepStart
  <2>4. pc'[p] = "sweep" /\ \A q \in Threads \ {p} : pc'[q] = pc[q]
    BY <2>3 DEF TypeInv, ThreadOK
  <2>5. QED
    BY <1>0, <1>1, <1>2, <2>2, <2>3, <2>4, OriginKept
<1>4. CASE SweepSkip(p) \/ SweepReap(p)
  <2>1. /\ todo[p] \in Seq(Sessions) /\ todo[p] # <<>>
        /\ todo' = [todo EXCEPT ![p] = Tail(todo[p])]
    BY <1>4 DEF SweepSkip, SweepReap, TypeInv, ThreadOK
  <2>2. /\ \A i \in DOMAIN Tail(todo[p]) :
            i + 1 \in DOMAIN todo[p] /\ Tail(todo[p])[i] = todo[p][i + 1]
        /\ 1 \in DOMAIN todo[p] /\ Head(todo[p]) = todo[p][1]
    BY <2>1
  <2>3. \A q \in Threads : \A i \in DOMAIN todo'[q] : status[todo'[q][i]] # "none"
    BY <2>1, <2>2 DEF OriginInv, Listed, TypeInv, ThreadOK
  <2>4. status[Head(todo[p])] # "none"
    BY <2>2 DEF OriginInv, Listed
  <2>5. \A q \in Threads \ {p} : pc'[q] = pc[q] /\ sid'[q] = sid[q]
    BY <1>4 DEF SweepSkip, SweepReap, TypeInv, ThreadOK
  <2>6. \/ pc'[p] = "sweep"
        \/ pc'[p] = "pop" /\ sid'[p] = Head(todo[p])
    BY <1>4 DEF SweepSkip, SweepReap, TypeInv, ThreadOK
  <2>7. QED
    BY <1>0, <1>1, <1>2, <2>3, <2>4, <2>5, <2>6, OriginKept
<1>5. CASE SweepEnd(p)
  BY <1>1, <1>5, MoveOrigin DEF SweepEnd
<1>6. QED
  BY <1>3, <1>4, <1>5 DEF Sweep

LEMMA StepOriginInv == TypeInv /\ OriginInv /\ [Next]_vars => OriginInv'
<1> SUFFICES ASSUME TypeInv, OriginInv, [Next]_vars PROVE OriginInv'
  OBVIOUS
<1>1. TypeInv'
  BY StepTypeInv
<1>2. ASSUME NEW s \in Sessions, Expire(s) \/ IdleOut(s)
      PROVE  OriginInv'
  BY <1>2 DEF Expire, IdleOut, OriginInv, Fresh, Stored, Listed, Creators, Users,
              storeVars, threadVars
<1>3. CASE UNCHANGED vars
  BY <1>3 DEF vars, OriginInv, Fresh, Stored, Listed, Creators, Users
<1>4. QED
  BY <1>1, <1>2, <1>3, CreateOriginInv, UseOriginInv, TeardownOriginInv,
     SweepOriginInv DEF Next

LEMMA OriginCorrect == Spec => [](TypeInv /\ OriginInv)
BY InitTypeInv, StepTypeInv, InitOriginInv, StepOriginInv, PTL DEF Spec

-----------------------------------------------------------------------------
(* Resources stay in sight with the sdk backend.  NeverOrphaned is kept    *)
(* because only a create makes resources, of a session nobody knows yet;   *)
(* StatusIsTrue because a teardown reaches its last step only after the    *)
(* delete, and nothing makes them again.                                   *)

Sighted ==
    \A s \in Sessions : status[s] # "none" /\ res[s] # "none" =>
        s \in store \/ Doing(s, {"delete", "reinsert"})

TornGone == \A s \in Sessions : status[s] = "torn_down" => res[s] = "none"

ScrubbedGone == \A p \in Threads : pc[p] = "scrub" => res[sid[p]] = "none"

SightInv == Sighted /\ TornGone /\ ScrubbedGone

LEMMA InitSightInv == Init => SightInv
BY DEF Init, SightInv, Sighted, TornGone, ScrubbedGone

LEMMA SightKept ==
  ASSUME TypeInv, SightInv, TypeInv', NEW p \in Threads,
         \A q \in Threads \ {p} : pc'[q] = pc[q] /\ sid'[q] = sid[q],
         \A s \in Sessions : status'[s] # "none" /\ res'[s] # "none" =>
            s \in store' \/ (status[s] # "none" /\ res[s] # "none"),
         \A s \in store : s \in store' \/ (s = sid'[p] /\ pc'[p] = "delete"),
         pc[p] \in {"delete", "reinsert"} =>
            \/ res'[sid[p]] = "none" \/ sid[p] \in store'
            \/ sid'[p] = sid[p] /\ pc'[p] \in {"delete", "reinsert"},
         \A s \in Sessions : status'[s] = "torn_down" => res'[s] = "none",
         pc'[p] = "scrub" => res'[sid'[p]] = "none",
         \A q \in Threads \ {p} : pc[q] = "scrub" => res'[sid[q]] = "none"
  PROVE  SightInv'
<1>1. Sighted'
  <2>1. ASSUME NEW s \in Sessions, status'[s] # "none", res'[s] # "none",
               s \notin store'
        PROVE  \E q \in Threads : sid'[q] = s /\ pc'[q] \in {"delete", "reinsert"}
    <3>1. status[s] # "none" /\ res[s] # "none"
      BY <2>1
    <3>2. CASE s \in store
      BY <2>1, <3>2
    <3>3. CASE s \notin store
      <4>1. PICK q \in Threads : sid[q] = s /\ pc[q] \in {"delete", "reinsert"}
        BY <3>1, <3>3 DEF SightInv, Sighted, Doing
      <4>2. QED
        BY <2>1, <4>1
    <3>4. QED
      BY <3>2, <3>3
  <2>2. QED
    BY <2>1 DEF Sighted, Doing
<1>2. TornGone'
  BY DEF TornGone
<1>3. ScrubbedGone'
  BY DEF ScrubbedGone
<1>4. QED
  BY <1>1, <1>2, <1>3 DEF SightInv

\* A step that touches neither resources nor statuses, and removes nothing.
LEMMA QuietSight ==
  ASSUME TypeInv, SightInv, TypeInv', NEW p \in Threads,
         \A q \in Threads \ {p} : pc'[q] = pc[q] /\ sid'[q] = sid[q],
         UNCHANGED <<status, res>>, store \subseteq store',
         pc[p] \notin {"delete", "reinsert"}, pc'[p] # "scrub"
  PROVE  SightInv'
BY SightKept DEF SightInv, Sighted, TornGone, ScrubbedGone

\* What the thread's moves leave alone.
LEMMA MoveFrame ==
  ASSUME TypeInv, NEW p \in Threads, NEW l,
         \/ Goto(p, l)
         \/ Leave(p) /\ l = "free"
         \/ \E s \in Sessions : Take(p, s, l)
  PROVE  /\ \A q \in Threads \ {p} : pc'[q] = pc[q] /\ sid'[q] = sid[q]
         /\ pc'[p] = l
BY DEF TypeInv, ThreadOK, Goto, Leave, Take

LEMMA CreateSightInv ==
  ASSUME backend = "sdk", TypeInv, OriginInv, SightInv, TypeInv',
         NEW p \in Threads, CreateSession(p)
  PROVE  SightInv'
<1>0. \A l \in {"user", "group", "secret", "cleanup", "put"} : l \in Creating
  BY DEF Creating
<1>1. CASE CheckQuota(p)
  <2>1. \E s \in Sessions : Take(p, s, "user")
    BY <1>1 DEF CheckQuota
  <2>2. QED
    BY <1>1, <2>1, MoveFrame, QuietSight
    DEF CheckQuota, Take, storeVars, cloudVars
<1>2. CASE CheckUser(p)
  BY <1>2, MoveFrame, QuietSight DEF CheckUser, storeVars, sessionVars, cloudVars
<1>3. CASE RejectCreate(p)
  BY <1>3, MoveFrame, QuietSight DEF RejectCreate, storeVars, cloudVars
<1>4. CASE MakeSecret(p) \/ SecretFails(p)
  <2>1. Goto(p, "put") \/ Goto(p, "cleanup")
    BY <1>4 DEF MakeSecret, SecretFails
  <2>2. QED
    BY <1>4, <2>1, MoveFrame, QuietSight
    DEF MakeSecret, SecretFails, storeVars, sessionVars
<1>5. CASE InitRaises(p) \/ CleanupFails(p)
  BY <1>5, MoveFrame, QuietSight
  DEF InitRaises, CleanupFails, storeVars, sessionVars, cloudVars
\* The steps that make resources, or clean them up.
<1>6. ASSUME NEW r \in {"none", "partial", "full"}, NEW l \in {"secret", "cleanup", "free"},
             pc[p] \in {"group", "cleanup"}, res' = [res EXCEPT ![sid[p]] = r],
             UNCHANGED <<store, status>>,
             Goto(p, l) \/ (Leave(p) /\ l = "free")
      PROVE  SightInv'
  <2>1. sid[p] \in Sessions /\ status[sid[p]] = "none"
    BY <1>0, <1>6 DEF OriginInv, Creators, TypeInv, ThreadOK
  <2>2. \A s \in Sessions : status[s] # "none" => res'[s] = res[s]
    BY <1>6, <2>1 DEF TypeInv, CloudOK
  <2>3. ASSUME NEW q \in Threads, pc[q] = "scrub"
        PROVE  res'[sid[q]] = "none"
    <3>1. sid[q] \in Sessions /\ status[sid[q]] # "none"
      BY <2>3 DEF OriginInv, Users, Creating, TypeInv, ThreadOK
    <3>2. QED
      BY <2>2, <2>3, <3>1 DEF SightInv, ScrubbedGone
  <2>4. \A s \in Sessions : status'[s] = "torn_down" => res'[s] = "none"
    BY <1>6, <2>2 DEF SightInv, TornGone
  <2>5. \A q \in Threads \ {p} : pc'[q] = pc[q] /\ sid'[q] = sid[q]
    BY <1>6, MoveFrame
  <2>6. pc'[p] = l /\ l \notin {"scrub"}
    BY <1>6, MoveFrame
  <2>7. QED
    BY <1>6, <2>2, <2>3, <2>4, <2>5, <2>6, SightKept
<1>7. CASE MakeGroup(p)
  BY <1>6, <1>7 DEF MakeGroup, storeVars, sessionVars
<1>8. CASE GroupFails(p)
  BY <1>6, <1>8 DEF GroupFails, storeVars, sessionVars
<1>9. CASE Cleanup(p)
  BY <1>6, <1>9 DEF Cleanup, storeVars, sessionVars
<1>10. CASE StoreSession(p)
  <2>1. /\ pc[p] = "put" /\ UNCHANGED res
        /\ store' = store \cup {sid[p]}
        /\ status' = [status EXCEPT ![sid[p]] = "active"]
    BY <1>10 DEF StoreSession, Put, cloudVars
  <2>2. \A s \in Sessions : s # sid[p] => status'[s] = status[s]
    BY <2>1 DEF TypeInv, SessionOK
  <2>3. \A s \in Sessions : status'[s] = "torn_down" => status[s] = "torn_down"
    BY <2>1 DEF TypeInv, SessionOK
  <2>4. /\ \A q \in Threads \ {p} : pc'[q] = pc[q] /\ sid'[q] = sid[q]
        /\ pc'[p] = "free"
    BY <1>10, MoveFrame DEF StoreSession
  <2>5. /\ \A s \in Sessions : status'[s] = "torn_down" => res'[s] = "none"
        /\ \A q \in Threads \ {p} : pc[q] = "scrub" => res'[sid[q]] = "none"
    BY <2>1, <2>3 DEF SightInv, TornGone, ScrubbedGone
  <2>6. QED
    BY <2>1, <2>2, <2>4, <2>5, SightKept
<1>11. QED
  BY <1>1, <1>2, <1>3, <1>4, <1>5, <1>7, <1>8, <1>9, <1>10 DEF CreateSession

LEMMA UseSightInv ==
  ASSUME TypeInv, OriginInv, SightInv, TypeInv', NEW p \in Threads, UseSession(p)
  PROVE  SightInv'
<1>1. ASSUME NEW s \in Sessions,
             \/ Beat(p, s) \/ InferExpired(p, s)
             \/ \E force \in Forces : CheckCanInfer(p, s, force)
      PROVE  SightInv'
  <2>1. PICK l \in {"beat", "call", "pop"} : Take(p, s, l)
    BY <1>1 DEF Beat, InferExpired, CheckCanInfer
  <2>2. UNCHANGED <<status, res, store>>
    BY <1>1 DEF Beat, InferExpired, CheckCanInfer, storeVars, sessionVars, cloudVars
  <2>3. /\ \A q \in Threads \ {p} : pc'[q] = pc[q] /\ sid'[q] = sid[q]
        /\ pc'[p] = l /\ pc[p] = "free"
    BY <2>1, MoveFrame DEF Take
  <2>4. QED
    BY <2>2, <2>3, QuietSight
<1>2. CASE BeatPut(p)
  BY <1>2, MoveFrame, QuietSight DEF BeatPut, Put, cloudVars
<1>3. CASE CallFails(p) \/ WithinLimit(p)
  BY <1>3, MoveFrame, QuietSight
  DEF CallFails, WithinLimit, storeVars, sessionVars, cloudVars
<1>4. CASE CallReturns(p)
  BY <1>4, MoveFrame, QuietSight DEF CallReturns, storeVars, sessionVars, cloudVars
<1>5. CASE ReadCost(p) \/ HardStop(p)
  <2>1. /\ \A q \in Threads \ {p} : pc'[q] = pc[q] /\ sid'[q] = sid[q]
        /\ pc'[p] \in {"write", "pop"} /\ pc[p] \in {"accrue", "stop"}
    BY <1>5 DEF ReadCost, HardStop, TypeInv, ThreadOK
  <2>2. UNCHANGED <<status, res, store>>
    BY <1>5 DEF ReadCost, HardStop, storeVars, sessionVars, cloudVars
  <2>3. QED
    BY <2>1, <2>2, QuietSight
<1>6. ASSUME NEW c \in CallCosts, WriteCost(p, c)
      PROVE  SightInv'
  BY <1>6, MoveFrame, QuietSight DEF WriteCost, Put, cloudVars
<1>7. CASE OverBudget(p)
  <2>1. sid[p] \in Sessions /\ status[sid[p]] # "none"
    BY <1>7 DEF OverBudget, OriginInv, Users, Creating, TypeInv, ThreadOK
  <2>2. /\ pc[p] = "over" /\ UNCHANGED <<store, res>>
        /\ \A s \in Sessions : status'[s] # "none" => status[s] # "none"
        /\ \A s \in Sessions : status'[s] = "torn_down" => status[s] = "torn_down"
    BY <1>7, <2>1 DEF OverBudget, TypeInv, SessionOK, storeVars, cloudVars
  <2>3. /\ \A s \in Sessions : status'[s] = "torn_down" => res'[s] = "none"
        /\ \A q \in Threads : pc[q] = "scrub" => res'[sid[q]] = "none"
    BY <2>2 DEF SightInv, TornGone, ScrubbedGone
  <2>4. /\ \A q \in Threads \ {p} : pc'[q] = pc[q] /\ sid'[q] = sid[q]
        /\ pc'[p] = "free"
    BY <1>7, MoveFrame DEF OverBudget
  <2>5. QED
    BY <2>2, <2>3, <2>4, SightKept
<1>8. QED
  BY <1>1, <1>2, <1>3, <1>4, <1>5, <1>6, <1>7 DEF UseSession

LEMMA TeardownSightInv ==
  ASSUME backend = "sdk", TypeInv, OriginInv, SightInv, TypeInv',
         NEW p \in Threads, Teardown(p)
  PROVE  SightInv'
<1>0. ASSUME pc[p] \in {"pop", "delete", "reinsert", "scrub"}
      PROVE  sid[p] \in Sessions /\ status[sid[p]] # "none"
  BY <1>0 DEF OriginInv, Users, Creating, TypeInv, ThreadOK
<1>1. ASSUME NEW s \in Sessions, TeardownRequest(p, s)
      PROVE  SightInv'
  BY <1>1, MoveFrame, QuietSight
  DEF TeardownRequest, Take, storeVars, sessionVars, cloudVars
<1>a. ASSUME Answered(p)
      PROVE  /\ \A q \in Threads \ {p} : pc'[q] = pc[q] /\ sid'[q] = sid[q]
             /\ pc'[p] # "scrub"
  BY <1>a, MoveFrame DEF Answered
<1>2. CASE AlreadyGone(p)
  BY <1>2, <1>a, QuietSight DEF AlreadyGone, storeVars, sessionVars, cloudVars
<1>3. CASE Pop(p)
  <2>1. /\ \A q \in Threads \ {p} : pc'[q] = pc[q] /\ sid'[q] = sid[q]
        /\ pc'[p] = "delete" /\ sid'[p] = sid[p] /\ pc[p] = "pop"
    BY <1>3, MoveFrame DEF Pop, Goto
  <2>2. store' = store \ {sid[p]} /\ UNCHANGED <<status, res>>
    BY <1>3 DEF Pop, Remove, sessionVars, cloudVars
  <2>3. QED
    BY <2>1, <2>2, SightKept DEF SightInv, TornGone, ScrubbedGone
<1>4. CASE Delete(p)
  <2>1. /\ \A q \in Threads \ {p} : pc'[q] = pc[q] /\ sid'[q] = sid[q]
        /\ pc'[p] = "scrub" /\ sid'[p] = sid[p] /\ pc[p] = "delete"
    BY <1>4, MoveFrame DEF Delete, Goto
  <2>2. /\ UNCHANGED <<store, status>>
        /\ \A s \in Sessions : res'[s] = IF s = sid[p] THEN "none" ELSE res[s]
    BY <1>0, <1>4, <2>1 DEF Delete, TypeInv, CloudOK, storeVars, sessionVars
  <2>3. ASSUME NEW q \in Threads, pc[q] = "scrub" PROVE res'[sid[q]] = "none"
    BY <2>2, <2>3 DEF SightInv, ScrubbedGone, TypeInv, ThreadOK
  <2>4. \A s \in Sessions : status'[s] = "torn_down" => res'[s] = "none"
    BY <2>2 DEF SightInv, TornGone
  <2>5. sid[p] \in Sessions
    BY <1>0, <2>1
  <2>6. QED
    BY <2>1, <2>2, <2>3, <2>4, <2>5, SightKept
<1>5. CASE DeleteFails(p)
  <2>1. /\ \A q \in Threads \ {p} : pc'[q] = pc[q] /\ sid'[q] = sid[q]
        /\ pc'[p] = "reinsert" /\ sid'[p] = sid[p]
    BY <1>5, MoveFrame DEF DeleteFails, Goto
  <2>2. UNCHANGED <<store, status, res>>
    BY <1>5 DEF DeleteFails, storeVars, sessionVars, cloudVars
  <2>3. QED
    BY <2>1, <2>2, SightKept DEF SightInv, TornGone, ScrubbedGone
<1>6. CASE Reinsert(p)
  <2>1. /\ \A q \in Threads \ {p} : pc'[q] = pc[q] /\ sid'[q] = sid[q]
        /\ pc'[p] = "free"
    BY <1>6, MoveFrame DEF Reinsert
  <2>2. store' = store \cup {sid[p]} /\ UNCHANGED <<status, res>>
    BY <1>6 DEF Reinsert, Put, sessionVars, cloudVars
  <2>3. QED
    BY <2>1, <2>2, SightKept DEF SightInv, TornGone, ScrubbedGone
<1>7. CASE Scrub(p)
  <2>1. /\ \A q \in Threads \ {p} : pc'[q] = pc[q] /\ sid'[q] = sid[q]
        /\ pc'[p] # "scrub" /\ pc[p] = "scrub"
    BY <1>7, <1>a DEF Scrub
  <2>2. /\ UNCHANGED <<store, res>>
        /\ \A s \in Sessions :
             status'[s] = IF s = sid[p] THEN "torn_down" ELSE status[s]
    BY <1>0, <1>7 DEF Scrub, TypeInv, SessionOK, storeVars
  <2>3. sid[p] \in Sessions /\ status[sid[p]] # "none" /\ res[sid[p]] = "none"
    BY <1>0, <2>1 DEF SightInv, ScrubbedGone
  <2>4. \A s \in Sessions : status'[s] = "torn_down" => res'[s] = "none"
    BY <2>2, <2>3 DEF SightInv, TornGone
  <2>5. \A q \in Threads : pc[q] = "scrub" => res'[sid[q]] = "none"
    BY <2>2 DEF SightInv, ScrubbedGone
  <2>6. QED
    BY <2>1, <2>2, <2>3, <2>4, <2>5, SightKept
<1>8. QED
  BY <1>1, <1>2, <1>3, <1>4, <1>5, <1>6, <1>7
  DEF Teardown, DestroyFails, DestroyRaises

LEMMA SweepSightInv ==
  ASSUME TypeInv, SightInv, TypeInv', NEW p \in Threads, Sweep(p)
  PROVE  SightInv'
<1>1. UNCHANGED <<status, res, store>> /\ pc[p] \in {"free", "sweep"}
  BY DEF Sweep, SweepStart, SweepSkip, SweepReap, SweepEnd, storeVars, sessionVars,
         cloudVars
<1>2. \A q \in Threads \ {p} : pc'[q] = pc[q] /\ sid'[q] = sid[q]
  BY DEF Sweep, SweepStart, SweepSkip, SweepReap, SweepEnd, Leave, TypeInv, ThreadOK
<1>3. pc'[p] \in {"free", "sweep", "pop"}
  BY DEF Sweep, SweepStart, SweepSkip, SweepReap, SweepEnd, Leave, TypeInv, ThreadOK
<1>4. QED
  BY <1>1, <1>2, <1>3, QuietSight

LEMMA StepSightInv ==
  backend = "sdk" /\ TypeInv /\ OriginInv /\ SightInv /\ [Next]_vars => SightInv'
<1> SUFFICES ASSUME backend = "sdk", TypeInv, OriginInv, SightInv, [Next]_vars
             PROVE  SightInv'
  OBVIOUS
<1>1. TypeInv'
  BY StepTypeInv
<1>2. CASE (\E s \in Sessions : Expire(s) \/ IdleOut(s)) \/ UNCHANGED vars
  <2>1. UNCHANGED <<store, status, res, pc, sid>>
    BY <1>2 DEF Expire, IdleOut, storeVars, cloudVars, threadVars, vars
  <2>2. QED
    BY <2>1 DEF SightInv, Sighted, TornGone, ScrubbedGone, Doing
<1>3. QED
  BY <1>1, <1>2, CreateSightInv, UseSightInv, TeardownSightInv, SweepSightInv DEF Next

\* The invariant of the sdk backend, and everything it rests on.
SdkInv == TypeInv /\ OriginInv /\ (backend = "sdk" => SightInv)

LEMMA SdkCorrect == Spec => []SdkInv
<1>1. Init => SdkInv
  BY InitTypeInv, InitOriginInv, InitSightInv DEF SdkInv
<1>2. SdkInv /\ [Next]_vars => SdkInv'
  <2> SUFFICES ASSUME SdkInv, [Next]_vars PROVE SdkInv'
    OBVIOUS
  <2>1. backend' = backend
    BY DEF Next, vars
  <2>2. QED
    BY <2>1, StepTypeInv, StepOriginInv, StepSightInv DEF SdkInv
<1>3. QED
  BY <1>1, <1>2, PTL DEF Spec

\* With the sdk backend, for any number of threads and sessions and every
\* interleaving of creates, heartbeats, inference calls, teardowns and sweeps:
\* a created session whose resources still exist is in the store, or a thread
\* is deleting them and will put it back if that fails.
THEOREM NothingOrphaned == Spec => []NeverOrphaned
<1>1. SdkInv => NeverOrphaned
  BY DEF SdkInv, SightInv, Sighted, NeverOrphaned
<1>2. QED
  BY <1>1, SdkCorrect, PTL

\* Only the last step of a teardown, or one that finds nothing, answers.
LEMMA ToldBy ==
  ASSUME TypeInv, Next, NEW p \in Threads, pc[p] \in {"pop", "scrub"},
         pc'[p] \notin Tearing
  PROVE  AlreadyGone(p) \/ Scrub(p)
<1>1. pc'[p] # pc[p]
  BY DEF Tearing
<1>2. PICK q \in Threads :
        CreateSession(q) \/ UseSession(q) \/ Teardown(q) \/ Sweep(q)
  BY <1>1 DEF Next, Expire, IdleOut, threadVars
<1>3. q = p
  <2>1. CASE CreateSession(q)
    BY <1>1, <2>1 DEF CreateSession, CheckQuota, CheckUser, RejectCreate, MakeGroup,
       GroupFails, InitRaises, MakeSecret, SecretFails, Cleanup, CleanupFails,
       StoreSession, Take, Goto, Leave, TypeInv, ThreadOK
  <2>2. CASE UseSession(q)
    BY <1>1, <2>2 DEF UseSession, Beat, BeatPut, CheckCanInfer, InferExpired,
       CallFails, CallReturns, ReadCost, WriteCost, WithinLimit, HardStop, OverBudget,
       Take, Goto, Leave, TypeInv, ThreadOK
  <2>3. CASE Teardown(q)
    BY <1>1, <2>3 DEF Teardown, TeardownRequest, Pop, AlreadyGone, Delete,
       DestroyFails, DestroyRaises, DeleteFails, Reinsert, Scrub, Answered, Take,
       Goto, Leave, TypeInv, ThreadOK
  <2>4. CASE Sweep(q)
    BY <1>1, <2>4 DEF Sweep, SweepStart, SweepSkip, SweepReap, SweepEnd, Leave,
       TypeInv, ThreadOK
  <2>5. QED
    BY <1>2, <2>1, <2>2, <2>3, <2>4
<1>4. CASE CreateSession(p)
  BY <1>4 DEF CreateSession, CheckQuota, CheckUser, RejectCreate, MakeGroup, GroupFails,
     InitRaises, MakeSecret, SecretFails, Cleanup, CleanupFails, StoreSession, Take
<1>5. CASE UseSession(p)
  BY <1>5 DEF UseSession, Beat, BeatPut, CheckCanInfer, InferExpired, CallFails,
     CallReturns, ReadCost, WriteCost, WithinLimit, HardStop, OverBudget, Take
<1>6. CASE Sweep(p)
  BY <1>6 DEF Sweep, SweepStart, SweepSkip, SweepReap, SweepEnd
<1>7. CASE Pop(p)
  BY <1>7 DEF Pop, Goto, Tearing, TypeInv, ThreadOK
<1>8. QED
  BY <1>2, <1>3, <1>4, <1>5, <1>6, <1>7
  DEF Teardown, TeardownRequest, Take, Delete, DestroyFails, DestroyRaises,
      DeleteFails, Reinsert

\* The step that answers "torn_down": the session was deleted by the thread
\* itself, or was not found, and then it has no resources or another thread
\* holds it.
LEMMA ToldIsTrue ==
  ASSUME SdkInv, Next, backend = "sdk", NEW p \in Threads, Told(p)
  PROVE  \/ res'[sid[p]] = "none"
         \/ \E q \in Threads \ {p} :
                sid[q] = sid[p] /\ pc[q] \in {"delete", "reinsert"}
<1>1. pc[p] \in {"pop", "scrub"} /\ pc'[p] \notin Tearing
  BY DEF Told
<1>2. sid[p] \in Sessions /\ status[sid[p]] # "none"
  BY <1>1 DEF SdkInv, OriginInv, Users, Creating, TypeInv, ThreadOK
<1>3. AlreadyGone(p) \/ Scrub(p)
  BY <1>1, ToldBy DEF SdkInv
<1>4. UNCHANGED res
  BY <1>3 DEF AlreadyGone, Scrub, cloudVars
<1>5. CASE Scrub(p)
  BY <1>4, <1>5 DEF Scrub, SdkInv, SightInv, ScrubbedGone
<1>6. CASE AlreadyGone(p)
  <2>1. sid[p] \notin store /\ pc[p] = "pop"
    BY <1>6 DEF AlreadyGone
  <2>2. res[sid[p]] = "none" \/ Doing(sid[p], {"delete", "reinsert"})
    BY <1>2, <2>1 DEF SdkInv, SightInv, Sighted
  <2>3. QED
    BY <1>4, <2>1, <2>2 DEF Doing
<1>7. QED
  BY <1>3, <1>5, <1>6

\* With the sdk backend, a session's status says that it is torn down only when
\* its resources are gone, and a teardown answers so only then or while another
\* thread's delete is under way or about to put the session back, whatever
\* heartbeats and other teardowns do.
THEOREM TornDownIsTrue == Spec => TornDownMeansGone
<1>1. SdkInv /\ SdkInv' /\ [Next]_vars => [StatusIsTrue' /\ AnswerIsTrue]_vars
  <2>1. SdkInv' => StatusIsTrue'
    BY DEF SdkInv, SightInv, TornGone, StatusIsTrue
  <2>2. SdkInv /\ [Next]_vars => [AnswerIsTrue]_vars
    BY ToldIsTrue DEF AnswerIsTrue
  <2>3. QED
    BY <2>1, <2>2
<1>2. QED
  BY <1>1, SdkCorrect, PTL DEF Spec, TornDownMeansGone

-----------------------------------------------------------------------------
(* The quota, with every backend.  What may be in the store later is       *)
(* claimed now: it is in the store, or a thread is on its way to put it    *)
(* there.  Only the quota check claims something new; at that moment the   *)
(* store is below its limit, and each thread claims at most one session.   *)

Storing ==
    {"user", "group", "secret", "put", "beat", "accrue", "write", "delete", "reinsert"}

Claimed == store \cup {s \in Sessions : Doing(s, Storing)}

QuotaInv == Cardinality(Claimed) <= MaxActive + Cardinality(Threads) - 1

LEMMA ClaimedFinite ==
  ASSUME TypeInv
  PROVE  IsFiniteSet(Claimed) /\ Cardinality(Claimed) \in Nat
<1>1. Claimed \in SUBSET Sessions
  BY DEF Claimed, TypeInv, StoreOK
<1>2. QED
  BY <1>1, FS_Subset, FS_CardinalityType, FoundryAssumption

LEMMA ThreadsFinite == Cardinality(Threads) \in Nat /\ Cardinality(Threads) # 0
BY FS_CardinalityType, FS_EmptySet, FoundryAssumption

LEMMA InitQuotaInv == Init => QuotaInv
<1> SUFFICES ASSUME Init PROVE QuotaInv
  OBVIOUS
<1>1. Claimed = {}
  BY DEF Init, Claimed, Doing, Storing
<1>2. QED
  BY <1>1, FS_EmptySet, ThreadsFinite, FoundryAssumption DEF QuotaInv

\* The values of a function are no more than its arguments.
LEMMA ValuesBound ==
  ASSUME NEW S, IsFiniteSet(S), NEW X, NEW f \in [S -> X]
  PROVE  /\ IsFiniteSet({f[x] : x \in S})
         /\ Cardinality({f[x] : x \in S}) <= Cardinality(S)
<1> DEFINE T == {f[x] : x \in S}
<1>1. f \in Surjection(S, T)
  BY DEF Surjection
<1>2. QED
  BY <1>1, FS_Surjection

\* A step of p after which no session is claimed that was not before.
LEMMA QuotaKept ==
  ASSUME TypeInv, QuotaInv, TypeInv', NEW p \in Threads,
         \A q \in Threads \ {p} : pc'[q] = pc[q] /\ sid'[q] = sid[q],
         \A s \in store' :
            s \in store \/ (s = sid[p] /\ pc[p] \in Storing),
         pc'[p] \in Storing =>
            \/ sid'[p] \in store
            \/ sid'[p] = sid[p] /\ pc[p] \in Storing
  PROVE  QuotaInv'
<1>1. \A s \in Sessions : s \in Claimed' => s \in Claimed
  BY DEF Claimed, Doing
<1>2. Claimed' \subseteq Claimed
  BY <1>1 DEF Claimed, TypeInv, StoreOK
<1>3. Cardinality(Claimed') <= Cardinality(Claimed)
  BY <1>2, ClaimedFinite, FS_Subset
<1>4. Cardinality(Claimed') \in Nat
  BY <1>2, ClaimedFinite, FS_Subset, FS_CardinalityType
<1>5. QED
  BY <1>3, <1>4, ClaimedFinite, ThreadsFinite, FoundryAssumption DEF QuotaInv

LEMMA CheckQuotaInv ==
  ASSUME TypeInv, TypeInv', NEW p \in Threads, CheckQuota(p)
  PROVE  QuotaInv'
<1> DEFINE held == {sid'[q] : q \in Threads}
<1>1. Claimed' \subseteq store \cup held
  BY DEF CheckQuota, Claimed, Doing, storeVars
<1>2. IsFiniteSet(held) /\ Cardinality(held) <= Cardinality(Threads)
  <2>1. sid' \in [Threads -> Sessions \cup {NoSession}]
    BY DEF TypeInv, ThreadOK
  <2>2. IsFiniteSet(Threads)
    BY FoundryAssumption
  <2>3. /\ IsFiniteSet({sid'[q] : q \in Threads})
        /\ Cardinality({sid'[q] : q \in Threads}) <= Cardinality(Threads)
    BY ONLY <2>1, <2>2, ValuesBound
  <2>4. QED
    BY <2>3
<1>3. IsFiniteSet(store) /\ Cardinality(store) \in Nat
  BY FS_Subset, FS_CardinalityType, FoundryAssumption DEF TypeInv, StoreOK
<1>4. Cardinality(held) \in Nat
  BY <1>2, FS_CardinalityType
<1> HIDE DEF held
<1>5. /\ IsFiniteSet(store \cup held)
      /\ Cardinality(store \cup held) <= Cardinality(store) + Cardinality(held)
  <2>1. store \cap held \in SUBSET store
    OBVIOUS
  <2>2. Cardinality(store \cap held) \in Nat
    BY <1>3, <2>1, FS_Subset, FS_CardinalityType
  <2>3. /\ IsFiniteSet(store \cup held)
        /\ Cardinality(store \cup held)
             = Cardinality(store) + Cardinality(held) - Cardinality(store \cap held)
    BY <1>2, <1>3, FS_Union
  <2>4. QED
    BY <1>3, <1>4, <2>2, <2>3
<1>6. /\ Cardinality(Claimed') <= Cardinality(store \cup held)
      /\ Cardinality(Claimed') \in Nat /\ Cardinality(store \cup held) \in Nat
  BY <1>1, <1>5, FS_Subset, FS_CardinalityType
<1>7. Cardinality(store) <= MaxActive - 1
  BY <1>3, FoundryAssumption DEF CheckQuota
<1>8. QED
  BY <1>2, <1>3, <1>4, <1>5, <1>6, <1>7, ThreadsFinite, FoundryAssumption DEF QuotaInv

\* A thread goes on with what it has claimed, or needs no claim any more.
LEMMA MoveQuota ==
  ASSUME TypeInv, QuotaInv, TypeInv', NEW p \in Threads,
         \/ Leave(p)
         \/ \E l \in Labels :
             /\ pc' = [pc EXCEPT ![p] = l] /\ sid' = sid
             /\ l \in Storing => pc[p] \in Storing \/ sid[p] \in store,
         \/ store' \subseteq store
         \/ pc[p] \in Storing /\ Put(sid[p])
  PROVE  QuotaInv'
<1>1. \A q \in Threads \ {p} : pc'[q] = pc[q] /\ sid'[q] = sid[q]
  BY DEF Leave, TypeInv, ThreadOK
<1>2. \A s \in store' : s \in store \/ (s = sid[p] /\ pc[p] \in Storing)
  BY DEF Put
<1>3. "free" \notin Storing
  BY DEF Storing
<1>4. pc'[p] \in Storing =>
         sid'[p] \in store \/ (sid'[p] = sid[p] /\ pc[p] \in Storing)
  BY <1>3 DEF Leave, TypeInv, ThreadOK
<1>5. QED
  BY <1>1, <1>2, <1>4, QuotaKept

LEMMA CreateQuotaInv ==
  ASSUME TypeInv, QuotaInv, TypeInv', NEW p \in Threads, CreateSession(p)
  PROVE  QuotaInv'
<1>0. /\ {"user", "group", "secret", "put"} \subseteq Storing /\ "cleanup" \notin Storing
      /\ {"group", "secret", "put", "cleanup"} \subseteq Labels
  BY DEF Storing, Labels, Creating
<1>1. CASE CheckUser(p) \/ MakeGroup(p) \/ GroupFails(p)
  BY <1>0, <1>1, MoveQuota DEF CheckUser, MakeGroup, GroupFails, Goto, storeVars
<1>2. CASE MakeSecret(p) \/ SecretFails(p)
  BY <1>0, <1>2, MoveQuota DEF MakeSecret, SecretFails, Goto, storeVars
<1>3. CASE RejectCreate(p) \/ InitRaises(p) \/ Cleanup(p) \/ CleanupFails(p)
  BY <1>3, MoveQuota DEF RejectCreate, InitRaises, Cleanup, CleanupFails, storeVars
<1>4. CASE StoreSession(p)
  BY <1>0, <1>4, MoveQuota DEF StoreSession
<1>5. QED
  BY <1>1, <1>2, <1>3, <1>4, CheckQuotaInv DEF CreateSession

LEMMA UseQuotaInv ==
  ASSUME TypeInv, QuotaInv, TypeInv', NEW p \in Threads, UseSession(p)
  PROVE  QuotaInv'
<1>0. /\ {"beat", "accrue", "write"} \subseteq Storing
      /\ {"call", "stop", "pop"} \cap Storing = {}
      /\ {"accrue", "write", "stop", "pop"} \subseteq Labels
  BY DEF Storing, Labels, Tearing
<1>1. ASSUME NEW s \in Sessions,
             \/ Beat(p, s) \/ InferExpired(p, s)
             \/ \E force \in Forces : CheckCanInfer(p, s, force)
      PROVE  QuotaInv'
  <2>1. PICK l \in {"beat", "call", "pop"} : Take(p, s, l)
    BY <1>1 DEF Beat, InferExpired, CheckCanInfer
  <2>2. s \in store /\ store' = store
    BY <1>1 DEF Beat, InferExpired, CheckCanInfer, storeVars
  <2>3. /\ \A q \in Threads \ {p} : pc'[q] = pc[q] /\ sid'[q] = sid[q]
        /\ sid'[p] = s
    BY <2>1, MoveFrame DEF Take, TypeInv, ThreadOK
  <2>4. QED
    BY <2>2, <2>3, QuotaKept
<1>2. CASE BeatPut(p)
  BY <1>0, <1>2, MoveQuota DEF BeatPut
<1>3. CASE CallFails(p) \/ WithinLimit(p) \/ OverBudget(p)
  BY <1>3, MoveQuota DEF CallFails, WithinLimit, OverBudget, storeVars
<1>4. CASE CallReturns(p) \/ ReadCost(p) \/ HardStop(p)
  BY <1>0, <1>4, MoveQuota DEF CallReturns, ReadCost, HardStop, Goto, storeVars
<1>5. ASSUME NEW c \in CallCosts, WriteCost(p, c)
      PROVE  QuotaInv'
  BY <1>0, <1>5, MoveQuota DEF WriteCost, Goto
<1>6. QED
  BY <1>1, <1>2, <1>3, <1>4, <1>5 DEF UseSession

LEMMA TeardownQuotaInv ==
  ASSUME TypeInv, QuotaInv, TypeInv', NEW p \in Threads, Teardown(p)
  PROVE  QuotaInv'
<1>0. /\ {"delete", "reinsert"} \subseteq Storing
      /\ {"pop", "scrub", "over", "sweep"} \cap Storing = {}
      /\ {"delete", "reinsert", "scrub", "over", "sweep"} \subseteq Labels
  BY DEF Storing, Labels, Tearing
<1>1. ASSUME NEW s \in Sessions, TeardownRequest(p, s)
      PROVE  QuotaInv'
  BY <1>0, <1>1, MoveFrame, QuotaKept DEF TeardownRequest, storeVars
<1>2. CASE Pop(p)
  BY <1>0, <1>2, MoveQuota DEF Pop, Goto, Remove
<1>3. CASE Delete(p) \/ DestroyFails(p) \/ DeleteFails(p)
  BY <1>0, <1>3, MoveQuota DEF Delete, DestroyFails, DeleteFails, Goto, storeVars
<1>4. CASE DestroyRaises(p)
  BY <1>4, MoveQuota DEF DestroyRaises, storeVars
<1>5. CASE Reinsert(p)
  BY <1>0, <1>5, MoveQuota DEF Reinsert
<1>6. CASE AlreadyGone(p) \/ Scrub(p)
  BY <1>0, <1>6, MoveQuota DEF AlreadyGone, Scrub, Answered, Goto, storeVars
<1>7. QED
  BY <1>1, <1>2, <1>3, <1>4, <1>5, <1>6 DEF Teardown

LEMMA SweepQuotaInv ==
  ASSUME TypeInv, QuotaInv, TypeInv', NEW p \in Threads, Sweep(p)
  PROVE  QuotaInv'
<1>1. store' = store
  BY DEF Sweep, SweepStart, SweepSkip, SweepReap, SweepEnd, storeVars
<1>2. \A q \in Threads \ {p} : pc'[q] = pc[q] /\ sid'[q] = sid[q]
  BY DEF Sweep, SweepStart, SweepSkip, SweepReap, SweepEnd, Leave, TypeInv, ThreadOK
<1>3. pc'[p] \in {"free", "sweep", "pop"}
  BY DEF Sweep, SweepStart, SweepSkip, SweepReap, SweepEnd, Leave, TypeInv, ThreadOK
<1>4. QED
  BY <1>1, <1>2, <1>3, QuotaKept DEF Storing

LEMMA StepQuotaInv == TypeInv /\ QuotaInv /\ [Next]_vars => QuotaInv'
<1> SUFFICES ASSUME TypeInv, QuotaInv, [Next]_vars PROVE QuotaInv'
  OBVIOUS
<1>1. TypeInv'
  BY StepTypeInv
<1>2. CASE (\E s \in Sessions : Expire(s) \/ IdleOut(s)) \/ UNCHANGED vars
  <2>1. UNCHANGED <<store, pc, sid>>
    BY <1>2 DEF Expire, IdleOut, storeVars, threadVars, vars
  <2>2. QED
    BY <2>1 DEF QuotaInv, Claimed, Doing
<1>3. QED
  BY <1>1, <1>2, CreateQuotaInv, UseQuotaInv, TeardownQuotaInv, SweepQuotaInv DEF Next

\* With every backend the store exceeds FOUNDRY_MAX_ACTIVE_SESSIONS by at most
\* the threads other than the one that checks the quota: stale checks,
\* heartbeats, accounting and failed teardowns together store no more.
THEOREM QuotaHolds == Spec => []QuotaOvershoot
<1>1. TypeInv /\ QuotaInv => QuotaOvershoot
  <2> SUFFICES ASSUME TypeInv, QuotaInv PROVE QuotaOvershoot
    OBVIOUS
  <2>1. store \in SUBSET Claimed
    BY DEF Claimed
  <2>2. Cardinality(store) <= Cardinality(Claimed) /\ Cardinality(store) \in Nat
    BY <2>1, ClaimedFinite, FS_Subset, FS_CardinalityType
  <2>3. QED
    BY <2>2, ClaimedFinite, ThreadsFinite, FoundryAssumption DEF QuotaInv, QuotaOvershoot
<1>2. QED
  BY <1>1, InitTypeInv, StepTypeInv, InitQuotaInv, StepQuotaInv, PTL DEF Spec

-----------------------------------------------------------------------------
(* The cap, with the dryrun backend.  A thread that has seen the cap goes  *)
(* through to the end, whoever else tears the session down; a teardown     *)
(* that only found the session popped does not count, unless it is the one *)
(* that record_usage began.                                                *)

Over == {"torn_down", "over_budget"}

Stopping(p, s) ==
    /\ sid[p] = s
    /\ pc[p] \in {"stop", "delete", "scrub", "over"} \/ (pc[p] = "pop" /\ why[p] = "hard")

CapInv ==
    \A s \in Sessions :
        /\ status[s] = "none" => cost[s] = 0
        /\ cost[s] >= MaxCost => status[s] \in Over \/ \E p \in Threads : Stopping(p, s)

LEMMA InitCapInv == Init => CapInv
BY FoundryAssumption DEF Init, CapInv

LEMMA CapKept ==
  ASSUME CapInv, NEW p \in Threads,
         \A q \in Threads \ {p} : pc'[q] = pc[q] /\ sid'[q] = sid[q] /\ why'[q] = why[q],
         \A s \in Sessions : status'[s] = "none" => cost'[s] = 0,
         \A s \in Sessions : cost'[s] >= MaxCost =>
            \/ status'[s] \in Over \/ Stopping(p, s)'
            \/ cost[s] >= MaxCost /\ status[s] \notin Over /\ ~Stopping(p, s)
  PROVE  CapInv'
<1>1. ASSUME NEW s \in Sessions, cost'[s] >= MaxCost, status'[s] \notin Over
      PROVE  \E q \in Threads : Stopping(q, s)'
  <2>1. CASE Stopping(p, s)'
    BY <2>1
  <2>2. CASE cost[s] >= MaxCost /\ status[s] \notin Over /\ ~Stopping(p, s)
    <3>1. PICK q \in Threads : Stopping(q, s)
      BY <2>2 DEF CapInv
    <3>2. Stopping(q, s)'
      BY <2>2, <3>1 DEF Stopping
    <3>3. QED
      BY <3>2
  <2>3. QED
    BY <1>1, <2>1, <2>2
<1>2. QED
  BY <1>1 DEF CapInv

\* A step that does not touch the accounts, of a thread that stops nothing
\* before, or stops the same session after.
LEMMA QuietCap ==
  ASSUME CapInv, NEW p \in Threads,
         \A q \in Threads \ {p} : pc'[q] = pc[q] /\ sid'[q] = sid[q] /\ why'[q] = why[q],
         UNCHANGED <<status, cost>>,
         \A s \in Sessions : Stopping(p, s) => Stopping(p, s)'
  PROVE  CapInv'
<1>1. ASSUME NEW s \in Sessions, cost'[s] >= MaxCost
      PROVE  \/ status'[s] \in Over \/ Stopping(p, s)'
             \/ cost[s] >= MaxCost /\ status[s] \notin Over /\ ~Stopping(p, s)
  BY <1>1
<1>2. \A s \in Sessions : status'[s] = "none" => cost'[s] = 0
  BY DEF CapInv
<1>3. QED
  BY <1>1, <1>2, CapKept

\* What the thread's moves leave of the other threads.
LEMMA MoveOthers ==
  ASSUME TypeInv, NEW p \in Threads,
         \/ \E l \in Labels : Goto(p, l)
         \/ Leave(p)
         \/ /\ \E s \in Sessions, l \in Labels : Take(p, s, l)
            /\ why' = why \/ \E r \in Reasons : why' = [why EXCEPT ![p] = r]
  PROVE  \A q \in Threads \ {p} : pc'[q] = pc[q] /\ sid'[q] = sid[q] /\ why'[q] = why[q]
BY DEF TypeInv, ThreadOK, Goto, Leave, Take

LEMMA CreateCapInv ==
  ASSUME TypeInv, OriginInv, CapInv, NEW p \in Threads, CreateSession(p)
  PROVE  CapInv'
<1>0. {"user", "group", "secret", "put", "cleanup"} \subseteq Labels
  BY DEF Labels, Creating
<1>1. ASSUME pc[p] \in {"free", "user", "group", "secret", "put", "cleanup"}
      PROVE  \A s \in Sessions : ~Stopping(p, s)
  BY <1>1 DEF Stopping
<1>2. CASE CheckQuota(p)
  <2>1. \E s \in Sessions : Take(p, s, "user")
    BY <1>2 DEF CheckQuota
  <2>2. pc[p] = "free" /\ UNCHANGED <<status, cost, why>>
    BY <1>2, <2>1 DEF CheckQuota, Take
  <2>3. QED
    BY <1>0, <1>1, <2>1, <2>2, MoveOthers, QuietCap
<1>3. CASE CheckUser(p) \/ MakeGroup(p) \/ GroupFails(p) \/ MakeSecret(p) \/ SecretFails(p)
  <2>1. \E l \in Labels : Goto(p, l)
    BY <1>0, <1>3 DEF CheckUser, MakeGroup, GroupFails, MakeSecret, SecretFails
  <2>2. pc[p] \in {"user", "group", "secret"} /\ UNCHANGED <<status, cost>>
    BY <1>3 DEF CheckUser, MakeGroup, GroupFails, MakeSecret, SecretFails, sessionVars
  <2>3. QED
    BY <1>1, <2>1, <2>2, MoveOthers, QuietCap
<1>4. CASE RejectCreate(p) \/ InitRaises(p) \/ Cleanup(p) \/ CleanupFails(p)
  <2>1. /\ Leave(p) /\ pc[p] \in {"user", "group", "cleanup"}
        /\ UNCHANGED <<status, cost>>
    BY <1>4 DEF RejectCreate, InitRaises, Cleanup, CleanupFails, sessionVars
  <2>2. QED
    BY <1>1, <2>1, MoveOthers, QuietCap
<1>5. CASE StoreSession(p)
  <2>1. /\ sid[p] \in Sessions /\ status[sid[p]] = "none"
        /\ cost[sid[p]] = 0 /\ pc[p] = "put"
    BY <1>5 DEF StoreSession, OriginInv, Creators, Creating, CapInv, TypeInv, ThreadOK
  <2>2. /\ \A s \in Sessions : s # sid[p] => status'[s] = status[s]
        /\ status'[sid[p]] = "active" /\ cost' = cost
    BY <1>5, <2>1 DEF StoreSession, TypeInv, SessionOK
  <2>3. \A s \in Sessions : status'[s] = "none" => cost'[s] = 0
    BY <2>2 DEF CapInv
  <2>4. ~(cost[sid[p]] >= MaxCost)
    BY <2>1, FoundryAssumption
  <2>5. \A q \in Threads \ {p} : pc'[q] = pc[q] /\ sid'[q] = sid[q] /\ why'[q] = why[q]
    BY <1>5, MoveOthers DEF StoreSession
  <2>6. ASSUME NEW s \in Sessions, cost'[s] >= MaxCost
        PROVE  \/ status'[s] \in Over
               \/ cost[s] >= MaxCost /\ status[s] \notin Over /\ ~Stopping(p, s)
    BY <1>1, <2>1, <2>2, <2>4, <2>6
  <2>7. QED
    BY <2>3, <2>5, <2>6, CapKept
<1>6. QED
  BY <1>2, <1>3, <1>4, <1>5 DEF CreateSession

LEMMA UseCapInv ==
  ASSUME TypeInv, OriginInv, CapInv, NEW p \in Threads, UseSession(p)
  PROVE  CapInv'
<1>0. {"beat", "call", "accrue", "write", "stop", "pop"} \subseteq Labels
  BY DEF Labels, Tearing
<1>1. ASSUME pc[p] \in {"free", "beat", "call", "accrue", "write"}
      PROVE  \A s \in Sessions : ~Stopping(p, s)
  BY <1>1 DEF Stopping
<1>2. ASSUME pc[p] \in {"write", "stop", "over"}
      PROVE  sid[p] \in Sessions /\ status[sid[p]] # "none"
  BY <1>2 DEF OriginInv, Users, Creating, TypeInv, ThreadOK
<1>3. ASSUME NEW s \in Sessions,
             \/ Beat(p, s) \/ InferExpired(p, s)
             \/ \E force \in Forces : CheckCanInfer(p, s, force)
      PROVE  CapInv'
  <2>1. PICK l \in {"beat", "call", "pop"} : Take(p, s, l)
    BY <1>3 DEF Beat, InferExpired, CheckCanInfer
  <2>2. why' = why \/ \E r \in Reasons : why' = [why EXCEPT ![p] = r]
    BY <1>3 DEF Beat, InferExpired, CheckCanInfer, Reasons
  <2>3. pc[p] = "free" /\ UNCHANGED <<status, cost>>
    BY <1>3, <2>1 DEF Beat, InferExpired, CheckCanInfer, Take, sessionVars
  <2>4. l \in Labels
    BY <1>0
  <2>5. QED
    BY <1>1, <2>1, <2>2, <2>3, <2>4, MoveOthers, QuietCap
<1>4. CASE BeatPut(p) \/ CallFails(p)
  <2>1. Leave(p) /\ pc[p] \in {"beat", "call"} /\ UNCHANGED <<status, cost>>
    BY <1>4 DEF BeatPut, CallFails, sessionVars
  <2>2. QED
    BY <1>1, <2>1, MoveOthers, QuietCap
<1>5. CASE CallReturns(p)
  BY <1>0, <1>1, <1>5, MoveOthers, QuietCap DEF CallReturns, sessionVars
<1>6. CASE ReadCost(p)
  <2>1. \A q \in Threads \ {p} : pc'[q] = pc[q] /\ sid'[q] = sid[q] /\ why'[q] = why[q]
    BY <1>6 DEF ReadCost, TypeInv, ThreadOK
  <2>2. pc[p] = "accrue" /\ UNCHANGED <<status, cost>>
    BY <1>6 DEF ReadCost, sessionVars
  <2>3. QED
    BY <1>1, <2>1, <2>2, QuietCap
<1>7. ASSUME NEW c \in CallCosts, WriteCost(p, c)
      PROVE  CapInv'
  <2>1. /\ pc[p] = "write" /\ status' = status /\ Goto(p, "stop")
        /\ cost' = [cost EXCEPT ![sid[p]] = seen[p] + c]
    BY <1>7 DEF WriteCost
  <2>2. \A s \in Sessions : s # sid[p] => cost'[s] = cost[s]
    BY <2>1 DEF TypeInv, SessionOK
  <2>3. pc'[p] = "stop" /\ sid'[p] = sid[p]
    BY <2>1 DEF Goto, TypeInv, ThreadOK
  <2>4. \A s \in Sessions : status'[s] = "none" => cost'[s] = 0
    BY <1>2, <2>1, <2>2 DEF CapInv
  <2>5. \A q \in Threads \ {p} : pc'[q] = pc[q] /\ sid'[q] = sid[q] /\ why'[q] = why[q]
    BY <1>0, <2>1, MoveOthers
  <2>6. ASSUME NEW s \in Sessions, cost'[s] >= MaxCost
        PROVE  \/ status'[s] \in Over \/ Stopping(p, s)'
               \/ cost[s] >= MaxCost /\ status[s] \notin Over /\ ~Stopping(p, s)
    <3>1. CASE s = sid[p]
      BY <2>3, <3>1 DEF Stopping
    <3>2. CASE s # sid[p]
      BY <1>1, <2>1, <2>2, <2>6, <3>2
    <3>3. QED
      BY <3>1, <3>2
  <2>7. QED
    BY <2>4, <2>5, <2>6, CapKept
<1>8. CASE WithinLimit(p)
  <2>1. /\ pc[p] = "stop" /\ UNCHANGED <<status, cost>> /\ Leave(p)
        /\ cost[sid[p]] < MaxCost
    BY <1>8 DEF WithinLimit, sessionVars
  <2>2. ~(cost[sid[p]] >= MaxCost)
    BY <1>2, <2>1, FoundryAssumption DEF TypeInv, SessionOK
  <2>3. \A q \in Threads \ {p} : pc'[q] = pc[q] /\ sid'[q] = sid[q] /\ why'[q] = why[q]
    BY <2>1, MoveOthers
  <2>4. \A s \in Sessions : status'[s] = "none" => cost'[s] = 0
    BY <2>1 DEF CapInv
  <2>5. ASSUME NEW s \in Sessions, cost'[s] >= MaxCost
        PROVE  \/ status'[s] \in Over
               \/ cost[s] >= MaxCost /\ status[s] \notin Over /\ ~Stopping(p, s)
    BY <2>1, <2>2, <2>5 DEF Stopping
  <2>6. QED
    BY <2>3, <2>4, <2>5, CapKept
<1>9. CASE HardStop(p)
  <2>1. /\ \A q \in Threads \ {p} : pc'[q] = pc[q] /\ sid'[q] = sid[q] /\ why'[q] = why[q]
        /\ pc'[p] = "pop" /\ why'[p] = "hard" /\ sid'[p] = sid[p]
    BY <1>9 DEF HardStop, TypeInv, ThreadOK
  <2>2. UNCHANGED <<status, cost>>
    BY <1>9 DEF HardStop, sessionVars
  <2>3. \A s \in Sessions : Stopping(p, s) => Stopping(p, s)'
    BY <2>1 DEF Stopping
  <2>4. QED
    BY <2>1, <2>2, <2>3, QuietCap
<1>10. CASE OverBudget(p)
  <2>1. sid[p] \in Sessions
    BY <1>2, <1>10 DEF OverBudget
  <2>2. /\ \A s \in Sessions :
             status'[s] = IF s = sid[p] THEN "over_budget" ELSE status[s]
        /\ cost' = cost /\ Leave(p)
    BY <1>10, <2>1 DEF OverBudget, TypeInv, SessionOK
  <2>3. \A q \in Threads \ {p} : pc'[q] = pc[q] /\ sid'[q] = sid[q] /\ why'[q] = why[q]
    BY <2>2, MoveOthers
  <2>4. \A s \in Sessions : status'[s] = "none" => cost'[s] = 0
    BY <2>2 DEF CapInv
  <2>5. ASSUME NEW s \in Sessions, cost'[s] >= MaxCost
        PROVE  \/ status'[s] \in Over
               \/ cost[s] >= MaxCost /\ status[s] \notin Over /\ ~Stopping(p, s)
    BY <2>2, <2>5 DEF Over, Stopping
  <2>6. QED
    BY <2>3, <2>4, <2>5, CapKept
<1>11. QED
  BY <1>3, <1>4, <1>5, <1>6, <1>7, <1>8, <1>9, <1>10 DEF UseSession

LEMMA TeardownCapInv ==
  ASSUME backend = "dryrun", TypeInv, OriginInv, CapInv, NEW p \in Threads, Teardown(p)
  PROVE  CapInv'
<1>0. {"pop", "delete", "scrub", "over", "sweep"} \subseteq Labels
  BY DEF Labels, Tearing
<1>1. ASSUME NEW s \in Sessions, TeardownRequest(p, s)
      PROVE  CapInv'
  <2>1. /\ Take(p, s, "pop") /\ UNCHANGED <<status, cost>>
        /\ \E r \in Reasons : why' = [why EXCEPT ![p] = r]
    BY <1>1 DEF TeardownRequest, sessionVars, Reasons
  <2>2. \A t \in Sessions : ~Stopping(p, t)
    BY <2>1 DEF Take, Stopping
  <2>3. QED
    BY <1>0, <2>1, <2>2, MoveOthers, QuietCap
<1>2. CASE Pop(p) \/ Delete(p)
  <2>1. PICK l \in {"delete", "scrub"} : Goto(p, l)
    BY <1>2 DEF Pop, Delete
  <2>2. UNCHANGED <<status, cost>>
    BY <1>2 DEF Pop, Delete, sessionVars
  <2>3. pc'[p] \in {"delete", "scrub"} /\ sid'[p] = sid[p]
    BY <2>1 DEF Goto, TypeInv, ThreadOK
  <2>4. \A s \in Sessions : Stopping(p, s) => Stopping(p, s)'
    BY <2>3 DEF Stopping
  <2>5. l \in Labels
    BY <1>0
  <2>6. QED
    BY <2>1, <2>2, <2>4, <2>5, MoveOthers, QuietCap
<1>a. ASSUME Answered(p)
      PROVE  \A q \in Threads \ {p} : pc'[q] = pc[q] /\ sid'[q] = sid[q] /\ why'[q] = why[q]
  BY <1>0, <1>a, MoveOthers DEF Answered
<1>3. CASE AlreadyGone(p)
  <2>1. pc[p] = "pop" /\ UNCHANGED <<status, cost>> /\ Answered(p)
    BY <1>3 DEF AlreadyGone, sessionVars
  <2>2. \A s \in Sessions : Stopping(p, s) => Stopping(p, s)'
    BY <2>1 DEF Stopping, Answered, Goto, TypeInv, ThreadOK
  <2>3. QED
    BY <1>a, <2>1, <2>2, QuietCap
<1>4. CASE Scrub(p)
  <2>1. pc[p] = "scrub" /\ sid[p] \in Sessions
    BY <1>4 DEF Scrub, TypeInv, ThreadOK
  <2>2. /\ \A s \in Sessions :
             status'[s] = IF s = sid[p] THEN "torn_down" ELSE status[s]
        /\ cost' = cost /\ Answered(p)
    BY <1>4, <2>1 DEF Scrub, TypeInv, SessionOK
  <2>3. \A s \in Sessions : status'[s] = "none" => cost'[s] = 0
    BY <2>2 DEF CapInv
  <2>4. ASSUME NEW s \in Sessions, cost'[s] >= MaxCost
        PROVE  \/ status'[s] \in Over
               \/ cost[s] >= MaxCost /\ status[s] \notin Over /\ ~Stopping(p, s)
    BY <2>2, <2>4 DEF Over, Stopping
  <2>5. QED
    BY <1>a, <2>2, <2>3, <2>4, CapKept
\* What follows a failed delete is not reached: nothing fails in a dry run.
<1>5. CASE Reinsert(p)
  <2>1. pc[p] = "reinsert" /\ Leave(p) /\ UNCHANGED <<status, cost>>
    BY <1>5 DEF Reinsert, sessionVars
  <2>2. \A s \in Sessions : ~Stopping(p, s)
    BY <2>1 DEF Stopping
  <2>3. QED
    BY <2>1, <2>2, MoveOthers, QuietCap
<1>6. QED
  BY <1>1, <1>2, <1>3, <1>4, <1>5
  DEF Teardown, DestroyFails, DestroyRaises, DeleteFails

LEMMA SweepCapInv ==
  ASSUME TypeInv, CapInv, NEW p \in Threads, Sweep(p)
  PROVE  CapInv'
<1>1. UNCHANGED <<status, cost>> /\ pc[p] \in {"free", "sweep"}
  BY DEF Sweep, SweepStart, SweepSkip, SweepReap, SweepEnd, sessionVars
<1>2. \A q \in Threads \ {p} : pc'[q] = pc[q] /\ sid'[q] = sid[q] /\ why'[q] = why[q]
  BY DEF Sweep, SweepStart, SweepSkip, SweepReap, SweepEnd, Leave, TypeInv, ThreadOK
<1>3. QED
  BY <1>1, <1>2, QuietCap DEF Stopping

LEMMA StepCapInv ==
  backend = "dryrun" /\ TypeInv /\ OriginInv /\ CapInv /\ [Next]_vars => CapInv'
<1> SUFFICES ASSUME backend = "dryrun", TypeInv, OriginInv, CapInv, [Next]_vars
             PROVE  CapInv'
  OBVIOUS
<1>1. CASE (\E s \in Sessions : Expire(s) \/ IdleOut(s)) \/ UNCHANGED vars
  <2>1. UNCHANGED <<status, cost, pc, sid, why>>
    BY <1>1 DEF Expire, IdleOut, threadVars, vars
  <2>2. QED
    BY <2>1 DEF CapInv, Stopping
<1>2. QED
  BY <1>1, CreateCapInv, UseCapInv, TeardownCapInv, SweepCapInv DEF Next

LEMMA CapCorrect == Spec => [](backend = "dryrun" => CapInv)
<1> DEFINE Inv == TypeInv /\ OriginInv /\ (backend = "dryrun" => CapInv)
<1>1. Init => Inv
  BY InitTypeInv, InitOriginInv, InitCapInv
<1>2. Inv /\ [Next]_vars => Inv'
  <2> SUFFICES ASSUME Inv, [Next]_vars PROVE Inv'
    OBVIOUS
  <2>1. backend' = backend
    BY DEF Next, vars
  <2>2. QED
    BY <2>1, StepTypeInv, StepOriginInv, StepCapInv
<1>3. QED
  BY <1>1, <1>2, PTL DEF Spec

\* With the dryrun backend, however the accounting of any number of concurrent
\* calls interleaves, a session that has reached its cap has been closed, or a
\* thread is about to check it or to tear it down.
THEOREM CapIsNoticed == Spec => []CapNoticed
<1>1. (backend = "dryrun" => CapInv) => CapNoticed
  BY DEF CapInv, CapNoticed, Over, Stopping, Doing, Tearing
<1>2. QED
  BY <1>1, CapCorrect, PTL

=============================================================================
