---------------------------- MODULE SharedProofs ----------------------------
(***************************************************************************)
(* Proofs about what all requests share: LazyRegistry and the two          *)
(* registries that extend it, for any number of threads and folders,       *)
(* whichever are broken or come late; and RateLimiter, for any number of   *)
(* requests, workers and keys, every limit and every window.               *)
(***************************************************************************)
EXTENDS AgentRegistry, ModelRegistry, RateLimiter, FiniteSetTheorems,
        SequenceTheorems, WellFoundedInduction, TLAPS

-----------------------------------------------------------------------------
(* Listing: the members of a set of names, each once, in their order.      *)

\* A set of natural numbers has a least element.
LEMMA LeastNatural ==
  ASSUME NEW T, T \subseteq Nat, T # {}
  PROVE  \E x \in T : \A y \in T : x <= y
<1>1. PICK x \in T : \A y \in T : ~(<<y, x>> \in OpToRel(<, Nat))
  BY NatLessThanWellFounded, WFMin
<1>2. \A y \in T : ~(y < x)
  BY <1>1 DEF OpToRel
<1>3. QED
  BY <1>2

LEMMA OrderFacts ==
  /\ Len(RgOrder) \in Nat /\ DOMAIN RgOrder = 1..Len(RgOrder)
  /\ \A i \in 1..Len(RgOrder) : RgOrder[i] \in RgNames
  /\ \A n \in RgNames : \E i \in 1..Len(RgOrder) : RgOrder[i] = n
  /\ \A i, j \in 1..Len(RgOrder) : RgOrder[i] = RgOrder[j] => i = j
  /\ IsFiniteSet(RgNames)
<1>1. RgOrder \in Seq(RgNames)
  BY RgAssumption DEF RgNames
<1>2. Len(RgOrder) \in Nat /\ DOMAIN RgOrder = 1..Len(RgOrder)
  BY <1>1, LenProperties
<1>3. /\ \A i \in 1..Len(RgOrder) : RgOrder[i] \in RgNames
      /\ \A n \in RgNames : \E i \in 1..Len(RgOrder) : RgOrder[i] = n
  BY <1>2 DEF RgNames, Range
<1>4. \A i, j \in 1..Len(RgOrder) : RgOrder[i] = RgOrder[j] => i = j
  BY <1>2, RgAssumption DEF IsInjective
<1>5. RgOrder \in Surjection(1..Len(RgOrder), RgNames)
  BY <1>1, <1>2, <1>3 DEF Surjection
<1>6. IsFiniteSet(RgNames)
  BY <1>2, <1>5, FS_Interval, FS_Surjection
<1>7. QED
  BY <1>2, <1>3, <1>4, <1>6

\* A sequence that lists fs in order.
Sorted(s) == \A i, j \in DOMAIN s : i < j => InOrder(s[i], s[j])
Lists(s, fs) == s \in [1..Cardinality(fs) -> fs] /\ Sorted(s)

LEMMA ListsExtend ==
  ASSUME NEW fs \in SUBSET RgNames, NEW s, Lists(s, fs), NEW x \in RgNames \ fs,
         \A n \in fs : InOrder(n, x)
  PROVE  \E z : Lists(z, fs \cup {x})
<1> DEFINE c == Cardinality(fs)
           z == [i \in 1..c + 1 |-> IF i = c + 1 THEN x ELSE s[i]]
<1>1. c \in Nat /\ Cardinality(fs \cup {x}) = c + 1
  BY OrderFacts, FS_Subset, FS_AddElement, FS_CardinalityType
<1>2. s \in [1..c -> fs]
  BY DEF Lists
<1>3. \A i \in 1..c : i \in 1..c + 1 /\ i # c + 1 /\ z[i] = s[i] /\ s[i] \in fs
  BY <1>1, <1>2
<1>4. z[c + 1] = x
  BY <1>1
<1>5. \A i \in 1..c + 1 : i \in 1..c \/ i = c + 1
  BY <1>1
<1>6. z \in [1..c + 1 -> fs \cup {x}]
  BY <1>3, <1>4, <1>5
<1>7. ASSUME NEW i \in 1..c + 1, NEW j \in 1..c + 1, i < j
      PROVE  InOrder(z[i], z[j])
  <2>1. i \in 1..c
    BY <1>1, <1>7
  <2>2. CASE j = c + 1
    BY <1>3, <1>4, <2>1, <2>2
  <2>3. CASE j \in 1..c
    <3>1. InOrder(s[i], s[j])
      BY <1>2, <1>7, <2>1, <2>3 DEF Lists, Sorted
    <3>2. QED
      BY <1>3, <2>1, <2>3, <3>1
  <2>4. QED
    BY <1>5, <2>2, <2>3
<1>8. Lists(z, fs \cup {x})
  BY <1>1, <1>6, <1>7 DEF Lists, Sorted
<1>9. QED
  BY <1>8

LEMMA ListsExist ==
  ASSUME NEW fs \in SUBSET RgNames
  PROVE  \E s : Lists(s, fs)
<1> DEFINE N == Len(RgOrder)
           Upto(k) == {n \in fs : \E i \in 1..k : RgOrder[i] = n}
           bad == {k \in 0..N : ~ \E s : Lists(s, Upto(k))}
<1>1. bad = {}
  <2> SUFFICES ASSUME bad # {} PROVE FALSE
    OBVIOUS
  <2>1. bad \subseteq Nat
    BY OrderFacts
  <2>2. PICK k \in bad : \A y \in bad : k <= y
    BY <2>1, LeastNatural
  <2>3. k \in 0..N /\ k \in Nat /\ N \in Nat
    BY <2>1, OrderFacts
  <2>4. ~ \E s : Lists(s, Upto(k))
    OBVIOUS
  <2>5. CASE k = 0
    <3>1. Upto(k) = {}
      BY <2>5
    <3>2. Lists([i \in 1..0 |-> 0], {})
      BY FS_EmptySet DEF Lists, Sorted
    <3>3. QED
      BY <2>4, <3>1, <3>2
  <2>6. CASE k # 0
    <3>1. k - 1 \in 0..N /\ k \in 1..N /\ 1..k = 1..k - 1 \cup {k}
      BY <2>3, <2>6
    <3>2. k - 1 \notin bad
      <4>1. ~(k <= k - 1)
        BY <2>3
      <4> HIDE DEF bad
      <4>2. QED
        BY <2>2, <4>1
    <3>3. PICK s : Lists(s, Upto(k - 1))
      BY <3>1, <3>2
    <3> DEFINE x == RgOrder[k]
    <3>4. CASE x \notin fs
      <4>1. Upto(k) = Upto(k - 1)
        BY <3>1, <3>4
      <4>2. QED
        BY <2>4, <3>3, <4>1
    <3>5. CASE x \in fs
      <4>1. Upto(k) = Upto(k - 1) \cup {x}
        BY <3>1, <3>5
      <4>2. \A i \in 1..k - 1 : i \in 1..N /\ i < k
        BY <2>3
      <4>3. x \in RgNames \ Upto(k - 1)
        BY <3>1, <3>5, <4>2, OrderFacts
      <4>4. \A n \in Upto(k - 1) : InOrder(n, x)
        BY <3>1, <4>2, OrderFacts DEF InOrder
      <4>5. \E z : Lists(z, Upto(k - 1) \cup {x})
        BY <3>3, <4>3, <4>4, ListsExtend
      <4>6. QED
        BY <2>4, <4>1, <4>5
    <3>6. QED
      BY <3>4, <3>5
  <2>7. QED
    BY <2>5, <2>6
<1>2. N \in 0..N /\ Upto(N) = fs
  BY OrderFacts
<1>3. QED
  BY <1>1, <1>2

\* Listing lists every name of the set once.
LEMMA ListingFacts ==
  ASSUME NEW fs \in SUBSET RgNames
  PROVE  /\ Listing(fs) \in Seq(fs)
         /\ Len(Listing(fs)) = Cardinality(fs)
         /\ \A n \in fs : \E i \in 1..Len(Listing(fs)) : Listing(fs)[i] = n
         /\ \A i, j \in 1..Len(Listing(fs)) : Listing(fs)[i] = Listing(fs)[j] => i = j
<1> DEFINE s == Listing(fs)
           c == Cardinality(fs)
<1>1. Lists(s, fs)
  <2>1. \E z \in [1..c -> fs] : \A i, j \in DOMAIN z : i < j => InOrder(z[i], z[j])
    BY ListsExist DEF Lists, Sorted
  <2>2. QED
    BY <2>1 DEF Listing, Lists, Sorted
<1>2. IsFiniteSet(fs) /\ c \in Nat
  BY OrderFacts, FS_Subset, FS_CardinalityType
<1>3. s \in [1..c -> fs] /\ DOMAIN s = 1..c
  BY <1>1 DEF Lists
<1> HIDE DEF s
<1>4. s \in Seq(fs) /\ Len(s) = c
  BY <1>2, <1>3, IsASeq, LenProperties
<1>5. \A i, j \in 1..c : s[i] = s[j] => i = j
  <2>1. \A i, j \in 1..c : i < j => s[i] # s[j]
    BY <1>1, <1>3, OrderFacts DEF Lists, Sorted, InOrder
  <2>2. QED
    BY <1>2, <2>1
<1>6. s \in Injection(1..c, fs)
  BY <1>3, <1>5 DEF Injection, IsInjective
<1>7. s \in Surjection(1..c, fs)
  <2>1. Cardinality(1..c) = c
    BY <1>2, FS_Interval
  <2>2. QED
    BY <1>2, <1>6, <2>1, FS_Injection
<1>8. \A n \in fs : \E i \in 1..c : s[i] = n
  BY <1>7 DEF Surjection
<1>9. QED
  BY <1>4, <1>5, <1>8 DEF s
-----------------------------------------------------------------------------
(* Discovery.  What a thread has yet to look at and what is known make up  *)
(* what was installed from the start, so long as nothing is known whose    *)
(* factory and manifest were not published together.                       *)

RgTypeInv ==
    /\ RgTypeOK
    /\ rgDone \in BOOLEAN
    /\ rgScan \in [RgThreads -> Seq(RgNames)]
    /\ rgWant \in [RgThreads -> RgNames \cup {NoName}]
    /\ rgRead \in [RgThreads -> RgNames \cup {NoName}]

Readable == AtStart \ RgBroken

\* What a discovering thread will have published when it is through.
Covers(t) ==
    Readable \subseteq rgKnown \cup Range(rgScan[t]) \cup (IF rgAt[t] = "read" THEN {rgRead[t]} ELSE {})

ScanInv ==
    /\ AtStart \subseteq rgFolders
    /\ rgKnown \subseteq rgFolders \ RgBroken
    /\ rgFactories = rgKnown
    /\ \A n \in RgNames : rgInstance[n] # 0 => n \in rgKnown
    /\ rgDone => Readable \subseteq rgKnown
    /\ \A t \in RgThreads :
        /\ rgAt[t] \in {"scan", "read"} => Covers(t) /\ Range(rgScan[t]) \subseteq rgFolders
        /\ rgAt[t] = "read" => rgRead[t] \in rgFolders \ RgBroken
        /\ rgAt[t] = "listed" => Readable \subseteq rgKnown
        /\ rgAt[t] = "unknown" => rgWant[t] \notin Readable

RgInv == RgTypeInv /\ ScanInv

LEMMA InitRgInv == RgInit => RgInv
<1> SUFFICES ASSUME RgInit PROVE RgInv
  OBVIOUS
<1>1. RgTypeInv
  <2>1. 0 \in 0..RgMax /\ <<>> \in Seq(RgNames) /\ AtStart \subseteq RgNames
    BY RgAssumption DEF AtStart
  <2>2. QED
    BY <2>1 DEF RgInit, RgTypeInv, RgTypeOK
<1>2. ScanInv
  BY DEF RgInit, ScanInv
<1>3. QED
  BY <1>1, <1>2 DEF RgInv

\* Looking at the first folder takes it off the list.
LEMMA HeadOfScan ==
  ASSUME NEW s \in Seq(RgNames), s # <<>>
  PROVE  /\ Head(s) \in RgNames /\ Tail(s) \in Seq(RgNames)
         /\ Range(s) = {Head(s)} \cup Range(Tail(s))
<1>1. /\ Len(s) \in Nat /\ DOMAIN s = 1..Len(s) /\ Len(s) # 0
      /\ Head(s) = s[1] /\ Tail(s) \in Seq(RgNames) /\ Len(Tail(s)) = Len(s) - 1
      /\ \A i \in 1..Len(s) - 1 : Tail(s)[i] = s[i + 1]
  BY HeadTailProperties, LenProperties, EmptySeq
<1>2. DOMAIN Tail(s) = 1..Len(s) - 1
  BY <1>1, LenProperties
<1>3. \A i \in 1..Len(s) : i = 1 \/ (i - 1 \in 1..Len(s) - 1 /\ s[i] = Tail(s)[i - 1])
  BY <1>1
<1>4. \A i \in 1..Len(s) - 1 : i + 1 \in 1..Len(s)
  BY <1>1
<1>5. 1 \in 1..Len(s)
  BY <1>1
<1>6. \A n : n \in Range(s) => n \in {Head(s)} \cup Range(Tail(s))
  <2> SUFFICES ASSUME NEW n \in Range(s) PROVE n \in {Head(s)} \cup Range(Tail(s))
    OBVIOUS
  <2>1. PICK i \in 1..Len(s) : s[i] = n
    BY <1>1 DEF Range
  <2>2. CASE i = 1
    BY <1>1, <2>1, <2>2
  <2>3. CASE i # 1
    BY <1>2, <1>3, <2>1, <2>3 DEF Range
  <2>4. QED
    BY <2>2, <2>3
<1>7. \A n : n \in {Head(s)} \cup Range(Tail(s)) => n \in Range(s)
  <2> SUFFICES ASSUME NEW n \in {Head(s)} \cup Range(Tail(s)) PROVE \E i \in 1..Len(s) : s[i] = n
    BY <1>1 DEF Range
  <2>1. CASE n = Head(s)
    BY <1>1, <1>5, <2>1
  <2>2. CASE n \in Range(Tail(s))
    <3>1. PICK j \in 1..Len(s) - 1 : Tail(s)[j] = n
      BY <1>2, <2>2 DEF Range
    <3>2. j + 1 \in 1..Len(s) /\ s[j + 1] = n
      BY <1>2, <1>4, <3>1
    <3>3. QED
      BY <3>2
  <2>3. QED
    BY <2>1, <2>2
<1>8. QED
  BY <1>1, <1>5, <1>6, <1>7, ElementOfSeq

LEMMA ListingRange ==
  ASSUME NEW fs \in SUBSET RgNames
  PROVE  Listing(fs) \in Seq(RgNames) /\ Range(Listing(fs)) = fs
<1>1. Listing(fs) \in Seq(fs) /\ Len(Listing(fs)) \in Nat /\ DOMAIN Listing(fs) = 1..Len(Listing(fs))
  BY ListingFacts, LenProperties
<1>2. \A i \in 1..Len(Listing(fs)) : Listing(fs)[i] \in fs
  BY <1>1, ElementOfSeq
<1>3. Range(Listing(fs)) = fs
  <2>1. PICK s : s = Listing(fs)
    OBVIOUS
  <2>2. \A n \in fs : \E i \in 1..Len(s) : s[i] = n
    BY <2>1, ListingFacts
  <2>3. DOMAIN s = 1..Len(s) /\ \A i \in 1..Len(s) : s[i] \in fs
    BY <1>1, <1>2, <2>1
  <2>4. Range(s) = fs
    BY <2>2, <2>3 DEF Range
  <2>5. QED
    BY <2>1, <2>4
<1>4. Listing(fs) \in Seq(RgNames)
  BY <1>1, <1>2
<1>5. QED
  BY <1>3, <1>4

\* A thread that only moves on, to where nothing is claimed of it.
LEMMA Move ==
  ASSUME RgInv, NEW t \in RgThreads, NEW x \in {"idle", "raised", "got"},
         rgAt' = [rgAt EXCEPT ![t] = x],
         NEW y \in RgNames \cup {NoName}, rgWant' \in {rgWant, [rgWant EXCEPT ![t] = y]},
         UNCHANGED <<rgFolders, rgTables, rgDone, rgScan, rgRead>>
  PROVE  RgInv'
<1>1. RgTypeInv'
  BY DEF RgInv, RgTypeInv, RgTypeOK, rgTables
<1>2. ScanInv'
  BY DEF RgInv, RgTypeInv, RgTypeOK, rgTables, ScanInv, Covers
<1>3. QED
  BY <1>1, <1>2 DEF RgInv

LEMMA GetRgInv ==
  ASSUME RgInv, NEW t \in RgThreads, NEW n \in RgNames,
         GetCached(t, n) \/ GetMade(t, n) \/ GetNothing(t, n)
  PROVE  RgInv'
<1> USE DEF RgInv, RgTypeInv, RgTypeOK
<1>1. CASE GetCached(t, n)
  BY <1>1, Move DEF GetCached
<1>2. CASE GetMade(t, n)
  <2> DEFINE found == IF n \in rgFactories THEN {} ELSE Found
  <2>1. found \subseteq rgFolders \ RgBroken /\ found \subseteq RgNames
    BY DEF Found
  <2>2. PICK loads \in BOOLEAN :
          /\ rgMade' = IF loads THEN rgMade + 1 ELSE rgMade
          /\ rgInstance' = [m \in RgNames |->
                 IF m = n /\ loads THEN rgMade + 1
                 ELSE IF m \in found THEN 0 ELSE rgInstance[m]]
          /\ rgAt' = [rgAt EXCEPT ![t] = IF loads THEN "got" ELSE "raised"]
    BY <1>2 DEF GetMade
  <2>3. /\ rgAt[t] = "idle" /\ rgMade < RgMax /\ n \in rgFactories \cup found
        /\ rgKnown' = rgKnown \cup found /\ rgFactories' = rgFactories \cup found
        /\ rgDone' = (rgDone \/ n \notin rgFactories)
        /\ rgWant' = [rgWant EXCEPT ![t] = n]
        /\ UNCHANGED <<rgFolders, rgScan, rgRead>>
    BY <1>2 DEF GetMade
  <2>4. rgMade' \in 0..RgMax /\ (loads => rgMade + 1 \in 0..RgMax) /\ 0 \in 0..RgMax
    BY <2>2, <2>3, RgAssumption
  <2>5. RgTypeInv'
    BY <2>1, <2>2, <2>3, <2>4
  <2>6. rgDone' => Readable \subseteq rgKnown'
    BY <2>3 DEF ScanInv, Found, Readable
  <2>7. ScanInv'
    BY <2>1, <2>2, <2>3, <2>6 DEF ScanInv, Covers
  <2>8. QED
    BY <2>5, <2>7
<1>3. CASE GetNothing(t, n)
  <2>1. Found \subseteq rgFolders \ RgBroken /\ Found \subseteq RgNames
    BY DEF Found
  <2>2. /\ rgInstance' = [m \in RgNames |-> IF m \in Found THEN 0 ELSE rgInstance[m]]
        /\ rgAt[t] = "idle" /\ n \notin rgFactories \cup Found
        /\ rgKnown' = rgKnown \cup Found /\ rgFactories' = rgFactories \cup Found
        /\ rgDone' = TRUE
        /\ rgWant' = [rgWant EXCEPT ![t] = n] /\ rgAt' = [rgAt EXCEPT ![t] = "unknown"]
        /\ UNCHANGED <<rgFolders, rgMade, rgScan, rgRead>>
    BY <1>3 DEF GetNothing
  <2>3. 0 \in 0..RgMax
    BY RgAssumption
  <2>4. RgTypeInv'
    BY <2>1, <2>2, <2>3
  <2>5. Readable \subseteq rgKnown' /\ n \notin Readable
    BY <2>2 DEF ScanInv, Found, Readable
  <2>6. ScanInv'
    BY <2>1, <2>2, <2>5 DEF ScanInv, Covers
  <2>7. QED
    BY <2>4, <2>6
<1>4. QED
  BY <1>1, <1>2, <1>3

LEMMA ScanRgInv ==
  ASSUME RgInv, NEW t \in RgThreads,
         List(t) \/ ScanKnown(t) \/ ScanRead(t) \/ ScanPublish(t) \/ ScanEnd(t) \/ Release(t)
  PROVE  RgInv'
<1> USE DEF RgInv, RgTypeInv, RgTypeOK
<1>1. CASE List(t)
  <2>1. Listing(rgFolders) \in Seq(RgNames) /\ Range(Listing(rgFolders)) = rgFolders
    BY ListingRange
  <2>2. RgTypeInv'
    BY <1>1, <2>1 DEF List, rgTables
  <2>3. ScanInv'
    <3>1. CASE rgDone
      BY <1>1, <3>1 DEF List, rgTables, ScanInv, Covers
    <3>2. CASE ~rgDone
      <4>1. /\ rgAt' = [rgAt EXCEPT ![t] = "scan"]
            /\ rgScan' = [rgScan EXCEPT ![t] = Listing(rgFolders)]
            /\ UNCHANGED <<rgFolders, rgKnown, rgFactories, rgInstance, rgDone, rgWant, rgRead>>
        BY <1>1, <3>2 DEF List, rgTables
      <4>2. Covers(t)' /\ Range(rgScan'[t]) \subseteq rgFolders
        BY <2>1, <4>1 DEF ScanInv, Covers, Readable
      <4>3. \A u \in RgThreads \ {t} : Covers(u)' = Covers(u)
        BY <4>1 DEF Covers
      <4>4. QED
        BY <4>1, <4>2, <4>3 DEF ScanInv
    <3>3. QED
      BY <3>1, <3>2
  <2>4. QED
    BY <2>2, <2>3
<1>2. CASE ScanKnown(t)
  <2>1. Tail(rgScan[t]) \in Seq(RgNames) /\ Range(rgScan[t]) = {Head(rgScan[t])} \cup Range(Tail(rgScan[t]))
    BY <1>2, HeadOfScan DEF ScanKnown
  <2>2. RgTypeInv'
    BY <1>2, <2>1 DEF ScanKnown, rgTables
  <2>3. ScanInv'
    BY <1>2, <2>1 DEF ScanKnown, rgTables, ScanInv, Covers
  <2>4. QED
    BY <2>2, <2>3
<1>3. CASE ScanRead(t)
  <2>1. /\ Head(rgScan[t]) \in RgNames /\ Tail(rgScan[t]) \in Seq(RgNames)
        /\ Range(rgScan[t]) = {Head(rgScan[t])} \cup Range(Tail(rgScan[t]))
    BY <1>3, HeadOfScan DEF ScanRead
  <2>2. RgTypeInv'
    BY <1>3, <2>1 DEF ScanRead, rgTables
  <2>3. ScanInv'
    BY <1>3, <2>1 DEF ScanRead, rgTables, ScanInv, Covers, Readable
  <2>4. QED
    BY <2>2, <2>3
<1>4. CASE ScanPublish(t)
  <2>1. rgRead[t] \in rgFolders \ RgBroken /\ rgRead[t] \in RgNames /\ 0 \in 0..RgMax
    BY <1>4, RgAssumption DEF ScanPublish, ScanInv
  <2>2. RgTypeInv'
    BY <1>4, <2>1 DEF ScanPublish
  <2>3. ScanInv'
    BY <1>4, <2>1 DEF ScanPublish, ScanInv, Covers
  <2>4. QED
    BY <2>2, <2>3
<1>5. CASE ScanEnd(t)
  <2>1. Range(rgScan[t]) = {}
    BY <1>5 DEF ScanEnd, Range
  <2>2. RgTypeInv'
    BY <1>5 DEF ScanEnd, rgTables
  <2>3. ScanInv'
    BY <1>5, <2>1 DEF ScanEnd, rgTables, ScanInv, Covers
  <2>4. QED
    BY <2>2, <2>3
<1>6. CASE Release(t)
  BY <1>6, Move DEF Release
<1>7. QED
  BY <1>1, <1>2, <1>3, <1>4, <1>5, <1>6

LEMMA DropInRgInv ==
  ASSUME RgInv, NEW n \in RgNames, DropIn(n)
  PROVE  RgInv'
BY DEF RgInv, RgTypeInv, RgTypeOK, ScanInv, Covers, DropIn, rgTables

LEMMA StepRgInv == ASSUME RgInv, NEW t \in RgThreads, RgStep(t, RgNames) PROVE RgInv'
BY GetRgInv, ScanRgInv DEF RgStep

LEMMA RgInvServes == RgInv => ListedIsComplete /\ InstalledFound
BY DEF RgInv, ScanInv, ListedIsComplete, InstalledFound, Readable
-----------------------------------------------------------------------------
(* Round robin.  While no folder is added every thread chooses from the    *)
(* same list, and the counter says how often round robin has been through  *)
(* it and how far it has come.                                             *)

Offered == Listing(Readable \ ArForbidden)

\* After q rounds and r agents of the next.
Rounds(q, r) ==
    /\ r < Len(Offered) /\ arCounter = q * Len(Offered) + r
    /\ \A i \in 1..Len(Offered) : arDrawn[Offered[i]] = IF i <= r THEN q + 1 ELSE q

RoundInv ==
    /\ arNames \in [RgThreads -> Seq(RgNames)]
    /\ arCounter \in 0..ArDraws
    /\ arDrawn \in [RgNames -> Nat]
    /\ rgFolders = AtStart =>
        /\ \A t \in RgThreads : arNames[t] \in {<<>>, Offered}
        /\ Offered # <<>> => \E q, r \in Nat : Rounds(q, r)

ArInv == RgInv /\ RoundInv

LEMMA Remainder ==
  ASSUME NEW q \in Nat, NEW r \in Nat, NEW L \in Nat, r < L
  PROVE  (q * L + r) % L = r
<1>1. q * L \in Nat /\ q * L + r \in Nat /\ L > 0
  OBVIOUS
<1>2. \A x \in Nat : x = L * (x \div L) + (x % L) /\ x \div L \in Nat /\ 0 <= x % L /\ x % L < L
  BY <1>1
<1> DEFINE d == (q * L + r) \div L
           m == (q * L + r) % L
<1>3. q * L + r = L * d + m /\ d \in Nat /\ m \in Nat /\ m < L
  BY <1>1, <1>2
<1> HIDE DEF d, m
<1>4. L * (q - d) = m - r
  BY <1>3
<1>5. q - d = 0
  <2>1. q - d >= 1 => L * (q - d) >= L
    BY <1>3
  <2>2. q - d <= -1 => L * (q - d) <= -L
    BY <1>3
  <2>3. QED
    BY <1>3, <1>4, <2>1, <2>2
<1>6. m = r
  BY <1>3, <1>4, <1>5
<1>7. QED
  BY <1>6 DEF m

LEMMA OfferedFacts ==
  /\ Offered \in Seq(RgNames) /\ Len(Offered) \in Nat
  /\ Offered # <<>> <=> Len(Offered) # 0
  /\ \A i \in 1..Len(Offered) : Offered[i] \in RgNames
  /\ \A i, j \in 1..Len(Offered) : Offered[i] = Offered[j] => i = j
  /\ \A n \in Readable \ ArForbidden : \E i \in 1..Len(Offered) : Offered[i] = n
<1>1. Readable \ ArForbidden \in SUBSET RgNames
  BY DEF Readable, AtStart
<1>2. Offered \in Seq(RgNames)
  BY <1>1, ListingRange DEF Offered
<1>3. /\ Len(Offered) \in Nat /\ (Offered # <<>> <=> Len(Offered) # 0)
      /\ \A i \in 1..Len(Offered) : Offered[i] \in RgNames
  BY <1>2, LenProperties, EmptySeq, ElementOfSeq
<1>4. QED
  BY <1>1, <1>2, <1>3, ListingFacts DEF Offered

LEMMA InitArInv == ArInit => ArInv
<1> SUFFICES ASSUME ArInit PROVE ArInv
  OBVIOUS
<1>1. Offered # <<>> => Rounds(0, 0)
  BY OfferedFacts DEF ArInit, Rounds
<1>2. RoundInv
  BY <1>1, ArAssumption DEF ArInit, RoundInv
<1>3. QED
  BY <1>2, InitRgInv DEF ArInv, ArInit

\* One more choice: the next agent of the round, or the first of a new one.
LEMMA NextRound ==
  ASSUME NEW q \in Nat, NEW r \in Nat, Rounds(q, r), arDrawn \in [RgNames -> Nat],
         arDrawn' = [arDrawn EXCEPT ![Offered[1 + r]] = @ + 1], arCounter' = arCounter + 1
  PROVE  \E p, s \in Nat : Rounds(p, s)'
<1> DEFINE L == Len(Offered)
<1>1. L \in Nat /\ 1 + r \in 1..L /\ L' = L /\ Offered' = Offered
  BY OfferedFacts DEF Rounds
<1>2. \A i \in 1..L : arDrawn'[Offered[i]] =
                        IF i = 1 + r THEN arDrawn[Offered[i]] + 1 ELSE arDrawn[Offered[i]]
  BY <1>1, OfferedFacts
<1>3. \A i \in 1..L : arDrawn'[Offered[i]] = IF i <= r + 1 THEN q + 1 ELSE q
  BY <1>1, <1>2 DEF Rounds
<1>4. CASE r + 1 < L
  <2>1. arCounter' = q * L + (r + 1)
    BY <1>1 DEF Rounds
  <2>2. Rounds(q, r + 1)'
    BY <1>1, <1>3, <1>4, <2>1 DEF Rounds
  <2>3. QED
    BY <2>2
<1>5. CASE r + 1 = L
  <2>1. arCounter' = (q + 1) * L + 0
    <3>1. arCounter' = q * L + L
      BY <1>1, <1>5 DEF Rounds
    <3>2. QED
      BY <1>1, <3>1
  <2>2. \A i \in 1..L : arDrawn'[Offered[i]] = IF i <= 0 THEN (q + 1) + 1 ELSE q + 1
    BY <1>1, <1>3, <1>5
  <2>3. Rounds(q + 1, 0)'
    BY <1>1, <2>1, <2>2 DEF Rounds
  <2>4. QED
    BY <2>3
<1>6. QED
  BY <1>1, <1>4, <1>5

\* What others do to the registry leaves round robin alone.
LEMMA RoundInvKept ==
  ASSUME RoundInv, RgInv, UNCHANGED <<arNames, arCounter, arDrawn>>,
         rgFolders' = rgFolders \/ \E n \in RgNames : DropIn(n)
  PROVE  RoundInv'
<1>1. rgFolders' = AtStart => rgFolders = AtStart
  BY DEF DropIn, RgInv, ScanInv
<1>2. Offered' = Offered
  OBVIOUS
<1>3. \A q, r \in Nat : Rounds(q, r) => Rounds(q, r)'
  BY <1>2 DEF Rounds
<1>4. QED
  BY <1>1, <1>2, <1>3 DEF RoundInv

LEMMA StepArInv == ArInv /\ [ArNext]_arVars => ArInv'
<1> SUFFICES ASSUME RgInv, RoundInv, [ArNext]_arVars PROVE ArInv'
  BY DEF ArInv
<1> USE DEF ArInv
<1>1. ASSUME NEW t \in RgThreads, RgStep(t, RgNames \ ArForbidden),
             UNCHANGED <<arNames, arCounter, arDrawn>>
      PROVE  ArInv'
  <2>1. RgStep(t, RgNames)
    BY <1>1 DEF RgStep
  <2>2. rgFolders' = rgFolders
    BY <2>1 DEF RgStep, GetCached, GetMade, GetNothing, List, ScanKnown, ScanRead,
                ScanPublish, ScanEnd, Release
  <2>3. QED
    BY <1>1, <2>1, <2>2, StepRgInv, RoundInvKept
<1>2. ASSUME NEW n \in RgNames, DropIn(n), UNCHANGED <<arNames, arCounter, arDrawn>>
      PROVE  ArInv'
  BY <1>2, DropInRgInv, RoundInvKept
<1>3. ASSUME NEW t \in RgThreads, NEW n \in RgNames, Refuse(t, n) PROVE ArInv'
  <2>1. RgInv'
    BY <1>3, Move DEF Refuse
  <2>2. QED
    BY <1>3, <2>1, RoundInvKept DEF Refuse
<1>4. ASSUME NEW t \in RgThreads, Candidates(t) PROVE ArInv'
  <2>1. RgInv'
    BY <1>4, Move DEF Candidates, RgInv, RgTypeInv
  <2>2. rgFolders = AtStart => rgKnown = Readable
    BY <1>4 DEF Candidates, RgInv, ScanInv, Readable
  <2>3. Listing(rgKnown \ ArForbidden) \in Seq(RgNames)
    <3>1. rgKnown \ ArForbidden \in SUBSET RgNames
      BY DEF RgInv, RgTypeInv, RgTypeOK
    <3>2. QED
      BY <3>1, ListingRange
  <2>4. rgFolders = AtStart => Listing(rgKnown \ ArForbidden) = Offered
    BY <2>2 DEF Offered
  <2>5. UNCHANGED <<rgFolders, arCounter, arDrawn>>
        /\ arNames' = [arNames EXCEPT ![t] = Listing(rgKnown \ ArForbidden)]
    BY <1>4 DEF Candidates
  <2>6. \A q, r \in Nat : Rounds(q, r) => Rounds(q, r)'
    BY <2>5 DEF Rounds
  <2>7. RoundInv'
    BY <2>3, <2>4, <2>5, <2>6 DEF RoundInv
  <2>8. QED
    BY <2>1, <2>7
<1>5. ASSUME NEW t \in RgThreads, RoundRobin(t) PROVE ArInv'
  <2> DEFINE s == arNames[t]
             n == s[1 + (arCounter % Len(s))]
  <2>1. /\ UNCHANGED rgVars /\ s # <<>> /\ arCounter < ArDraws
        /\ arDrawn' = [arDrawn EXCEPT ![n] = @ + 1] /\ arCounter' = arCounter + 1
        /\ arNames' = [arNames EXCEPT ![t] = <<>>]
    BY <1>5 DEF RoundRobin
  <2>2. RgInv'
    BY <2>1 DEF RgInv, RgTypeInv, RgTypeOK, ScanInv, Covers, rgVars
  <2>3. arCounter' \in 0..ArDraws /\ <<>> \in Seq(RgNames)
    BY <2>1, ArAssumption DEF RoundInv
  <2>4. arDrawn' \in [RgNames -> Nat] /\ arNames' \in [RgThreads -> Seq(RgNames)]
    BY <2>1, <2>3 DEF RoundInv
  <2>5. ASSUME rgFolders = AtStart
        PROVE  \E p, r \in Nat : Rounds(p, r)'
    <3>1. s = Offered
      BY <2>1, <2>5 DEF RoundInv
    <3>2. PICK q \in Nat, r \in Nat : Rounds(q, r)
      BY <2>1, <2>5, <3>1 DEF RoundInv
    <3>3. arCounter % Len(Offered) = r
      BY <3>2, Remainder, OfferedFacts DEF Rounds
    <3>4. n = Offered[1 + r]
      BY <3>1, <3>3
    <3>5. QED
      BY <2>1, <3>2, <3>4, NextRound DEF RoundInv
  <2>6. RoundInv'
    BY <2>1, <2>3, <2>4, <2>5 DEF RoundInv, rgVars
  <2>7. QED
    BY <2>2, <2>6
<1>6. CASE UNCHANGED arVars
  <2>1. RgInv'
    BY <1>6 DEF RgInv, RgTypeInv, RgTypeOK, ScanInv, Covers, rgVars, arVars
  <2>2. QED
    BY <1>6, <2>1, RoundInvKept DEF rgVars, arVars
<1>7. QED
  BY <1>1, <1>2, <1>3, <1>4, <1>5, <1>6 DEF ArNext

LEMMA RoundInvBalanced == RoundInv => RoundRobinBalanced
<1> SUFFICES ASSUME RoundInv, rgFolders = AtStart,
                    NEW m \in Readable \ ArForbidden, NEW n \in Readable \ ArForbidden
             PROVE  arDrawn[m] <= arDrawn[n] + 1
  BY DEF RoundRobinBalanced, Readable
<1>1. PICK i \in 1..Len(Offered), j \in 1..Len(Offered) : Offered[i] = m /\ Offered[j] = n
  BY OfferedFacts
<1>2. PICK q \in Nat, r \in Nat : Rounds(q, r)
  BY <1>1, OfferedFacts DEF RoundInv
<1>3. arDrawn[m] \in {q, q + 1} /\ arDrawn[n] \in {q, q + 1}
  BY <1>1, <1>2, OfferedFacts DEF Rounds
<1>4. QED
  BY <1>3
-----------------------------------------------------------------------------
(* The policies.  A thread that asked a policy chooses when it is listed,  *)
(* and keeps what it chose.                                                *)

\* A policy's best is one of those it chooses from.
LEMMA BestFacts ==
  ASSUME NEW ms \in SUBSET RgNames, ms # {},
         NEW first \in [RgNames -> Nat], NEW second \in [RgNames -> Nat]
  PROVE  Best(ms, first, second) \in ms
<1> DEFINE least == {first[m] : m \in ms}
<1>1. PICK x \in least : \A y \in least : x <= y
  <2>1. least \subseteq Nat /\ least # {}
    OBVIOUS
  <2> HIDE DEF least
  <2>2. QED
    BY <2>1, LeastNatural
<1> DEFINE ties == {second[m] : m \in {n \in ms : first[n] = x}}
<1>2. PICK z \in ties : \A y \in ties : z <= y
  <2>1. ties \subseteq Nat /\ ties # {}
    BY <1>1
  <2> HIDE DEF ties, least
  <2>2. QED
    BY <2>1, LeastNatural
<1>3. PICK m \in ms : first[m] = x /\ second[m] = z
  BY <1>2
<1>4. \A n \in ms \ {m} : \/ first[m] < first[n]
                          \/ first[m] = first[n] /\ second[m] <= second[n]
  <2> SUFFICES ASSUME NEW n \in ms
               PROVE  first[m] < first[n] \/ (first[m] = first[n] /\ second[m] <= second[n])
    OBVIOUS
  <2>1. first[n] \in Nat /\ first[m] \in Nat /\ x <= first[n]
    BY <1>1
  <2>2. first[n] = x => z <= second[n]
    BY <1>2
  <2>3. QED
    BY <1>3, <2>1, <2>2
<1>5. \E b \in ms : \A n \in ms \ {b} : \/ first[b] < first[n]
                                        \/ first[b] = first[n] /\ second[b] <= second[n]
  BY <1>4
<1>6. QED
  BY <1>5 DEF Best

\* What privacy and availability ask of the choice of a thread.
Chosen(t) ==
    /\ mrPolicy[t] = "privacy_first" /\ mrPick[t] \in RgNames
         => mrPick[t] \in MrLocal \/ AtStart \cap MrLocal \subseteq RgBroken
    /\ mrPick[t] = "unavailable" /\ mrPolicy[t] # "by_name" => AtStart \subseteq RgBroken

PickInv ==
    /\ mrPolicy \in [RgThreads -> MrPolicies \cup {NoName}]
    /\ mrPick \in [RgThreads -> RgNames \cup {NoName, "unavailable"}]
    /\ \A t \in RgThreads : mrPolicy[t] = NoName => mrPick[t] = NoName
    /\ \A t \in RgThreads : rgAt[t] \in {"scan", "read", "listed"} \/ Chosen(t)

MrInv == RgInv /\ PickInv

LEMMA InitMrInv == MrInit => MrInv
BY InitRgInv, MrAssumption DEF MrInit, MrInv, PickInv, Chosen, NoName

LEMMA StepMrInv == MrInv /\ [MrNext]_mrVars => MrInv'
<1> SUFFICES ASSUME RgInv, PickInv, [MrNext]_mrVars PROVE MrInv'
  BY DEF MrInv
<1> USE DEF MrInv
<1>1. ASSUME NEW t \in RgThreads, GetModel(t) PROVE MrInv'
  <2>1. PICK n \in RgNames : GetCached(t, n) \/ GetMade(t, n) \/ GetNothing(t, n)
    BY <1>1 DEF GetModel
  <2>2. RgInv'
    BY <2>1, GetRgInv
  <2>3. rgAt[t] = "idle" /\ \A u \in RgThreads \ {t} : rgAt'[u] = rgAt[u]
    BY <2>1 DEF GetCached, GetMade, GetNothing, RgInv, RgTypeInv, RgTypeOK
  <2>4. PickInv'
    BY <1>1, <2>3 DEF GetModel, PickInv, Chosen
  <2>5. QED
    BY <2>2, <2>4
<1>2. ASSUME NEW t \in RgThreads, DiscoverModels(t) PROVE MrInv'
  <2>1. RgInv'
    BY <1>2, ScanRgInv DEF DiscoverModels
  <2>2. rgAt'[t] \in {"scan", "read", "listed"} /\ \A u \in RgThreads \ {t} : rgAt'[u] = rgAt[u]
    BY <1>2 DEF DiscoverModels, ScanKnown, ScanRead, ScanPublish, ScanEnd, RgInv, RgTypeInv, RgTypeOK
  <2>3. PickInv'
    BY <1>2, <2>2 DEF DiscoverModels, PickInv, Chosen
  <2>4. QED
    BY <2>1, <2>3
<1>3. ASSUME NEW t \in RgThreads, AskFor(t) PROVE MrInv'
  <2>1. RgInv'
    BY <1>3, ScanRgInv DEF AskFor
  <2>2. rgAt'[t] \in {"scan", "read", "listed"} /\ \A u \in RgThreads \ {t} : rgAt'[u] = rgAt[u]
    BY <1>3 DEF AskFor, List, RgInv, RgTypeInv, RgTypeOK
  <2>3. PickInv'
    BY <1>3, <2>2 DEF AskFor, PickInv, Chosen, MrPolicies, NoName
  <2>4. QED
    BY <2>1, <2>3
<1>4. ASSUME NEW t \in RgThreads, Select(t) PROVE MrInv'
  <2>1. RgInv'
    BY <1>4, Move DEF Select, RgInv, RgTypeInv
  <2>2. /\ rgKnown \in SUBSET RgNames /\ Readable \subseteq rgKnown
        /\ rgFactories = rgKnown
    BY <1>4 DEF Select, RgInv, RgTypeInv, RgTypeOK, ScanInv
  <2>3. MrLatency \in [RgNames -> Nat] /\ MrCost \in [RgNames -> Nat]
    BY MrAssumption DEF RgNames
  <2>4. /\ mrPick' \in [RgThreads -> RgNames \cup {NoName, "unavailable"}]
        /\ \A u \in RgThreads \ {t} : mrPick'[u] = mrPick[u]
        /\ mrPolicy[t] = "privacy_first" /\ mrPick'[t] \in RgNames
             => mrPick'[t] \in MrLocal \/ AtStart \cap MrLocal \subseteq RgBroken
        /\ mrPick'[t] = "unavailable" /\ mrPolicy[t] # "by_name" => AtStart \subseteq RgBroken
    <3>1. CASE mrPolicy[t] = "by_name"
      BY <1>4, <2>2, <3>1 DEF Select, PickInv
    <3>2. CASE mrPolicy[t] # "by_name" /\ rgKnown = {}
      <4>1. mrPick' = [mrPick EXCEPT ![t] = "unavailable"]
        BY <1>4, <3>2 DEF Select
      <4>2. QED
        BY <2>2, <3>2, <4>1, MrAssumption DEF PickInv, Readable, RgNames
    <3>3. CASE mrPolicy[t] = "privacy_first" /\ rgKnown # {}
      <4> DEFINE m == Best(Pool(rgKnown), MrLatency, MrLatency)
      <4>1. mrPick' = [mrPick EXCEPT ![t] = m]
        BY <1>4, <3>3 DEF Select
      <4>2. Pool(rgKnown) \in SUBSET rgKnown /\ Pool(rgKnown) # {}
        BY <3>3 DEF Pool
      <4>3. m \in Pool(rgKnown)
        BY <2>2, <2>3, <4>2, BestFacts
      <4>4. m \in MrLocal \/ AtStart \cap MrLocal \subseteq RgBroken
        BY <2>2, <4>3 DEF Pool, Readable
      <4> HIDE DEF m
      <4>5. QED
        BY <2>2, <4>1, <4>2, <4>3, <4>4, MrAssumption DEF PickInv, RgNames
    <3>4. CASE mrPolicy[t] = "cost_optimized" /\ rgKnown # {}
      <4> DEFINE m == Best(rgKnown, MrCost, MrLatency)
      <4>1. mrPick' = [mrPick EXCEPT ![t] = m]
        BY <1>4, <3>4 DEF Select
      <4>2. m \in rgKnown
        BY <2>2, <2>3, <3>4, BestFacts
      <4> HIDE DEF m
      <4>3. QED
        BY <2>2, <3>4, <4>1, <4>2, MrAssumption DEF PickInv, RgNames
    <3>5. CASE mrPolicy[t] \notin {"by_name", "privacy_first", "cost_optimized"} /\ rgKnown # {}
      <4> DEFINE m == Best(rgKnown, MrLatency, MrCost)
      <4>1. mrPick' = [mrPick EXCEPT ![t] = m]
        BY <1>4, <3>5 DEF Select
      <4>2. m \in rgKnown
        BY <2>2, <2>3, <3>5, BestFacts
      <4> HIDE DEF m
      <4>3. QED
        BY <2>2, <3>5, <4>1, <4>2, MrAssumption DEF PickInv, RgNames
    <3>6. QED
      BY <3>1, <3>2, <3>3, <3>4, <3>5
  <2>5. /\ mrPolicy' = mrPolicy /\ mrPolicy[t] # NoName
        /\ \A u \in RgThreads \ {t} : rgAt'[u] = rgAt[u]
    BY <1>4 DEF Select, RgInv, RgTypeInv, RgTypeOK
  <2>6. PickInv'
    BY <2>4, <2>5 DEF PickInv, Chosen
  <2>7. QED
    BY <2>1, <2>6
<1>5. ASSUME NEW t \in RgThreads, Release(t), rgAt[t] # "listed", UNCHANGED <<mrPolicy, mrPick>>
      PROVE  MrInv'
  <2>1. RgInv'
    BY <1>5, ScanRgInv
  <2>2. PickInv'
    BY <1>5 DEF Release, PickInv, Chosen, RgInv, RgTypeInv, RgTypeOK
  <2>3. QED
    BY <2>1, <2>2
<1>6. ASSUME NEW n \in RgNames, DropIn(n), UNCHANGED <<mrPolicy, mrPick>> PROVE MrInv'
  BY <1>6, DropInRgInv DEF DropIn, PickInv, Chosen
<1>7. CASE UNCHANGED mrVars
  <2>1. RgInv'
    BY <1>7 DEF RgInv, RgTypeInv, RgTypeOK, ScanInv, Covers, rgVars, mrVars
  <2>2. QED
    BY <1>7, <2>1 DEF PickInv, Chosen, rgVars, mrVars
<1>8. QED
  BY <1>1, <1>2, <1>3, <1>4, <1>5, <1>6, <1>7 DEF MrNext

LEMMA PickInvServes == PickInv => PrivacyKept /\ PolicyFindsModel
BY DEF PickInv, Chosen, PrivacyKept, PolicyFindsModel

(***************************************************************************)
(* The results                                                             *)
(***************************************************************************)
\* Whoever lists agents finds all that was installed when the process began,
\* no get takes an installed agent for unknown, and round robin is fair,
\* however the threads' discoveries overlap.
THEOREM AgentsServed ==
  ArSpec => [](ListedIsComplete /\ InstalledFound /\ RoundRobinBalanced)
<1>1. ArInv => ListedIsComplete /\ InstalledFound /\ RoundRobinBalanced
  BY RgInvServes, RoundInvBalanced DEF ArInv
<1>2. QED
  BY InitArInv, StepArInv, <1>1, PTL DEF ArSpec

\* A policy chooses from all readable models, and privacy_first a local one
\* when there is one, while other threads are still discovering.
THEOREM ModelsChosen ==
  MrSpec => [](ListedIsComplete /\ InstalledFound /\ PrivacyKept /\ PolicyFindsModel)
<1>1. MrInv => ListedIsComplete /\ InstalledFound /\ PrivacyKept /\ PolicyFindsModel
  BY RgInvServes, PickInvServes DEF MrInv
<1>2. QED
  BY InitMrInv, StepMrInv, <1>1, PTL DEF MrSpec

\* A step of any thread, or a new folder, keeps every cached instance unless
\* some thread is discovering: only a manifest published again throws one out.
KeepsInstances ==
    (\A t \in RgThreads : rgAt[t] \notin {"scan", "read"})
        => \A n \in RgNames : rgInstance[n] # 0 => rgInstance'[n] = rgInstance[n]

LEMMA StepKeepsInstances ==
  ASSUME RgInv, NEW t \in RgThreads, RgStep(t, RgNames)
  PROVE  KeepsInstances
<1> SUFFICES ASSUME rgAt[t] \notin {"scan", "read"},
                    NEW n \in RgNames, rgInstance[n] # 0
             PROVE  rgInstance'[n] = rgInstance[n]
  BY DEF KeepsInstances
<1>1. n \in rgKnown /\ n \in rgFactories
  BY DEF RgInv, ScanInv
<1>2. n \notin Found
  BY <1>1 DEF Found
<1>3. ASSUME NEW m \in RgNames, GetMade(t, m) PROVE rgInstance'[n] = rgInstance[n]
  BY <1>2, <1>3 DEF GetMade
<1>4. ASSUME NEW m \in RgNames, GetNothing(t, m) PROVE rgInstance'[n] = rgInstance[n]
  BY <1>2, <1>4 DEF GetNothing
<1>5. CASE \/ \E m \in RgNames : GetCached(t, m)
           \/ List(t) \/ ScanKnown(t) \/ ScanRead(t) \/ ScanPublish(t) \/ ScanEnd(t) \/ Release(t)
  BY <1>5 DEF GetCached, List, ScanKnown, ScanRead, ScanPublish, ScanEnd, Release, rgTables
<1>6. QED
  BY <1>3, <1>4, <1>5 DEF RgStep

\* Once no thread is discovering, a cached instance stays.
THEOREM InstancesKept == RgSpec => InstancesSettle
<1>1. RgInv /\ [RgNext]_rgVars => RgInv'
  <2> SUFFICES ASSUME RgInv, [RgNext]_rgVars PROVE RgInv'
    OBVIOUS
  <2>1. CASE UNCHANGED rgVars
    BY <2>1 DEF RgInv, RgTypeInv, RgTypeOK, ScanInv, Covers, rgVars
  <2>2. QED
    BY <2>1, StepRgInv, DropInRgInv DEF RgNext
<1>2. RgInv /\ [RgNext]_rgVars => [KeepsInstances]_rgVars
  BY StepKeepsInstances DEF RgNext, DropIn, KeepsInstances, rgTables
<1>3. QED
  BY InitRgInv, <1>1, <1>2, PTL DEF RgSpec, InstancesSettle, KeepsInstances

-----------------------------------------------------------------------------
(* RateLimiter.                                                            *)

\* What RlTypeOK leaves open, and the clock ahead of all that was read.
ClockInv ==
    /\ rlHits \in [RlKeys -> Seq(0..RlHorizon)]
    /\ rlInWindow \in [RlThreads -> Nat]
    /\ \A t \in RlThreads : rlNow[t] <= rlClock
    /\ Cardinality(InFlight) <= RlWorkers

RlTypeInv == RlTypeOK /\ ClockInv

\* Kept drops a prefix of expired entries and stops at one that is not.
LEMMA KeptIsSuffix ==
  ASSUME NEW q \in Seq(0..RlHorizon), NEW now \in 0..RlHorizon
  PROVE  \E d \in 0..Len(q) :
            /\ Kept(q, now) = SubSeq(q, 1 + d, Len(q))
            /\ \A j \in 1..d : now > q[j] + RateWindow
            /\ d < Len(q) => now <= q[d + 1] + RateWindow
<1> DEFINE expired == {i \in 0..Len(q) : \A j \in 1..i : now > q[j] + RateWindow}
           stops == {i \in 0..Len(q) : i = Len(q) \/ ~(now > q[i + 1] + RateWindow)}
<1>1. Len(q) \in Nat
  BY LenProperties
<1>2. PICK d \in stops : \A y \in stops : d <= y
  <2>1. stops \subseteq Nat /\ Len(q) \in stops
    BY <1>1
  <2>2. QED
    BY <2>1, LeastNatural
<1>3. \A j \in 1..d : now > q[j] + RateWindow
  <2> SUFFICES ASSUME NEW j \in 1..d PROVE now > q[j] + RateWindow
    OBVIOUS
  <2>1. j - 1 \in 0..Len(q) /\ ~(d <= j - 1) /\ (j - 1) + 1 = j
    BY <1>1
  <2>2. QED
    BY <1>2, <2>1
<1>4. d \in expired
  BY <1>3
<1>5. \A i \in expired : i <= d
  <2> SUFFICES ASSUME NEW i \in expired, i > d PROVE FALSE
    BY <1>1
  <2>1. d < Len(q) /\ d + 1 \in 1..i
    BY <1>1
  <2>2. QED
    BY <2>1
<1>6. d = CHOOSE i \in expired : \A j \in expired : j <= i
  <2>1. \A i \in expired : (\A j \in expired : j <= i) => i = d
    BY <1>1, <1>4, <1>5
  <2>2. QED
    BY <1>4, <1>5, <2>1
<1>7. Kept(q, now) = SubSeq(q, 1 + d, Len(q))
  BY <1>6 DEF Kept
<1>8. d < Len(q) => now <= q[d + 1] + RateWindow
  <2> SUFFICES ASSUME d < Len(q) PROVE now <= q[d + 1] + RateWindow
    OBVIOUS
  <2>1. ~(now > q[d + 1] + RateWindow)
    BY <1>1
  <2>2. d + 1 \in 1..Len(q)
    BY <1>1
  <2>3. q[d + 1] \in 0..RlHorizon
    BY <2>2, ElementOfSeq
  <2>4. QED
    BY <2>1, <2>3, RlAssumption
<1>9. QED
  BY <1>3, <1>7, <1>8
-----------------------------------------------------------------------------
LEMMA InFlightFinite == IsFiniteSet(InFlight) /\ Cardinality(InFlight) \in Nat
<1>1. IsFiniteSet(InFlight)
  BY RlAssumption, FS_Subset DEF InFlight
<1>2. QED
  BY <1>1, FS_CardinalityType

LEMMA InitRlTypeInv == RlInit => RlTypeInv
<1> SUFFICES ASSUME RlInit PROVE RlTypeInv
  OBVIOUS
<1>1. InFlight = {}
  BY DEF RlInit, InFlight
<1>2. Cardinality(InFlight) <= RlWorkers
  BY <1>1, RlAssumption, FS_EmptySet
<1>3. (CHOOSE k \in RlKeys : TRUE) \in RlKeys
  BY RlAssumption
<1>4. 0 \in 0..RlHorizon /\ <<>> \in Seq(0..RlHorizon)
  BY RlAssumption
<1>5. RlTypeOK
  BY <1>3, <1>4 DEF RlInit, RlTypeOK
<1>6. ClockInv
  BY <1>2, <1>4 DEF RlInit, ClockInv
<1>7. QED
  BY <1>5, <1>6 DEF RlTypeInv

\* What is left of a queue is a queue, and so is what is left with the new
\* arrival at its end.
LEMMA KeptType ==
  ASSUME NEW q \in Seq(0..RlHorizon), NEW now \in 0..RlHorizon
  PROVE  /\ Kept(q, now) \in Seq(0..RlHorizon)
         /\ Append(Kept(q, now), now) \in Seq(0..RlHorizon)
<1>1. PICK d \in 0..Len(q) : Kept(q, now) = SubSeq(q, 1 + d, Len(q))
  BY KeptIsSuffix
<1>2. Len(q) \in Nat
  BY LenProperties
<1>3. \A i \in 1 + d .. Len(q) : q[i] \in 0..RlHorizon
  <2> SUFFICES ASSUME NEW i \in 1 + d .. Len(q) PROVE q[i] \in 0..RlHorizon
    OBVIOUS
  <2>1. i \in 1..Len(q)
    BY <1>2
  <2>2. QED
    BY <2>1, ElementOfSeq
<1>4. SubSeq(q, 1 + d, Len(q)) \in Seq(0..RlHorizon)
  BY <1>2, <1>3, SubSeqProperties
<1>5. QED
  BY <1>1, <1>4, AppendProperties

LEMMA StepRlTypeInv == RlTypeInv /\ [RlNext]_rlVars => RlTypeInv'
<1> SUFFICES ASSUME RlTypeInv, [RlNext]_rlVars PROVE RlTypeInv'
  OBVIOUS
<1> USE DEF RlTypeInv
<1>1. CASE Tick
  <2>1. rlClock' \in 0..RlHorizon /\ rlClock' > rlClock
    BY <1>1, RlAssumption DEF Tick, RlTypeOK
  <2>2. RlTypeOK'
    BY <1>1, <2>1 DEF Tick, RlTypeOK
  <2>3. InFlight' = InFlight
    BY <1>1 DEF Tick, InFlight
  <2>4. \A t \in RlThreads : rlNow'[t] <= rlClock'
    BY <1>1, <2>1, RlAssumption DEF Tick, RlTypeOK, ClockInv
  <2>5. QED
    BY <1>1, <2>2, <2>3, <2>4 DEF Tick, ClockInv
<1>2. ASSUME NEW t \in RlThreads, ReadClock(t) PROVE RlTypeInv'
  <2>1. RlTypeOK'
    BY <1>2 DEF ReadClock, RlTypeOK
  <2>2. InFlight' = InFlight \cup {t}
    BY <1>2 DEF ReadClock, InFlight, RlTypeOK
  <2>3. Cardinality(InFlight') <= RlWorkers
    <3>1. Cardinality(InFlight \cup {t}) <= Cardinality(InFlight) + 1
      BY InFlightFinite, FS_AddElement
    <3>2. Cardinality(InFlight) < RlWorkers /\ Cardinality(InFlight \cup {t}) \in Nat
      BY <1>2, InFlightFinite, FS_AddElement, FS_CardinalityType DEF ReadClock
    <3>3. QED
      BY <2>2, <3>1, <3>2, RlAssumption, InFlightFinite
  <2>4. \A u \in RlThreads : rlNow'[u] <= rlClock'
    BY <1>2 DEF ReadClock, RlTypeOK, ClockInv
  <2>5. QED
    BY <1>2, <2>1, <2>3, <2>4 DEF ReadClock, ClockInv
<1>3. ASSUME NEW t \in RlThreads, RateLimited(t) PROVE RlTypeInv'
  <2> DEFINE k == rlKey[t]
             q == Kept(rlHits[k], rlNow[t])
             full == Len(q) >= RateMax
  <2>1. k \in RlKeys /\ rlNow[t] \in 0..RlHorizon /\ rlHits[k] \in Seq(0..RlHorizon)
    BY DEF RlTypeOK
  <2>2. q \in Seq(0..RlHorizon) /\ Append(q, rlNow[t]) \in Seq(0..RlHorizon)
    BY <2>1, KeptType
  <2>3. rlHits' = [rlHits EXCEPT ![k] = IF full THEN q ELSE Append(q, rlNow[t])]
    BY <1>3 DEF RateLimited
  <2>4. rlHits' \in [RlKeys -> Seq(0..RlHorizon)]
    BY <2>2, <2>3 DEF ClockInv
  <2>5. rlInWindow' \in [RlThreads -> Nat]
    <3>1. IsFiniteSet(Recent(k, rlNow[t]))
      BY RlAssumption, FS_Subset DEF Recent
    <3>2. Cardinality(Recent(k, rlNow[t])) \in Nat
      BY <3>1, FS_CardinalityType
    <3>3. QED
      BY <1>3, <3>2 DEF RateLimited, ClockInv
  <2>6. RlTypeOK'
    BY <1>3, <2>4 DEF RateLimited, RlTypeOK
  <2>7. InFlight' \in SUBSET InFlight
    BY <1>3 DEF RateLimited, InFlight, RlTypeOK
  <2>8. Cardinality(InFlight') <= Cardinality(InFlight) /\ Cardinality(InFlight') \in Nat
    BY <2>7, InFlightFinite, FS_Subset, FS_CardinalityType
  <2>9. Cardinality(InFlight') <= RlWorkers
    BY <2>8, InFlightFinite, RlAssumption DEF ClockInv
  <2>10. QED
    BY <1>3, <2>4, <2>5, <2>6, <2>9 DEF RateLimited, ClockInv
<1>4. CASE UNCHANGED rlVars
  <2>1. InFlight' = InFlight
    BY <1>4 DEF rlVars, InFlight
  <2>2. QED
    BY <1>4, <2>1 DEF rlVars, RlTypeOK, ClockInv
<1>5. QED
  BY <1>1, <1>2, <1>3, <1>4 DEF RlNext
-----------------------------------------------------------------------------
(* RateWindowKept speaks of accepted requests, the code of a queue of      *)
(* times.  QueueInv relates them: the entries of a queue are the arrivals  *)
(* of different requests, in the order in which they were accepted, and an *)
(* accepted request whose entry is gone was older than the window of some  *)
(* request.  An entry is followed by at most RlWorkers - 1 older ones:     *)
(* their requests were in flight when its own read the clock.              *)

\* Some request has read a time after n.
Past(n) == \E u \in RlThreads : rlPc[u] # "new" /\ rlNow[u] > n

\* The requests older than entry i that come, or may still come, behind it.
Overtaken(own, i) ==
    {t \in RlThreads : /\ rlNow[t] < rlNow[own[i]]
                       /\ rlPc[t] = "timed" \/ \E j \in i + 1 .. Len(own) : t = own[j]}

\* own lists the requests whose arrivals are queued under k.
Owned(k, own) ==
    /\ Len(own) = Len(rlHits[k])
    /\ \A i, j \in 1..Len(own) : own[i] = own[j] => i = j
    /\ \A i \in 1..Len(own) : /\ rlPc[own[i]] = "accepted" /\ rlKey[own[i]] = k
                              /\ rlHits[k][i] = rlNow[own[i]]
    /\ \A t \in RlThreads : rlPc[t] = "accepted" /\ rlKey[t] = k =>
            (\E i \in 1..Len(own) : own[i] = t) \/ Past(rlNow[t] + RateWindow)
    /\ \A i \in 1..Len(own) : Cardinality(Overtaken(own, i)) <= RlWorkers - 1

QueueInv ==
    \A k \in RlKeys : /\ Len(rlHits[k]) <= RateMax
                      /\ \E own \in Seq(RlThreads) : Owned(k, own)

\* What the window that ends at n holds, and what may still be added to it
\* by requests that have read the clock.
Claim(k, n) ==
    {t \in RlThreads : /\ rlNow[t] <= n
                       /\ \/ rlPc[t] = "timed"
                          \/ /\ rlPc[t] = "accepted" /\ rlKey[t] = k
                             /\ n <= rlNow[t] + RateWindow}

\* Before a time after n is read the queue still has the whole window; from
\* then on it is only claimed by requests in flight at that moment.
WindowInv ==
    \A k \in RlKeys, n \in 0..RlHorizon :
        Past(n) => Cardinality(Claim(k, n)) <= RateMax + (RlWorkers - 1)

RlInv == QueueInv /\ WindowInv /\ RefusedWhenFull

LEMMA Suffix ==
  ASSUME NEW S, NEW q \in Seq(S), NEW d \in 0..Len(q)
  PROVE  /\ SubSeq(q, 1 + d, Len(q)) \in Seq(S)
         /\ Len(SubSeq(q, 1 + d, Len(q))) = Len(q) - d
         /\ \A i \in 1..Len(q) - d : /\ i + d \in 1..Len(q)
                                     /\ SubSeq(q, 1 + d, Len(q))[i] = q[i + d]
<1>1. Len(q) \in Nat /\ d \in Nat /\ d <= Len(q)
  BY LenProperties
<1>2. \A i \in 1 + d .. Len(q) : q[i] \in S
  <2> SUFFICES ASSUME NEW i \in 1 + d .. Len(q) PROVE q[i] \in S
    OBVIOUS
  <2>1. i \in 1..Len(q)
    BY <1>1
  <2>2. QED
    BY <2>1, ElementOfSeq
<1>3. /\ SubSeq(q, 1 + d, Len(q)) \in Seq(S)
      /\ Len(SubSeq(q, 1 + d, Len(q))) =
            IF 1 + d <= Len(q) THEN Len(q) - (1 + d) + 1 ELSE 0
      /\ \A i \in 1 .. Len(q) - (1 + d) + 1 :
            SubSeq(q, 1 + d, Len(q))[i] = q[(1 + d) + i - 1]
  BY <1>1, <1>2, SubSeqProperties
<1>4. \A i \in 1..Len(q) - d : i + d \in 1..Len(q) /\ (1 + d) + i - 1 = i + d
  BY <1>1
<1>5. Len(q) - (1 + d) + 1 = Len(q) - d
  BY <1>1
<1>6. Len(SubSeq(q, 1 + d, Len(q))) = Len(q) - d
  BY <1>1, <1>3
<1>7. ASSUME NEW i \in 1..Len(q) - d
      PROVE  SubSeq(q, 1 + d, Len(q))[i] = q[i + d]
  <2>1. SubSeq(q, 1 + d, Len(q))[i] = q[(1 + d) + i - 1]
    BY <1>3, <1>5
  <2>2. QED
    BY <1>4, <2>1
<1>8. QED
  BY <1>3, <1>4, <1>6, <1>7

LEMMA UpTo == \A n \in Nat : IsFiniteSet(1..n) /\ Cardinality(1..n) = n
<1> SUFFICES ASSUME NEW n \in Nat
             PROVE  IsFiniteSet(1..n) /\ Cardinality(1..n) = n
  OBVIOUS
<1>1. IsFiniteSet(1..n) /\ Cardinality(1..n) = IF 1 > n THEN 0 ELSE n - 1 + 1
  BY FS_Interval
<1>2. QED
  BY <1>1

\* Requests listed without repetition are as many as the list is long.
LEMMA ListedOnce ==
  ASSUME NEW own \in Seq(RlThreads), NEW S \in SUBSET RlThreads,
         \A i, j \in 1..Len(own) : own[i] = own[j] => i = j,
         \A i \in 1..Len(own) : own[i] \in S
  PROVE  Len(own) <= Cardinality(S)
<1>1. Len(own) \in Nat /\ own \in [1..Len(own) -> RlThreads]
  BY LenProperties
<1>2. IsFiniteSet(S)
  BY RlAssumption, FS_Subset
<1>3. own \in Injection(1..Len(own), S)
  BY <1>1 DEF Injection, IsInjective
<1>4. Cardinality(1..Len(own)) = Len(own)
  BY <1>1, UpTo
<1>5. QED
  BY <1>2, <1>3, <1>4, FS_Injection

LEMMA ListedAll ==
  ASSUME NEW own \in Seq(RlThreads), NEW S \in SUBSET RlThreads,
         \A t \in S : \E i \in 1..Len(own) : own[i] = t
  PROVE  Cardinality(S) <= Len(own)
<1> DEFINE R == {own[i] : i \in 1..Len(own)}
<1>1. Len(own) \in Nat /\ own \in [1..Len(own) -> RlThreads]
  BY LenProperties
<1>2. own \in Surjection(1..Len(own), R)
  BY <1>1 DEF Surjection
<1>3. IsFiniteSet(R) /\ Cardinality(R) <= Len(own)
  <2>1. IsFiniteSet(1..Len(own)) /\ Cardinality(1..Len(own)) = Len(own)
    BY <1>1, UpTo
  <2>2. QED
    BY <1>2, <2>1, FS_Surjection
<1>4. S \in SUBSET R
  OBVIOUS
<1>5. Cardinality(S) <= Cardinality(R) /\ Cardinality(R) \in Nat /\ Cardinality(S) \in Nat
  BY <1>3, <1>4, FS_Subset, FS_CardinalityType
<1>6. QED
  BY <1>1, <1>3, <1>5

LEMMA SubsetBound ==
  ASSUME NEW S \in SUBSET RlThreads, NEW T \in SUBSET S
  PROVE  Cardinality(T) <= Cardinality(S) /\ Cardinality(T) \in Nat /\ Cardinality(S) \in Nat
<1>1. IsFiniteSet(S) /\ IsFiniteSet(T)
  BY RlAssumption, FS_Subset
<1>2. QED
  BY <1>1, FS_Subset, FS_CardinalityType

LEMMA FewerBehind ==
  ASSUME NEW S \in SUBSET RlThreads, NEW T \in SUBSET S, Cardinality(S) <= RlWorkers - 1
  PROVE  Cardinality(T) <= RlWorkers - 1
BY SubsetBound, RlAssumption

LEMMA CountBoth ==
  ASSUME NEW S \in SUBSET RlThreads, NEW T \in SUBSET RlThreads
  PROVE  /\ Cardinality(S \cup T) <= Cardinality(S) + Cardinality(T)
         /\ Cardinality(T) \in Nat /\ Cardinality(S \cup T) \in Nat
<1>1. IsFiniteSet(S) /\ IsFiniteSet(T) /\ IsFiniteSet(S \cap T) /\ IsFiniteSet(S \cup T)
  BY RlAssumption, FS_Subset
<1>2. Cardinality(S \cup T) = Cardinality(S) + Cardinality(T) - Cardinality(S \cap T)
  BY <1>1, FS_Union
<1>3. /\ Cardinality(S) \in Nat /\ Cardinality(T) \in Nat
      /\ Cardinality(S \cap T) \in Nat /\ Cardinality(S \cup T) \in Nat
  BY <1>1, FS_CardinalityType
<1>4. QED
  BY <1>2, <1>3

\* A window whose end no request has passed is still in its queue.
LEMMA WindowQueued ==
  ASSUME RlTypeInv, QueueInv, NEW k \in RlKeys, NEW n \in 0..RlHorizon, ~Past(n)
  PROVE  Cardinality({t \in Recent(k, n) : rlNow[t] <= n}) <= RateMax
<1> DEFINE S == {t \in Recent(k, n) : rlNow[t] <= n}
<1>1. PICK own \in Seq(RlThreads) : Owned(k, own)
  BY DEF QueueInv
<1>2. ASSUME NEW t \in S PROVE \E i \in 1..Len(own) : own[i] = t
  <2>1. t \in RlThreads /\ rlPc[t] = "accepted" /\ rlKey[t] = k /\ n <= rlNow[t] + RateWindow
    BY DEF Recent
  <2>2. ~Past(rlNow[t] + RateWindow)
    <3> SUFFICES ASSUME NEW u \in RlThreads, rlPc[u] # "new", rlNow[u] > rlNow[t] + RateWindow
                 PROVE  FALSE
      BY DEF Past
    <3>1. rlNow[u] \in Nat /\ rlNow[t] \in Nat /\ n \in Nat
      BY <2>1, RlAssumption DEF RlTypeInv, RlTypeOK
    <3>2. rlNow[u] > n
      BY <2>1, <3>1, RlAssumption
    <3>3. QED
      BY <3>2 DEF Past
  <2>3. QED
    BY <1>1, <2>1, <2>2 DEF Owned
<1>3. S \in SUBSET RlThreads
  BY DEF Recent
<1>4. Cardinality(S) <= Len(own)
  BY <1>2, <1>3, ListedAll
<1>5. Len(own) <= RateMax /\ Len(own) \in Nat
  BY <1>1, LenProperties DEF Owned, QueueInv
<1>6. QED
  BY <1>3, <1>4, <1>5, SubsetBound, RlAssumption
-----------------------------------------------------------------------------
LEMMA InitRlInv == RlInit => RlInv
<1> SUFFICES ASSUME RlInit PROVE RlInv
  OBVIOUS
<1>1. ASSUME NEW k \in RlKeys PROVE Owned(k, <<>>) /\ Len(rlHits[k]) <= RateMax
  <2>1. Len(<<>>) = 0 /\ rlHits[k] = <<>> /\ 1..0 = {}
    BY DEF RlInit
  <2>2. \A t \in RlThreads : rlPc[t] # "accepted"
    BY DEF RlInit
  <2>3. QED
    BY <2>1, <2>2, RlAssumption DEF Owned
<1>2. QueueInv
  <2>1. <<>> \in Seq(RlThreads)
    OBVIOUS
  <2>2. QED
    BY <1>1, <2>1 DEF QueueInv
<1>3. WindowInv /\ RefusedWhenFull
  BY DEF RlInit, WindowInv, Past, RefusedWhenFull
<1>4. QED
  BY <1>2, <1>3 DEF RlInv

\* A request reads the clock: it comes after everyone in every queue, and if
\* it is the first to pass the end of a window, those in flight are the only
\* ones that can still add to it.
LEMMA ReadClockRlInv ==
  ASSUME RlTypeInv, RlInv, NEW t \in RlThreads, ReadClock(t)
  PROVE  RlInv'
<1>1. /\ rlPc[t] = "new" /\ rlPc'[t] = "timed" /\ rlNow'[t] = rlClock
      /\ \A u \in RlThreads \ {t} :
            rlPc'[u] = rlPc[u] /\ rlNow'[u] = rlNow[u] /\ rlKey'[u] = rlKey[u]
      /\ UNCHANGED <<rlHits, rlInWindow>>
  BY DEF ReadClock, RlTypeInv, RlTypeOK
<1>2. \A n : Past(n) => \E u \in RlThreads \ {t} : rlPc[u] # "new" /\ rlNow[u] > n
  BY <1>1 DEF Past
<1>3. ASSUME NEW k \in RlKeys, NEW own \in Seq(RlThreads), Owned(k, own)
      PROVE  Owned(k, own)'
  <2>1. \A i \in 1..Len(own) : own[i] \in RlThreads /\ own[i] # t
    BY <1>1, <1>3, ElementOfSeq DEF Owned
  <2>2. \A i \in 1..Len(own) : /\ rlPc'[own[i]] = "accepted" /\ rlKey'[own[i]] = k
                               /\ rlNow'[own[i]] = rlNow[own[i]]
    BY <1>1, <1>3, <2>1 DEF Owned
  <2>3. ASSUME NEW u \in RlThreads, rlPc'[u] = "accepted", rlKey'[u] = k
        PROVE  (\E i \in 1..Len(own) : own[i] = u) \/ Past(rlNow[u] + RateWindow)'
    <3>1. u # t /\ rlPc[u] = "accepted" /\ rlKey[u] = k /\ rlNow'[u] = rlNow[u]
      BY <1>1, <2>3
    <3>2. (\E i \in 1..Len(own) : own[i] = u) \/ Past(rlNow[u] + RateWindow)
      BY <1>3, <3>1 DEF Owned
    <3>3. Past(rlNow[u] + RateWindow) => Past(rlNow[u] + RateWindow)'
      <4> SUFFICES ASSUME NEW v \in RlThreads \ {t}, rlPc[v] # "new",
                          rlNow[v] > rlNow[u] + RateWindow
                   PROVE  Past(rlNow[u] + RateWindow)'
        BY <1>2
      <4>1. QED
        BY <1>1, <3>1 DEF Past
    <3>4. QED
      BY <3>2, <3>3
  <2>4. ASSUME NEW i \in 1..Len(own)
        PROVE  Cardinality(Overtaken(own, i)') <= RlWorkers - 1
    <3>1. rlNow[own[i]] <= rlClock /\ rlNow[own[i]] \in Nat /\ rlClock \in Nat
      BY <2>1 DEF RlTypeInv, RlTypeOK, ClockInv
    <3>2. Overtaken(own, i)' \in SUBSET Overtaken(own, i)
      BY <1>1, <2>2, <3>1 DEF Overtaken
    <3>3. Overtaken(own, i) \in SUBSET RlThreads
      BY DEF Overtaken
    <3>4. Cardinality(Overtaken(own, i)) <= RlWorkers - 1
      BY <1>3 DEF Owned
    <3>5. QED
      BY <3>2, <3>3, <3>4, SubsetBound, RlAssumption
  <2>5. QED
    BY <1>1, <1>3, <2>2, <2>3, <2>4 DEF Owned
<1>4. QueueInv'
  BY <1>1, <1>3 DEF RlInv, QueueInv
<1>5. ASSUME NEW k \in RlKeys, NEW n \in 0..RlHorizon, Past(n)'
      PROVE  Cardinality(Claim(k, n)') <= RateMax + (RlWorkers - 1)
  <2>0. /\ \A u \in RlThreads : rlNow[u] <= rlClock /\ rlNow[u] \in Nat
        /\ rlClock \in Nat /\ n \in Nat
    BY RlAssumption DEF RlTypeInv, RlTypeOK, ClockInv
  <2>1. rlClock > n
    BY <1>1, <1>5, <2>0 DEF Past
  <2>2. CASE Past(n)
    <3>1. Claim(k, n)' \in SUBSET Claim(k, n)
      BY <1>1, <2>0, <2>1 DEF Claim
    <3>2. Claim(k, n) \in SUBSET RlThreads
      BY DEF Claim
    <3>3. Cardinality(Claim(k, n)) <= RateMax + (RlWorkers - 1)
      BY <2>2 DEF RlInv, WindowInv
    <3>4. QED
      BY <3>1, <3>2, <3>3, SubsetBound, RlAssumption
  <2>3. CASE ~Past(n)
    <3> DEFINE S == {u \in Recent(k, n) : rlNow[u] <= n}
    <3>1. Cardinality(S) <= RateMax
      BY <2>3, WindowQueued DEF RlInv
    <3>2. Claim(k, n)' \in SUBSET (S \cup InFlight)
      BY <1>1, <2>0, <2>1 DEF Claim, Recent, InFlight
    <3>3. S \in SUBSET RlThreads /\ InFlight \in SUBSET RlThreads
      BY DEF Recent, InFlight
    <3>4. Cardinality(S \cup InFlight) <= Cardinality(S) + Cardinality(InFlight)
      BY <3>3, CountBoth
    <3>5. Cardinality(InFlight) < RlWorkers
      BY DEF ReadClock
    <3>6. /\ Cardinality(Claim(k, n)') <= Cardinality(S \cup InFlight)
          /\ Cardinality(Claim(k, n)') \in Nat /\ Cardinality(S \cup InFlight) \in Nat
      <4>1. S \cup InFlight \in SUBSET RlThreads
        BY <3>3
      <4>2. QED
        BY <3>2, <4>1, SubsetBound
    <3>7. Cardinality(S) \in Nat /\ Cardinality(InFlight) \in Nat
      BY <3>3, SubsetBound
    <3>8. QED
      BY <3>1, <3>4, <3>5, <3>6, <3>7, RlAssumption
  <2>4. QED
    BY <2>2, <2>3
<1>6. WindowInv'
  BY <1>5 DEF WindowInv
<1>7. RefusedWhenFull'
  BY <1>1 DEF RlInv, RefusedWhenFull
<1>8. QED
  BY <1>4, <1>6, <1>7 DEF RlInv

\* What a pass through the lock leaves of the queue of k at time now: own
\* lists its requests.
KeptBy(k, now, own) ==
    LET q == Kept(rlHits[k], now) IN
    /\ Len(own) = Len(q) /\ Len(own) <= RateMax
    /\ \A i, j \in 1..Len(own) : own[i] = own[j] => i = j
    /\ \A i \in 1..Len(own) : /\ rlPc[own[i]] = "accepted" /\ rlKey[own[i]] = k
                              /\ q[i] = rlNow[own[i]]
    /\ \A u \in RlThreads : rlPc[u] = "accepted" /\ rlKey[u] = k =>
            (\E i \in 1..Len(own) : own[i] = u) \/ Past(rlNow[u] + RateWindow)
    /\ \A i \in 1..Len(own) : Cardinality(Overtaken(own, i)) <= RlWorkers - 1
    /\ Len(own) # 0 => now <= rlNow[own[1]] + RateWindow

\* What is dropped has left every window that ends no later than now.
LEMMA SomeKept ==
  ASSUME RlTypeInv, QueueInv, NEW t \in RlThreads, rlPc[t] # "new",
         NEW k \in RlKeys
  PROVE  \E own \in Seq(RlThreads) : KeptBy(k, rlNow[t], own)
<1> SUFFICES ASSUME NEW now \in 0..RlHorizon, now = rlNow[t],
                    NEW hits \in Seq(0..RlHorizon), hits = rlHits[k]
             PROVE  \E own \in Seq(RlThreads) : KeptBy(k, now, own)
  BY DEF RlTypeInv, RlTypeOK
<1>1. PICK old \in Seq(RlThreads) : Owned(k, old)
  BY DEF QueueInv
<1>2. PICK d \in 0..Len(hits) :
        /\ Kept(hits, now) = SubSeq(hits, 1 + d, Len(hits))
        /\ \A j \in 1..d : now > hits[j] + RateWindow
        /\ d < Len(hits) => now <= hits[d + 1] + RateWindow
  BY KeptIsSuffix
<1>3. Len(old) = Len(hits) /\ Len(hits) \in Nat /\ Len(hits) <= RateMax
  BY <1>1, LenProperties DEF Owned, QueueInv
<1>4. PICK own \in Seq(RlThreads) :
        /\ Len(own) = Len(old) - d
        /\ \A i \in 1..Len(old) - d : i + d \in 1..Len(old) /\ own[i] = old[i + d]
  <2>1. d \in 0..Len(old)
    BY <1>3
  <2> DEFINE s == SubSeq(old, 1 + d, Len(old))
  <2>2. /\ s \in Seq(RlThreads) /\ Len(s) = Len(old) - d
        /\ \A i \in 1..Len(old) - d : i + d \in 1..Len(old) /\ s[i] = old[i + d]
    BY <2>1, Suffix
  <2> HIDE DEF s
  <2>3. QED
    BY <2>2
<1>5. PICK q \in Seq(0..RlHorizon) :
        /\ q = Kept(hits, now) /\ Len(q) = Len(hits) - d
        /\ \A i \in 1..Len(hits) - d : q[i] = hits[i + d]
  <2> DEFINE s == SubSeq(hits, 1 + d, Len(hits))
  <2>1. /\ s \in Seq(0..RlHorizon) /\ Len(s) = Len(hits) - d
        /\ \A i \in 1..Len(hits) - d : s[i] = hits[i + d]
    BY Suffix
  <2>2. s = Kept(hits, now)
    BY <1>2
  <2> HIDE DEF s
  <2>3. QED
    BY <2>1, <2>2
<1>6. /\ Len(own) \in Nat /\ Len(q) = Len(own) /\ Len(own) <= RateMax
      /\ Len(own) = Len(old) - d
  BY <1>3, <1>4, <1>5, RlAssumption
<1>7. \A i \in 1..Len(own) : /\ i + d \in 1..Len(old)
                             /\ own[i] = old[i + d] /\ q[i] = hits[i + d]
  BY <1>3, <1>4, <1>5, <1>6
<1>8. \A i \in 1..Len(own) :
          rlPc[own[i]] = "accepted" /\ rlKey[own[i]] = k /\ q[i] = rlNow[own[i]]
  <2> SUFFICES ASSUME NEW i \in 1..Len(own)
               PROVE  rlPc[own[i]] = "accepted" /\ rlKey[own[i]] = k /\ q[i] = rlNow[own[i]]
    OBVIOUS
  <2>1. i + d \in 1..Len(old) /\ own[i] = old[i + d] /\ q[i] = hits[i + d]
    BY <1>7
  <2>2. \A j \in 1..Len(old) : /\ rlPc[old[j]] = "accepted" /\ rlKey[old[j]] = k
                               /\ hits[j] = rlNow[old[j]]
    BY <1>1 DEF Owned
  <2>3. QED
    BY <2>1, <2>2
<1>9. \A i, j \in 1..Len(own) : own[i] = own[j] => i = j
  <2> SUFFICES ASSUME NEW i \in 1..Len(own), NEW j \in 1..Len(own), own[i] = own[j]
               PROVE  i = j
    OBVIOUS
  <2>1. i + d \in 1..Len(old) /\ j + d \in 1..Len(old) /\ old[i + d] = old[j + d]
    BY <1>7
  <2>2. i + d = j + d
    BY <1>1, <2>1 DEF Owned
  <2>3. QED
    BY <1>6, <2>2
<1>10. ASSUME NEW i \in 1..Len(own)
       PROVE  Cardinality(Overtaken(own, i)) <= RlWorkers - 1
  <2>1. /\ Overtaken(own, i) \in SUBSET RlThreads
        /\ Overtaken(old, i + d) \in SUBSET RlThreads
    BY DEF Overtaken
  <2>2. Overtaken(own, i) \in SUBSET Overtaken(old, i + d)
    <3> SUFFICES ASSUME NEW u \in Overtaken(own, i) PROVE u \in Overtaken(old, i + d)
      OBVIOUS
    <3>1. u \in RlThreads /\ rlNow[u] < rlNow[old[i + d]]
      BY <1>7 DEF Overtaken
    <3>2. CASE rlPc[u] = "timed"
      BY <3>1, <3>2 DEF Overtaken
    <3>3. ASSUME NEW j \in i + 1 .. Len(own), u = own[j] PROVE u \in Overtaken(old, i + d)
      <4>1. j \in 1..Len(own)
        BY <1>6
      <4>2. j + d \in 1..Len(old) /\ u = old[j + d]
        BY <1>7, <3>3, <4>1
      <4>3. j + d \in i + d + 1 .. Len(old)
        BY <1>3, <1>6, <4>2
      <4>4. QED
        BY <3>1, <4>2, <4>3 DEF Overtaken
    <3>4. QED
      BY <3>2, <3>3 DEF Overtaken
  <2>3. Cardinality(Overtaken(old, i + d)) <= RlWorkers - 1
    BY <1>1, <1>7 DEF Owned
  <2>4. /\ Cardinality(Overtaken(own, i)) <= Cardinality(Overtaken(old, i + d))
        /\ Cardinality(Overtaken(own, i)) \in Nat
        /\ Cardinality(Overtaken(old, i + d)) \in Nat
    BY <2>1, <2>2, SubsetBound
  <2>5. QED
    BY <2>3, <2>4, RlAssumption
<1>11. ASSUME NEW u \in RlThreads, rlPc[u] = "accepted", rlKey[u] = k
       PROVE  (\E i \in 1..Len(own) : own[i] = u) \/ Past(rlNow[u] + RateWindow)
  <2>1. (\E i \in 1..Len(old) : old[i] = u) \/ Past(rlNow[u] + RateWindow)
    BY <1>1, <1>11 DEF Owned
  <2>2. ASSUME NEW i \in 1..Len(old), old[i] = u, i > d
        PROVE  \E j \in 1..Len(own) : own[j] = u
    <3>1. i - d \in 1..Len(own) /\ (i - d) + d = i
      BY <1>3, <1>6, <2>2
    <3>2. QED
      BY <1>7, <2>2, <3>1
  <2>3. ASSUME NEW i \in 1..Len(old), old[i] = u, ~(i > d)
        PROVE  Past(rlNow[u] + RateWindow)
    <3>1. i \in 1..d
      BY <1>3, <2>3
    <3>2. hits[i] = rlNow[u]
      BY <1>1, <2>3 DEF Owned
    <3>3. now > rlNow[u] + RateWindow
      BY <1>2, <3>1, <3>2
    <3>4. QED
      BY <3>3 DEF Past
  <2>4. QED
    BY <2>1, <2>2, <2>3
<1>12. Len(own) # 0 => now <= rlNow[own[1]] + RateWindow
  <2> SUFFICES ASSUME Len(own) # 0 PROVE now <= rlNow[own[1]] + RateWindow
    OBVIOUS
  <2>1. 1 \in 1..Len(own) /\ d < Len(hits) /\ 1 + d = d + 1
    BY <1>3, <1>6
  <2>2. q[1] = hits[d + 1]
    BY <1>7, <2>1
  <2>3. QED
    BY <1>2, <1>8, <2>1, <2>2
<1>13. KeptBy(k, now, own)
  BY <1>5, <1>6, <1>8, <1>9, <1>10, <1>11, <1>12 DEF KeptBy
<1>14. QED
  BY <1>13

\* What a pass through the lock writes, for a request t with key k at time now.
Passes(t, k, now, full) ==
    LET q == Kept(rlHits[k], now) IN
    /\ rlPc[t] = "timed" /\ rlPc'[t] = IF full THEN "refused" ELSE "accepted"
    /\ \A u \in RlThreads \ {t} : rlPc'[u] = rlPc[u] /\ rlInWindow'[u] = rlInWindow[u]
    /\ UNCHANGED <<rlNow, rlKey>>
    /\ rlInWindow'[t] = Cardinality(Recent(k, now))
    /\ rlHits'[k] = IF full THEN q ELSE Append(q, now)
    /\ \A j \in RlKeys \ {k} : rlHits'[j] = rlHits[j]

LEMMA RateLimitedPasses ==
  ASSUME RlTypeInv, NEW t \in RlThreads, RateLimited(t)
  PROVE  Passes(t, rlKey[t], rlNow[t], Len(Kept(rlHits[rlKey[t]], rlNow[t])) >= RateMax)
BY DEF Passes, RateLimited, RlTypeInv, RlTypeOK, ClockInv


\* The queues of other keys do not notice.
LEMMA OtherQueues ==
  ASSUME RlTypeInv, QueueInv, NEW t \in RlThreads, NEW key \in RlKeys, key = rlKey[t],
         NEW now, NEW full \in BOOLEAN, Passes(t, key, now, full),
         NEW k \in RlKeys \ {key}
  PROVE  Len(rlHits'[k]) <= RateMax /\ \E own \in Seq(RlThreads) : Owned(k, own)'
<1>1. PICK own \in Seq(RlThreads) : Owned(k, own)
  BY DEF QueueInv
<1>2. \A i \in 1..Len(own) : own[i] \in RlThreads /\ own[i] # t
  BY <1>1, ElementOfSeq DEF Owned, Passes
<1>3. \A u \in RlThreads : rlPc'[u] = "accepted" /\ rlKey'[u] = k =>
          (\E i \in 1..Len(own) : own[i] = u) \/ Past(rlNow[u] + RateWindow)'
  <2> SUFFICES ASSUME NEW u \in RlThreads, rlPc'[u] = "accepted", rlKey'[u] = k
               PROVE  (\E i \in 1..Len(own) : own[i] = u) \/ Past(rlNow[u] + RateWindow)'
    OBVIOUS
  <2>1. u # t /\ rlPc[u] = "accepted" /\ rlKey[u] = k
    BY DEF Passes
  <2>2. (\E i \in 1..Len(own) : own[i] = u) \/ Past(rlNow[u] + RateWindow)
    BY <1>1, <2>1 DEF Owned
  <2>3. Past(rlNow[u] + RateWindow) => Past(rlNow[u] + RateWindow)'
    BY DEF Past, Passes
  <2>4. QED
    BY <2>2, <2>3
<1>4. ASSUME NEW i \in 1..Len(own)
      PROVE  Cardinality(Overtaken(own, i)') <= RlWorkers - 1
  <2>1. Overtaken(own, i)' \in SUBSET Overtaken(own, i)
    BY DEF Overtaken, Passes
  <2>2. Overtaken(own, i) \in SUBSET RlThreads
    BY DEF Overtaken
  <2>3. Cardinality(Overtaken(own, i)) <= RlWorkers - 1
    BY <1>1 DEF Owned
  <2>4. QED
    BY <2>1, <2>2, <2>3, FewerBehind
<1>5. rlHits'[k] = rlHits[k] /\ UNCHANGED <<rlNow, rlKey>>
      /\ \A u \in RlThreads \ {t} : rlPc'[u] = rlPc[u]
  BY DEF Passes
<1>6. Owned(k, own)'
  BY <1>1, <1>2, <1>3, <1>4, <1>5 DEF Owned
<1>7. QED
  BY <1>5, <1>6 DEF QueueInv

\* A full queue: the request is refused, and there was no room.
LEMMA FullQueue ==
  ASSUME RlTypeInv, NEW t \in RlThreads, NEW key \in RlKeys, key = rlKey[t],
         NEW now \in 0..RlHorizon, now = rlNow[t],
         NEW q \in Seq(0..RlHorizon), q = Kept(rlHits[key], now), Len(q) >= RateMax,
         Passes(t, key, now, TRUE), NEW own \in Seq(RlThreads), KeptBy(key, now, own)
  PROVE  /\ Owned(key, own)' /\ Len(rlHits'[key]) <= RateMax
         /\ rlInWindow'[t] + (RlWorkers - 1) >= RateMax
<1>1. /\ rlPc[t] = "timed" /\ rlPc'[t] = "refused" /\ rlHits'[key] = q
      /\ \A u \in RlThreads \ {t} : rlPc'[u] = rlPc[u]
      /\ UNCHANGED <<rlNow, rlKey>>
      /\ rlInWindow'[t] = Cardinality(Recent(key, now))
  BY DEF Passes
<1>2. /\ Len(own) = Len(q) /\ Len(own) <= RateMax /\ Len(own) \in Nat
      /\ \A i, j \in 1..Len(own) : own[i] = own[j] => i = j
      /\ \A i \in 1..Len(own) : own[i] \in RlThreads
      /\ \A i \in 1..Len(own) : /\ rlPc[own[i]] = "accepted" /\ rlKey[own[i]] = key
                                /\ q[i] = rlNow[own[i]]
      /\ \A i \in 1..Len(own) : Cardinality(Overtaken(own, i)) <= RlWorkers - 1
      /\ Len(own) # 0 => now <= rlNow[own[1]] + RateWindow
  BY LenProperties, ElementOfSeq DEF KeptBy
<1>3. \A i \in 1..Len(own) : /\ rlPc'[own[i]] = "accepted" /\ rlKey'[own[i]] = key
                             /\ rlHits'[key][i] = rlNow'[own[i]]
  BY <1>1, <1>2
<1>4. \A u \in RlThreads : rlPc'[u] = "accepted" /\ rlKey'[u] = key =>
          (\E i \in 1..Len(own) : own[i] = u) \/ Past(rlNow[u] + RateWindow)'
  <2> SUFFICES ASSUME NEW u \in RlThreads, rlPc'[u] = "accepted", rlKey'[u] = key
               PROVE  (\E i \in 1..Len(own) : own[i] = u) \/ Past(rlNow[u] + RateWindow)'
    OBVIOUS
  <2>1. (\E i \in 1..Len(own) : own[i] = u) \/ Past(rlNow[u] + RateWindow)
    BY <1>1 DEF KeptBy
  <2>2. Past(rlNow[u] + RateWindow) => Past(rlNow[u] + RateWindow)'
    BY <1>1 DEF Past
  <2>3. QED
    BY <2>1, <2>2
<1>5. ASSUME NEW i \in 1..Len(own)
      PROVE  Cardinality(Overtaken(own, i)') <= RlWorkers - 1
  <2>1. Overtaken(own, i)' \in SUBSET Overtaken(own, i)
    BY <1>1 DEF Overtaken
  <2>2. Overtaken(own, i) \in SUBSET RlThreads
    BY DEF Overtaken
  <2>3. QED
    BY <1>2, <2>1, <2>2, FewerBehind
<1>6. Owned(key, own)'
  BY <1>1, <1>2, <1>3, <1>4, <1>5 DEF Owned
<1>7. rlInWindow'[t] + (RlWorkers - 1) >= RateMax
  <2> DEFINE S == Recent(key, now)
             T == Overtaken(own, 1)
  <2>1. S \in SUBSET RlThreads /\ Cardinality(S) \in Nat
    BY SubsetBound DEF Recent
  <2>2. CASE Len(own) = 0
    BY <1>1, <1>2, <2>1, <2>2, RlAssumption
  <2>3. CASE Len(own) # 0
    <3>1. 1 \in 1..Len(own) /\ now <= rlNow[own[1]] + RateWindow
      BY <1>2, <2>3
    <3>2. T \in SUBSET RlThreads /\ Cardinality(T) <= RlWorkers - 1
      BY <1>2, <3>1 DEF Overtaken
    <3>3. ASSUME NEW i \in 1..Len(own) PROVE own[i] \in S \cup T
      <4>1. own[i] \in RlThreads /\ rlPc[own[i]] = "accepted" /\ rlKey[own[i]] = key
        BY <1>2
      <4>2. CASE now <= rlNow[own[i]] + RateWindow
        BY <4>1, <4>2 DEF Recent
      <4>3. CASE ~(now <= rlNow[own[i]] + RateWindow)
        <5>1. /\ rlNow[own[i]] \in Nat /\ rlNow[own[1]] \in Nat
              /\ now \in Nat /\ RateWindow \in Nat
          <6>1. rlNow \in [RlThreads -> 0..RlHorizon] /\ RlHorizon \in Nat /\ RateWindow \in Nat
            BY RlAssumption DEF RlTypeInv, RlTypeOK
          <6>2. own[1] \in RlThreads
            BY <1>2, <3>1
          <6>3. rlNow[own[i]] \in 0..RlHorizon /\ rlNow[own[1]] \in 0..RlHorizon
            BY <4>1, <6>1, <6>2
          <6>4. QED
            BY <6>1, <6>3
        <5>2. rlNow[own[i]] < rlNow[own[1]]
          BY <3>1, <4>3, <5>1
        <5>3. i \in 1 + 1 .. Len(own)
          BY <1>2, <5>1, <5>2
        <5>4. QED
          BY <4>1, <5>2, <5>3 DEF Overtaken
      <4>4. QED
        BY <4>2, <4>3
    <3>4. Len(own) <= Cardinality(S \cup T)
      <4>1. S \cup T \in SUBSET RlThreads
        BY <2>1, <3>2
      <4>2. QED
        BY <1>2, <3>3, <4>1, ListedOnce
    <3>5. /\ Cardinality(S \cup T) <= Cardinality(S) + Cardinality(T)
          /\ Cardinality(T) \in Nat /\ Cardinality(S \cup T) \in Nat
      BY <2>1, <3>2, CountBoth
    <3> HIDE DEF S, T
    <3>6. Cardinality(S) + (RlWorkers - 1) >= RateMax
      BY <1>2, <2>1, <3>2, <3>4, <3>5, RlAssumption
    <3>7. QED
      BY <1>1, <3>6 DEF S
  <2>4. QED
    BY <2>2, <2>3
<1>8. QED
  BY <1>1, <1>2, <1>6, <1>7

\* Room in the queue: the arrival goes to its end.
LEMMA RoomInQueue ==
  ASSUME RlTypeInv, NEW t \in RlThreads, NEW key \in RlKeys, key = rlKey[t],
         NEW now \in 0..RlHorizon, now = rlNow[t],
         NEW q \in Seq(0..RlHorizon), q = Kept(rlHits[key], now), ~(Len(q) >= RateMax),
         Passes(t, key, now, FALSE), NEW own \in Seq(RlThreads), KeptBy(key, now, own)
  PROVE  Owned(key, Append(own, t))' /\ Len(rlHits'[key]) <= RateMax
<1>1. /\ rlPc[t] = "timed" /\ rlPc'[t] = "accepted" /\ rlHits'[key] = Append(q, now)
      /\ \A u \in RlThreads \ {t} : rlPc'[u] = rlPc[u]
      /\ UNCHANGED <<rlNow, rlKey>>
  BY DEF Passes
<1>2. /\ Len(own) = Len(q) /\ Len(own) <= RateMax /\ Len(own) \in Nat
      /\ \A i, j \in 1..Len(own) : own[i] = own[j] => i = j
      /\ \A i \in 1..Len(own) : own[i] \in RlThreads
      /\ \A i \in 1..Len(own) : /\ rlPc[own[i]] = "accepted" /\ rlKey[own[i]] = key
                                /\ q[i] = rlNow[own[i]]
      /\ \A i \in 1..Len(own) : Cardinality(Overtaken(own, i)) <= RlWorkers - 1
  BY LenProperties, ElementOfSeq DEF KeptBy
<1>3. PICK new \in Seq(RlThreads) :
        /\ new = Append(own, t) /\ Len(new) = Len(own) + 1
        /\ \A i \in 1..Len(own) : new[i] = own[i]
        /\ new[Len(own) + 1] = t
  <2> DEFINE s == Append(own, t)
  <2>1. /\ s \in Seq(RlThreads) /\ Len(s) = Len(own) + 1
        /\ \A i \in 1..Len(own) : s[i] = own[i]
        /\ s[Len(own) + 1] = t
    BY AppendProperties
  <2> HIDE DEF s
  <2>2. QED
    BY <2>1 DEF s
<1>4. PICK hits \in Seq(0..RlHorizon) :
        /\ hits = rlHits'[key] /\ Len(hits) = Len(own) + 1
        /\ \A i \in 1..Len(own) : hits[i] = q[i]
        /\ hits[Len(own) + 1] = now
  <2> DEFINE s == Append(q, now)
  <2>1. /\ s \in Seq(0..RlHorizon) /\ Len(s) = Len(own) + 1
        /\ \A i \in 1..Len(own) : s[i] = q[i]
        /\ s[Len(own) + 1] = now
    BY <1>2, AppendProperties
  <2>2. s = rlHits'[key]
    BY <1>1
  <2> HIDE DEF s
  <2>3. QED
    BY <2>1, <2>2
<1>5. \A i \in 1..Len(new) : i \in 1..Len(own) \/ i = Len(own) + 1
  BY <1>2, <1>3
<1>6. \A i \in 1..Len(own) : own[i] # t
  BY <1>1, <1>2
<1>7. ASSUME NEW i \in 1..Len(new)
      PROVE  rlPc'[new[i]] = "accepted" /\ rlKey'[new[i]] = key /\ hits[i] = rlNow'[new[i]]
  <2>1. CASE i \in 1..Len(own)
    BY <1>1, <1>2, <1>3, <1>4, <1>6, <2>1
  <2>2. CASE i = Len(own) + 1
    BY <1>1, <1>3, <1>4, <2>2
  <2>3. QED
    BY <1>5, <2>1, <2>2
<1>8. \A i, j \in 1..Len(new) : new[i] = new[j] => i = j
  <2>1. SUFFICES ASSUME NEW i \in 1..Len(new), NEW j \in 1..Len(new), new[i] = new[j]
                 PROVE  i = j
    OBVIOUS
  <2>2. CASE i \in 1..Len(own) /\ j \in 1..Len(own)
    <3>1. own[i] = own[j]
      BY <1>3, <2>1, <2>2
    <3>2. QED
      BY <1>2, <2>2, <3>1
  <2>3. CASE i = Len(own) + 1 /\ j \in 1..Len(own)
    <3>1. own[j] = t
      BY <1>3, <2>1, <2>3
    <3>2. QED
      BY <1>6, <2>3, <3>1
  <2>4. CASE i \in 1..Len(own) /\ j = Len(own) + 1
    <3>1. own[i] = t
      BY <1>3, <2>1, <2>4
    <3>2. QED
      BY <1>6, <2>4, <3>1
  <2>5. CASE i = Len(own) + 1 /\ j = Len(own) + 1
    BY <2>5
  <2>6. QED
    BY <1>5, <2>2, <2>3, <2>4, <2>5
<1>9. ASSUME NEW u \in RlThreads, rlPc'[u] = "accepted", rlKey'[u] = key
      PROVE  (\E i \in 1..Len(new) : new[i] = u) \/ Past(rlNow[u] + RateWindow)'
  <2>1. CASE u = t
    BY <1>2, <1>3, <2>1
  <2>2. CASE u # t
    <3>1. (\E i \in 1..Len(own) : own[i] = u) \/ Past(rlNow[u] + RateWindow)
      BY <1>1, <1>9, <2>2 DEF KeptBy
    <3>2. Past(rlNow[u] + RateWindow) => Past(rlNow[u] + RateWindow)'
      BY <1>1 DEF Past
    <3>3. \A i \in 1..Len(own) : i \in 1..Len(new)
      BY <1>2, <1>3
    <3>4. QED
      BY <1>3, <3>1, <3>2, <3>3
  <2>3. QED
    BY <2>1, <2>2
<1>10. ASSUME NEW i \in 1..Len(new)
       PROVE  Cardinality(Overtaken(new, i)') <= RlWorkers - 1
  <2>1. CASE i \in 1..Len(own)
    <3>1. Overtaken(new, i)' \in SUBSET Overtaken(own, i)
      <4> SUFFICES ASSUME NEW u \in Overtaken(new, i)' PROVE u \in Overtaken(own, i)
        OBVIOUS
      <4>1. u \in RlThreads /\ rlNow[u] < rlNow[own[i]]
        BY <1>1, <1>3, <2>1 DEF Overtaken
      <4>2. CASE rlPc'[u] = "timed"
        BY <1>1, <4>1, <4>2 DEF Overtaken
      <4>3. ASSUME NEW j \in i + 1 .. Len(new), u = new[j] PROVE u \in Overtaken(own, i)
        <5>1. CASE j \in 1..Len(own)
          <6>1. j \in i + 1 .. Len(own) /\ u = own[j]
            BY <1>2, <1>3, <4>3, <5>1
          <6>2. QED
            BY <4>1, <6>1 DEF Overtaken
        <5>2. CASE j = Len(own) + 1
          BY <1>1, <1>3, <4>1, <4>3, <5>2 DEF Overtaken
        <5>3. QED
          BY <1>2, <1>5, <2>1, <5>1, <5>2
      <4>4. QED
        BY <4>2, <4>3 DEF Overtaken
    <3>2. Overtaken(own, i) \in SUBSET RlThreads
      BY DEF Overtaken
    <3>3. QED
      BY <1>2, <2>1, <3>1, <3>2, FewerBehind
  <2>2. CASE i = Len(own) + 1
    <3>1. Overtaken(new, i)' \in SUBSET (InFlight \ {t})
      <4>1. \A j \in i + 1 .. Len(new) : FALSE
        BY <1>2, <1>3, <2>2
      <4>2. QED
        BY <1>1, <4>1 DEF Overtaken, InFlight
    <3>2. IsFiniteSet(InFlight) /\ t \in InFlight
      BY <1>1, InFlightFinite DEF InFlight
    <3>3. Cardinality(InFlight \ {t}) = Cardinality(InFlight) - 1
      BY <3>2, FS_RemoveElement
    <3>4. Cardinality(InFlight \ {t}) <= RlWorkers - 1
      BY <3>3, InFlightFinite, RlAssumption DEF RlTypeInv, ClockInv
    <3>5. InFlight \ {t} \in SUBSET RlThreads
      BY DEF InFlight
    <3>6. QED
      BY <3>1, <3>4, <3>5, FewerBehind
  <2>3. QED
    BY <1>5, <2>1, <2>2
<1>11. Owned(key, new)'
  BY <1>1, <1>3, <1>4, <1>7, <1>8, <1>9, <1>10 DEF Owned
<1>12. Len(rlHits'[key]) <= RateMax
  BY <1>2, <1>4, RlAssumption
<1>13. QED
  BY <1>3, <1>11, <1>12

LEMMA RateLimitedRlInv ==
  ASSUME RlTypeInv, RlInv, NEW t \in RlThreads, RateLimited(t)
  PROVE  RlInv'
<1> SUFFICES ASSUME NEW key \in RlKeys, key = rlKey[t],
                    NEW now \in 0..RlHorizon, now = rlNow[t],
                    NEW q \in Seq(0..RlHorizon), q = Kept(rlHits[key], now)
             PROVE  RlInv'
  <2>1. /\ rlKey[t] \in RlKeys /\ rlNow[t] \in 0..RlHorizon
        /\ rlHits[rlKey[t]] \in Seq(0..RlHorizon)
    BY DEF RlTypeInv, RlTypeOK
  <2>2. Kept(rlHits[rlKey[t]], rlNow[t]) \in Seq(0..RlHorizon)
    BY <2>1, KeptType
  <2>3. QED
    BY <2>1, <2>2
<1>1. PICK full \in BOOLEAN : /\ full <=> Len(q) >= RateMax
                             /\ Passes(t, key, now, full)
  <2>1. Passes(t, key, now, Len(q) >= RateMax)
    BY RateLimitedPasses
  <2>2. CASE Len(q) >= RateMax
    <3>1. Passes(t, key, now, TRUE)
      BY <2>1, <2>2 DEF Passes
    <3>2. QED
      BY <2>2, <3>1
  <2>3. CASE ~(Len(q) >= RateMax)
    <3>1. Passes(t, key, now, FALSE)
      BY <2>1, <2>3 DEF Passes
    <3>2. QED
      BY <2>3, <3>1
  <2>4. QED
    BY <2>2, <2>3
<1>2. PICK own \in Seq(RlThreads) : KeptBy(key, now, own)
  BY <1>1, SomeKept DEF RlInv, Passes
<1>3. Len(rlHits'[key]) <= RateMax /\ \E own2 \in Seq(RlThreads) : Owned(key, own2)'
  <2>1. CASE full
    <3>1. Owned(key, own)' /\ Len(rlHits'[key]) <= RateMax
      BY <1>1, <1>2, <2>1, FullQueue
    <3>2. QED
      BY <3>1
  <2>2. CASE ~full
    <3>1. Owned(key, Append(own, t))' /\ Len(rlHits'[key]) <= RateMax
      BY <1>1, <1>2, <2>2, RoomInQueue
    <3>2. Append(own, t) \in Seq(RlThreads)
      BY AppendProperties
    <3>3. QED
      BY <3>1, <3>2
  <2>3. QED
    BY <2>1, <2>2
<1>4. QueueInv'
  BY <1>1, <1>3, OtherQueues DEF QueueInv, RlInv
<1>5. RefusedWhenFull'
  <2>1. full => rlInWindow'[t] + (RlWorkers - 1) >= RateMax
    BY <1>1, <1>2, FullQueue
  <2>2. /\ rlPc'[t] = "refused" => full
        /\ \A u \in RlThreads \ {t} : rlPc'[u] = rlPc[u] /\ rlInWindow'[u] = rlInWindow[u]
    BY <1>1 DEF Passes
  <2>3. QED
    BY <2>1, <2>2 DEF RlInv, RefusedWhenFull
<1>6. WindowInv'
  <2> SUFFICES ASSUME NEW k \in RlKeys, NEW n \in 0..RlHorizon, Past(n)'
               PROVE  Cardinality(Claim(k, n)') <= RateMax + (RlWorkers - 1)
    BY DEF WindowInv
  <2>1. Claim(k, n)' \in SUBSET Claim(k, n)
    BY <1>1 DEF Claim, Passes
  <2>2. Claim(k, n) \in SUBSET RlThreads
    BY DEF Claim
  <2>3. Past(n)
    BY <1>1 DEF Past, Passes
  <2>4. Cardinality(Claim(k, n)) <= RateMax + (RlWorkers - 1)
    BY <2>3 DEF RlInv, WindowInv
  <2>5. /\ Cardinality(Claim(k, n)') <= Cardinality(Claim(k, n))
        /\ Cardinality(Claim(k, n)') \in Nat /\ Cardinality(Claim(k, n)) \in Nat
    BY <2>1, <2>2, SubsetBound
  <2>6. QED
    BY <2>4, <2>5, RlAssumption
<1>7. QED
  BY <1>4, <1>5, <1>6 DEF RlInv

LEMMA StepRlInv == RlTypeInv /\ RlInv /\ [RlNext]_rlVars => RlInv'
<1> SUFFICES ASSUME RlTypeInv, RlInv, [RlNext]_rlVars PROVE RlInv'
  OBVIOUS
<1>1. CASE UNCHANGED <<rlHits, rlPc, rlKey, rlNow, rlInWindow>>
  <2>1. /\ rlHits' = rlHits /\ rlPc' = rlPc /\ rlKey' = rlKey
        /\ rlNow' = rlNow /\ rlInWindow' = rlInWindow
    BY <1>1
  <2>2. /\ \A own, i : Overtaken(own, i)' = Overtaken(own, i)
        /\ \A n : Past(n)' = Past(n)
        /\ \A k, n : Claim(k, n)' = Claim(k, n)
    BY <2>1 DEF Overtaken, Past, Claim
  <2>3. ASSUME NEW k \in RlKeys, NEW own \in Seq(RlThreads), Owned(k, own)
        PROVE  Owned(k, own)'
    BY <2>1, <2>2, <2>3 DEF Owned
  <2>4. QueueInv'
    BY <2>1, <2>3 DEF RlInv, QueueInv
  <2>5. WindowInv'
    BY <2>2 DEF RlInv, WindowInv
  <2>6. RefusedWhenFull'
    BY <2>1 DEF RlInv, RefusedWhenFull
  <2>7. QED
    BY <2>4, <2>5, <2>6 DEF RlInv
<1>2. QED
  BY <1>1, ReadClockRlInv, RateLimitedRlInv DEF RlNext, Tick, rlVars

\* For every limit, window and number of requests: whatever order the requests
\* reach the lock in, a window lets through at most RateMax and one per other
\* worker, and nobody is refused while it has that much room.
THEOREM LimitHolds == RlSpec => []RateWindowKept
<1>1. RlTypeInv /\ RlInv => RateWindowKept
  <2> SUFFICES ASSUME RlTypeInv, RlInv, NEW k \in RlKeys, NEW n \in 0..RlHorizon
               PROVE  Cardinality({t \in Recent(k, n) : rlNow[t] <= n})
                        <= RateMax + (RlWorkers - 1)
    BY DEF RateWindowKept, RateBound, RlInv
  <2> DEFINE S == {t \in Recent(k, n) : rlNow[t] <= n}
  <2>1. S \in SUBSET RlThreads /\ Cardinality(S) \in Nat
    BY SubsetBound DEF Recent
  <2>2. CASE Past(n)
    <3>1. S \in SUBSET Claim(k, n) /\ Claim(k, n) \in SUBSET RlThreads
      BY DEF Recent, Claim
    <3>2. Cardinality(Claim(k, n)) <= RateMax + (RlWorkers - 1)
      BY <2>2 DEF RlInv, WindowInv
    <3>3. QED
      BY <3>1, <3>2, SubsetBound, RlAssumption
  <2>3. CASE ~Past(n)
    BY <2>1, <2>3, WindowQueued, RlAssumption DEF RlInv
  <2>4. QED
    BY <2>2, <2>3
<1>2. QED
  BY InitRlTypeInv, InitRlInv, StepRlTypeInv, StepRlInv, <1>1, PTL DEF RlSpec
=============================================================================
