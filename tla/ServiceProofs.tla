--------------------------- MODULE ServiceProofs ----------------------------
(***************************************************************************)
(* What MCService checks of the components side by side, for every number  *)
(* of callers: each component's invariant, proved where its module is, is  *)
(* kept by every step of the whole, which is a step of that component or   *)
(* leaves its variables alone.                                             *)
(***************************************************************************)
EXTENDS MCService, SharedProofs, CallerProofs, FiniteSetTheorems,
        SequenceTheorems

\* A step of one part is a step of the component, or none, of every other.
LEMMA StepOfParts ==
  [Next]_Everything =>
    /\ [RlNext]_rlVars /\ [BusNext]_busVars /\ [InNext]_inVars /\ [FcNext]_fcVars
    /\ [StNext]_stVars /\ [CtNext]_ctVars /\ [AnNext]_anVars /\ [SiNext]_siVars
    /\ [PlNext]_plVars /\ [RnNext]_rnVars
BY DEF Next, Everything

\* The two registries share the tables of LazyRegistry; a behaviour is about
\* one of them.
ServiceRegistries ==
    /\ RgInv /\ RoundInv /\ PickInv
    /\ part # "models" => \A t \in RgThreads : mrPolicy[t] = NoName

LEMMA StepOfRegistries ==
  [Next]_Everything =>
    \/ part # "models" /\ [ArNext]_arVars /\ UNCHANGED <<part, mrPolicy, mrPick>>
    \/ part = "models" /\ part' = part /\ MrNext /\ UNCHANGED <<arNames, arCounter, arDrawn>>
    \/ UNCHANGED <<part, rgVars, arNames, arCounter, arDrawn, mrPolicy, mrPick>>
BY DEF Next, Everything

LEMMA ServiceRegistriesInit == Init => ServiceRegistries
<1> SUFFICES ASSUME Init PROVE ServiceRegistries
  OBVIOUS
<1>1. ArInv /\ MrInv
  BY InitArInv, InitMrInv DEF Init
<1>2. \A t \in RgThreads : mrPolicy[t] = NoName
  BY DEF Init, MrInit
<1>3. QED
  BY <1>1, <1>2 DEF ServiceRegistries, ArInv, MrInv

LEMMA ServiceRegistriesStep == ServiceRegistries /\ [Next]_Everything => ServiceRegistries'
<1> SUFFICES ASSUME ServiceRegistries, [Next]_Everything PROVE ServiceRegistries'
  OBVIOUS
<1>1. RgInv /\ RoundInv /\ PickInv /\ ArInv /\ MrInv
  BY DEF ServiceRegistries, ArInv, MrInv
<1>2. CASE part # "models" /\ [ArNext]_arVars /\ UNCHANGED <<part, mrPolicy, mrPick>>
  <2>1. RgInv' /\ RoundInv'
    BY <1>1, <1>2, StepArInv DEF ArInv
  <2>2. \A t \in RgThreads : mrPolicy[t] = NoName /\ mrPick[t] = NoName
    BY <1>2 DEF ServiceRegistries, PickInv
  <2>3. PickInv'
    BY <1>1, <1>2, <2>2 DEF PickInv, Chosen, NoName
  <2>4. QED
    BY <1>2, <2>1, <2>2, <2>3 DEF ServiceRegistries
<1>3. CASE /\ part = "models" /\ part' = part /\ MrNext
           /\ UNCHANGED <<arNames, arCounter, arDrawn>>
  <2>1. RgInv' /\ PickInv'
    BY <1>1, <1>3, StepMrInv DEF MrInv
  <2>2. rgFolders' = rgFolders \/ \E n \in RgNames : DropIn(n)
    <3>1. ASSUME NEW t \in RgThreads,
                 \/ GetModel(t) \/ DiscoverModels(t) \/ AskFor(t) \/ Select(t)
                 \/ Release(t)
          PROVE  rgFolders' = rgFolders
      BY <3>1 DEF GetModel, DiscoverModels, AskFor, Select, GetCached, GetMade, GetNothing,
                  List, ScanKnown, ScanRead, ScanPublish, ScanEnd, Release, rgVars
    <3>2. QED
      BY <1>3, <3>1 DEF MrNext
  <2>3. RoundInv'
    BY <1>1, <1>3, <2>2, RoundInvKept
  <2>4. QED
    BY <1>3, <2>1, <2>3 DEF ServiceRegistries
<1>4. CASE UNCHANGED <<part, rgVars, arNames, arCounter, arDrawn, mrPolicy, mrPick>>
  <2>1. [ArNext]_arVars /\ [MrNext]_mrVars
    BY <1>4 DEF arVars, mrVars
  <2>2. RgInv' /\ RoundInv' /\ PickInv'
    BY <1>1, <2>1, StepArInv, StepMrInv DEF ArInv, MrInv
  <2>3. QED
    BY <1>4, <2>2 DEF ServiceRegistries
<1>5. QED
  BY <1>2, <1>3, <1>4, StepOfRegistries
-----------------------------------------------------------------------------
(***************************************************************************)
(* StreamingInference: the rows of a batch, asked about one by one.        *)
(***************************************************************************)
\* Flattening: a function that meets the recursive definition is its result.
Accumulates(g, n, seqs) ==
    g = [i \in 1..n |-> IF i = 1 THEN seqs[i] ELSE g[i-1] \o seqs[i]]

LEMMA FlattenUnique ==
  ASSUME NEW n \in Nat \ {0}, NEW seqs, Len(seqs) = n, NEW g, Accumulates(g, n, seqs)
  PROVE  FlattenSeq(seqs) = g[n]
<1> DEFINE Meets(f) == f = [i \in 1..n |-> IF i = 1 THEN seqs[i] ELSE f[i-1] \o seqs[i]]
           flat == CHOOSE f : Meets(f)
<1>1. Meets(g)
  BY DEF Accumulates
<1>2. Meets(flat)
  <2> HIDE DEF Meets
  <2>1. \E f : Meets(f)
    BY <1>1
  <2>2. QED
    BY <2>1
<1>3. FlattenSeq(seqs) = flat[n]
  BY DEF FlattenSeq
<1>4. /\ DOMAIN flat = 1..n /\ DOMAIN g = 1..n
      /\ \A i \in 1..n : flat[i] = IF i = 1 THEN seqs[i] ELSE flat[i-1] \o seqs[i]
      /\ \A i \in 1..n : g[i] = IF i = 1 THEN seqs[i] ELSE g[i-1] \o seqs[i]
  <2> HIDE DEF flat
  <2>1. QED
    BY <1>1, <1>2
<1> HIDE DEF flat, Meets
<1> DEFINE wrong == {i \in 1..n : flat[i] # g[i]}
<1>5. wrong = {}
  <2>1. ASSUME wrong # {} PROVE FALSE
    <3>1. wrong \subseteq Nat
      OBVIOUS
    <3>2. PICK i \in wrong : \A j \in wrong : i <= j
      <4> HIDE DEF wrong
      <4>1. QED
        BY <2>1, <3>1, LeastNatural
    <3>3. i # 1
      BY <1>4
    <3>4. i - 1 \in 1..n /\ i - 1 \notin wrong
      BY <3>2, <3>3
    <3>5. flat[i-1] = g[i-1]
      BY <3>4
    <3>6. i \in 1..n /\ flat[i] # g[i]
      OBVIOUS
    <3>7. flat[i] = flat[i-1] \o seqs[i]
      BY <1>4, <3>3, <3>6, Zenon
    <3>8. g[i] = g[i-1] \o seqs[i]
      BY <1>4, <3>3, <3>6, Zenon
    <3>9. QED
      BY <3>5, <3>6, <3>7, <3>8, Zenon
  <2>2. QED
    BY <2>1
<1>6. n \in 1..n
  OBVIOUS
<1>7. QED
  BY <1>3, <1>5, <1>6

LEMMA SmallerOfTwo ==
  ASSUME NEW a \in Nat, NEW b \in Nat
  PROVE  Min({a, b}) = IF a <= b THEN a ELSE b
<1> DEFINE c == IF a <= b THEN a ELSE b
<1>1. c \in {a, b} /\ \A y \in {a, b} : c <= y
  OBVIOUS
<1>2. \A x \in {a, b} : (\A y \in {a, b} : x <= y) => x = c
  OBVIOUS
<1>3. QED
  BY <1>1, <1>2 DEF Min

\* Two neighbouring pieces of a list.
LEMMA PiecesJoin ==
  ASSUME NEW S, NEW rows \in Seq(S), NEW a \in Nat, NEW b \in Nat, a <= b, b <= Len(rows)
  PROVE  SubSeq(rows, 1, a) \o SubSeq(rows, a + 1, b) = SubSeq(rows, 1, b)
<1>1. \A i \in 1..Len(rows) : rows[i] \in S
  BY ElementOfSeq
<1>2. PICK len \in Nat : len = Len(rows)
  BY LenProperties
<1>3. PICK left \in Seq(S) : /\ left = SubSeq(rows, 1, a) /\ Len(left) = a
                             /\ \A i \in 1..a : left[i] = rows[i]
  <2>1. \A i \in 1..a : rows[i] \in S
    BY <1>1, <1>2
  <2>2. /\ SubSeq(rows, 1, a) \in Seq(S)
        /\ Len(SubSeq(rows, 1, a)) = IF 1 <= a THEN a - 1 + 1 ELSE 0
        /\ \A i \in 1..(a - 1 + 1) : SubSeq(rows, 1, a)[i] = rows[1 + i - 1]
    BY <2>1, SubSeqProperties
  <2>3. Len(SubSeq(rows, 1, a)) = a /\ \A i \in 1..a : SubSeq(rows, 1, a)[i] = rows[i]
    BY <2>2
  <2>4. QED
    BY <2>2, <2>3
<1>4. PICK right \in Seq(S) : /\ right = SubSeq(rows, a + 1, b) /\ Len(right) = b - a
                              /\ \A i \in 1..(b - a) : right[i] = rows[a + i]
  <2>1. \A i \in (a + 1)..b : rows[i] \in S
    BY <1>1, <1>2
  <2>2. /\ SubSeq(rows, a + 1, b) \in Seq(S)
        /\ Len(SubSeq(rows, a + 1, b)) = IF a + 1 <= b THEN b - (a + 1) + 1 ELSE 0
        /\ \A i \in 1..(b - (a + 1) + 1) : SubSeq(rows, a + 1, b)[i] = rows[a + 1 + i - 1]
    BY <2>1, SubSeqProperties
  <2>3. /\ Len(SubSeq(rows, a + 1, b)) = b - a
        /\ \A i \in 1..(b - a) : SubSeq(rows, a + 1, b)[i] = rows[a + i]
    BY <2>2
  <2>4. QED
    BY <2>2, <2>3
<1>5. PICK whole \in Seq(S) : /\ whole = SubSeq(rows, 1, b) /\ Len(whole) = b
                              /\ \A i \in 1..b : whole[i] = rows[i]
  <2>1. \A i \in 1..b : rows[i] \in S
    BY <1>1, <1>2
  <2>2. /\ SubSeq(rows, 1, b) \in Seq(S)
        /\ Len(SubSeq(rows, 1, b)) = IF 1 <= b THEN b - 1 + 1 ELSE 0
        /\ \A i \in 1..(b - 1 + 1) : SubSeq(rows, 1, b)[i] = rows[1 + i - 1]
    BY <2>1, SubSeqProperties
  <2>3. Len(SubSeq(rows, 1, b)) = b /\ \A i \in 1..b : SubSeq(rows, 1, b)[i] = rows[i]
    BY <2>2
  <2>4. QED
    BY <2>2, <2>3
<1>6. /\ left \o right \in Seq(S) /\ Len(left \o right) = b
      /\ \A i \in 1..b : (left \o right)[i] = IF i <= a THEN left[i] ELSE right[i - a]
  <2>1. Len(left) + Len(right) = b
    BY <1>3, <1>4
  <2>2. QED
    BY <1>3, <1>4, <2>1, ConcatProperties
<1>7. \A i \in 1..b : (left \o right)[i] = whole[i]
  BY <1>3, <1>4, <1>5, <1>6
<1>8. left \o right = whole
  BY <1>5, <1>6, <1>7, SeqEqual
<1>9. QED
  BY <1>3, <1>4, <1>5, <1>8

\* All lists of a batch but the last are full.
LEMMA ChunkCuts ==
  ASSUME NEW len \in Nat \ {0}, NEW size \in Nat \ {0}, NEW n, n = (len + size - 1) \div size
  PROVE  /\ n \in Nat \ {0}
         /\ \A i \in 1..n : /\ (i - 1) * size \in 0..(len - 1)
                            /\ i < n => i * size < len
         /\ len <= n * size
<1>1. PICK q \in Nat, r \in Nat : q = n /\ len + size - 1 = size * q + r /\ r < size
  <2>1. PICK top \in Nat : top = len + size - 1
    OBVIOUS
  <2>2. QED
    BY <2>1
<1>2. q # 0
  BY <1>1
<1>3. PICK last \in Nat : last = size * q
  BY <1>1
<1>4. len <= last /\ last < len + size
  BY <1>1, <1>3
<1>5. \A i \in Nat : i < q => size * i \in Nat /\ size * i < len
  <2>1. SUFFICES ASSUME NEW i \in Nat, i < q PROVE size * i \in Nat /\ size * i < len
    OBVIOUS
  <2>2. PICK d \in Nat : q = i + 1 + d
    <3>1. q - i - 1 \in Nat /\ q = i + 1 + (q - i - 1)
      BY <2>1
    <3>2. QED
      BY <3>1
  <2>3. last = size * i + size + size * d
    BY <1>3, <2>2
  <2>4. PICK x \in Nat, y \in Nat : x = size * i /\ y = size * d
    OBVIOUS
  <2>5. QED
    BY <1>4, <2>3, <2>4
<1>6. \A i \in 1..q : (i - 1) * size \in 0..(len - 1) /\ (i < q => i * size < len)
  <2>1. SUFFICES ASSUME NEW i \in 1..q
                 PROVE  (i - 1) * size \in 0..(len - 1) /\ (i < q => i * size < len)
    OBVIOUS
  <2>2. PICK j \in Nat : j = i - 1 /\ j < q
    OBVIOUS
  <2>3. size * j \in Nat /\ size * j < len
    BY <1>5, <2>2
  <2>4. j * size = size * j /\ i * size = size * i
    BY <2>2
  <2>5. QED
    BY <1>5, <2>2, <2>3, <2>4
<1>7. QED
  <2>1. q * size = last
    BY <1>3
  <2>2. QED
    BY <1>1, <1>2, <1>4, <1>6, <2>1

\* What is gone through list by list is the batch.
LEMMA ChunksFlatten ==
  ASSUME NEW S, NEW rows \in Seq(S)
  PROVE  FlattenSeq(Chunks(rows)) = rows
<1>1. PICK len \in Nat : len = Len(rows)
  BY LenProperties
<1>2. PICK size \in Nat \ {0} : size = SiBatchSize
  BY SiAssumption
<1>3. CASE len = 0
  <2>1. rows = <<>>
    BY <1>1, <1>3, EmptySeq
  <2>2. ChunkCount(rows) = 0
    <3>1. ChunkCount(rows) = (size - 1) \div size
      BY <1>1, <1>2, <1>3 DEF ChunkCount
    <3>2. (size - 1) \div size = 0
      OBVIOUS
    <3>3. QED
      BY <3>1, <3>2
  <2>3. Chunks(rows) = <<>>
    BY <2>2 DEF Chunks
  <2>4. QED
    BY <2>1, <2>3 DEF FlattenSeq
<1>4. CASE len # 0
  <2>1. PICK n \in Nat \ {0} : n = ChunkCount(rows)
    BY <1>1, <1>2, <1>4, ChunkCuts DEF ChunkCount
  <2>2. /\ \A i \in 1..n : (i - 1) * size \in 0..(len - 1) /\ (i < n => i * size < len)
        /\ len <= n * size
    BY <1>1, <1>2, <1>4, <2>1, ChunkCuts DEF ChunkCount
  <2> DEFINE cut(i) == IF i < n THEN i * size ELSE len
             pieces == [i \in 1..n |-> SubSeq(rows, (i - 1) * size + 1, cut(i))]
             g == [i \in 1..n |-> SubSeq(rows, 1, cut(i))]
  <2>3. Chunks(rows) = pieces
    <3>1. \A i \in 1..n : Min({i * size, len}) = cut(i)
      <4>1. SUFFICES ASSUME NEW i \in 1..n PROVE Min({i * size, len}) = cut(i)
        OBVIOUS
      <4>2. PICK m \in Nat : m = i * size
        OBVIOUS
      <4>3. Min({m, len}) = IF m <= len THEN m ELSE len
        BY SmallerOfTwo
      <4>4. (i < n => m < len) /\ (i = n => len <= m)
        BY <2>2, <4>2
      <4>5. QED
        BY <4>2, <4>3, <4>4
    <3>2. QED
      BY <1>1, <1>2, <2>1, <3>1 DEF Chunks
  <2>4. Len(pieces) = n
    OBVIOUS
  <2>5. \A i \in 1..n : g[i] = IF i = 1 THEN pieces[i] ELSE g[i - 1] \o pieces[i]
    <3>1. SUFFICES ASSUME NEW i \in 1..n
                   PROVE  g[i] = IF i = 1 THEN pieces[i] ELSE g[i - 1] \o pieces[i]
      OBVIOUS
    <3>2. PICK a \in Nat : a = (i - 1) * size /\ a < len
      BY <2>2
    <3>3. PICK b \in Nat : b = cut(i) /\ a <= b /\ b <= len
      <4>1. CASE i < n
        <5>1. i * size = a + size
          BY <3>2
        <5>2. i * size < len
          BY <2>2, <4>1
        <5>3. QED
          BY <3>2, <4>1, <5>1, <5>2
      <4>2. CASE ~(i < n)
        BY <3>2, <4>2
      <4>3. QED
        BY <4>1, <4>2
    <3>4. SubSeq(rows, 1, a) \o SubSeq(rows, a + 1, b) = SubSeq(rows, 1, b)
      BY <1>1, <3>2, <3>3, PiecesJoin
    <3>5. pieces[i] = SubSeq(rows, a + 1, b) /\ g[i] = SubSeq(rows, 1, b)
      BY <3>2, <3>3
    <3>6. CASE i = 1
      <4>1. a = 0
        BY <3>2, <3>6
      <4>2. QED
        BY <3>5, <3>6, <4>1
    <3>7. CASE i # 1
      <4>1. i - 1 \in 1..n /\ i - 1 < n
        BY <3>7
      <4>2. g[i - 1] = SubSeq(rows, 1, a)
        BY <3>2, <4>1
      <4>3. QED
        BY <3>4, <3>5, <3>7, <4>2
    <3>8. QED
      BY <3>6, <3>7
  <2>6. g[n] = rows
    <3>1. g[n] = SubSeq(rows, 1, len)
      OBVIOUS
    <3>2. SubSeq(rows, 1, Len(rows)) = rows
      OBVIOUS
    <3>3. QED
      BY <1>1, <3>1, <3>2
  <2>7. DOMAIN g = 1..n
    OBVIOUS
  <2> HIDE DEF pieces, g
  <2>8. PICK h : h = g
    OBVIOUS
  <2>9. h = [i \in 1..n |-> IF i = 1 THEN pieces[i] ELSE h[i - 1] \o pieces[i]]
    <3>1. g = [i \in 1..n |-> g[i]]
      BY DEF g
    <3>2. QED
      BY <2>5, <2>8, <3>1
  <2>10. FlattenSeq(pieces) = h[n]
    <3>1. n \in Nat \ {0}
      BY <2>1
    <3>2. PICK seqs : seqs = pieces
      OBVIOUS
    <3>3. Len(seqs) = n /\ Accumulates(h, n, seqs)
      BY <2>4, <2>9, <3>2 DEF Accumulates
    <3>4. FlattenSeq(seqs) = h[n]
      BY <3>1, <3>3, FlattenUnique
    <3>5. QED
      BY <3>2, <3>4
  <2>11. QED
    BY <2>3, <2>6, <2>8, <2>10
<1>5. QED
  BY <1>3, <1>4

\* The rows of a set, each once.
LEMMA SetToSeqEnumerates ==
  ASSUME NEW T, IsFiniteSet(T)
  PROVE  /\ SetToSeq(T) \in Seq(T) /\ Len(SetToSeq(T)) = Cardinality(T)
         /\ \A i, j \in 1..Cardinality(T) : SetToSeq(T)[i] = SetToSeq(T)[j] => i = j
<1>1. PICK n \in Nat : n = Cardinality(T) /\ ExistsBijection(1..n, T)
  BY FS_CardinalityType
<1>2. PICK f : f \in Bijection(1..n, T)
  BY <1>1 DEF ExistsBijection
<1>3. f \in [1..n -> T] /\ IsInjective(f)
  BY <1>2 DEF Bijection, Injection, IsInjective
<1>4. SetToSeq(T) \in [1..n -> T] /\ IsInjective(SetToSeq(T))
  <2> DEFINE Enum(g) == g \in [1..n -> T] /\ IsInjective(g)
  <2>1. SetToSeq(T) = CHOOSE g \in [1..n -> T] : IsInjective(g)
    BY <1>1 DEF SetToSeq
  <2>2. \E g \in [1..n -> T] : IsInjective(g)
    BY <1>3
  <2>3. QED
    BY <2>1, <2>2
<1>5. PICK s \in [1..n -> T] : s = SetToSeq(T) /\ IsInjective(s)
  BY <1>4
<1>6. s \in Seq(T) /\ Len(s) = n
  OBVIOUS
<1>7. \A i, j \in 1..n : s[i] = s[j] => i = j
  BY <1>5 DEF IsInjective
<1>8. QED
  BY <1>1, <1>5, <1>6, <1>7

\* The lines of a row in a table.
ResultLines == [row : SiRows, error : BOOLEAN]
Lines(table, row) == {n \in 1..Len(table) : table[n].row = row}

\* From one table to a longer one a row gets one line more, if its line is
\* among those added, or none.
RowGains(table, added, longer, row) ==
    /\ Cardinality(Lines(table, row)) \in Nat /\ Cardinality(Lines(longer, row)) \in Nat
    /\ Cardinality(Lines(longer, row)) <= Cardinality(Lines(table, row)) + 1
    /\ (\A i \in 1..Len(added) : added[i].row # row) => Lines(longer, row) = Lines(table, row)
    /\ (\E i \in 1..Len(added) : added[i].row = row) => Lines(longer, row) # {}

LEMMA LinesAdded ==
  ASSUME NEW table \in Seq(ResultLines), NEW more \in Seq(ResultLines), NEW row,
         \A i, j \in 1..Len(more) : more[i].row = more[j].row => i = j
  PROVE  RowGains(table, more, table \o more, row)
<1>1. PICK a \in Nat, b \in Nat : a = Len(table) /\ b = Len(more)
  BY LenProperties
<1>2. PICK all \in Seq(ResultLines) :
        /\ all = table \o more /\ Len(all) = a + b
        /\ \A i \in 1..(a + b) : all[i] = IF i <= a THEN table[i] ELSE more[i - a]
  <2>1. /\ table \o more \in Seq(ResultLines) /\ Len(table \o more) = Len(table) + Len(more)
        /\ \A i \in 1..(Len(table) + Len(more)) :
              (table \o more)[i] = IF i <= Len(table) THEN table[i] ELSE more[i - Len(table)]
    BY ConcatProperties
  <2>2. QED
    BY <1>1, <2>1
<1>3. PICK old \in SUBSET (1..a), new \in SUBSET (1..(a + b)) :
        old = Lines(table, row) /\ new = Lines(all, row)
  BY <1>1, <1>2 DEF Lines
<1>4. IsFiniteSet(old) /\ Cardinality(old) \in Nat
  <2>1. IsFiniteSet(1..a)
    BY FS_Interval
  <2>2. IsFiniteSet(old)
    BY <2>1, FS_Subset
  <2>3. QED
    BY <2>2, FS_CardinalityType
<1>5. CASE \A i \in 1..b : more[i].row # row
  <2>1. \A i \in 1..(a + b) : all[i].row = row => i \in 1..a /\ table[i].row = row
    <3>1. SUFFICES ASSUME NEW i \in 1..(a + b), all[i].row = row
                   PROVE  i \in 1..a /\ table[i].row = row
      OBVIOUS
    <3>2. i <= a
      <4>1. ASSUME ~(i <= a) PROVE FALSE
        <5>1. i - a \in 1..b /\ all[i] = more[i - a]
          BY <1>2, <4>1
        <5>2. QED
          BY <1>5, <3>1, <5>1
      <4>2. QED
        BY <4>1
    <3>3. QED
      BY <1>2, <3>1, <3>2
  <2>2. \A i \in 1..a : i \in 1..(a + b) /\ all[i] = table[i]
    BY <1>2
  <2>3. new = old
    BY <1>1, <1>2, <1>3, <2>1, <2>2 DEF Lines
  <2>4. QED
    BY <1>1, <1>2, <1>3, <1>4, <1>5, <2>3 DEF RowGains
<1>6. CASE \E i \in 1..b : more[i].row = row
  <2>1. PICK k \in 1..b : more[k].row = row
    BY <1>6
  <2>2. \A i \in 1..b : more[i].row = row => i = k
    BY <1>1, <2>1
  <2>3. a + k \in 1..(a + b) /\ ~(a + k <= a) /\ (a + k) - a = k /\ a + k \notin 1..a
    OBVIOUS
  <2>4. all[a + k] = more[k]
    BY <1>2, <2>3
  <2>5. \A i \in 1..(a + b) : all[i].row = row => i = a + k \/ (i \in 1..a /\ table[i].row = row)
    <3>1. SUFFICES ASSUME NEW i \in 1..(a + b), all[i].row = row, i # a + k
                   PROVE  i \in 1..a /\ table[i].row = row
      OBVIOUS
    <3>2. i <= a
      <4>1. ASSUME ~(i <= a) PROVE FALSE
        <5>1. i - a \in 1..b /\ all[i] = more[i - a]
          BY <1>2, <4>1
        <5>2. i - a = k
          BY <2>2, <3>1, <5>1
        <5>3. QED
          BY <3>1, <5>2
      <4>2. QED
        BY <4>1
    <3>3. QED
      BY <1>2, <3>1, <3>2
  <2>6. \A i \in 1..a : i \in 1..(a + b) /\ all[i] = table[i]
    BY <1>2
  <2>7. new = old \cup {a + k} /\ a + k \notin old
    <3>1. old = {i \in 1..a : table[i].row = row} /\ new = {i \in 1..(a + b) : all[i].row = row}
      BY <1>1, <1>2, <1>3 DEF Lines
    <3>2. \A i \in new : i \in old \/ i = a + k
      BY <2>5, <3>1
    <3>3. \A i \in old : i \in new
      BY <2>6, <3>1
    <3>4. a + k \in new /\ a + k \notin old
      BY <2>1, <2>3, <2>4, <3>1
    <3>5. QED
      BY <3>2, <3>3, <3>4
  <2>8. IsFiniteSet(new) /\ Cardinality(new) = Cardinality(old) + 1 /\ new # {}
    BY <1>4, <2>7, FS_AddElement
  <2>9. PICK c \in Nat : c = Cardinality(old)
    BY <1>4
  <2>10. Cardinality(new) = c + 1
    BY <2>8, <2>9
  <2>11. ~(\A i \in 1..b : more[i].row # row)
    BY <1>6
  <2>12. /\ Cardinality(new) \in Nat /\ Cardinality(new) <= Cardinality(old) + 1
    BY <2>9, <2>10
  <2>13. QED
    BY <1>1, <1>2, <1>3, <1>4, <2>8, <2>11, <2>12 DEF RowGains
<1>7. QED
  BY <1>1, <1>5, <1>6

\* How far the batch has got: the answers so far and the rows still to ask
\* about are the batch.
Answering(batch, results, todo) ==
    /\ Len(batch) = Len(results) + Len(todo)
    /\ \A i \in 1..Len(results) : results[i].row = batch[i]
    /\ \A j \in 1..Len(todo) : todo[j] = batch[Len(results) + j]

LEMMA AnsweringBegins ==
  ASSUME NEW batch \in Seq(SiRows)
  PROVE  /\ FlattenSeq(Chunks(batch)) = batch /\ <<>> \in Seq(ResultLines)
         /\ Answering(batch, <<>>, batch)
<1>1. FlattenSeq(Chunks(batch)) = batch
  BY ChunksFlatten
<1>2. PICK len \in Nat : len = Len(batch)
  BY LenProperties
<1>3. PICK none \in Seq(ResultLines) : none = <<>> /\ Len(none) = 0
  BY EmptySeq
<1>4. Answering(batch, none, batch)
  BY <1>2, <1>3 DEF Answering
<1>5. QED
  BY <1>1, <1>3, <1>4

LEMMA AnsweringGoesOn ==
  ASSUME NEW batch \in Seq(SiRows), NEW results \in Seq(ResultLines),
         NEW todo \in Seq(SiRows), todo # <<>>, NEW error \in BOOLEAN,
         Answering(batch, results, todo)
  PROVE  /\ Append(results, ResultRow(Head(todo), error)) \in Seq(ResultLines)
         /\ Tail(todo) \in Seq(SiRows) /\ (Len(todo) = 1 <=> Tail(todo) = <<>>)
         /\ Answering(batch, Append(results, ResultRow(Head(todo), error)), Tail(todo))
<1>1. PICK a \in Nat, b \in Nat : a = Len(results) /\ b = Len(todo) /\ b # 0
  <2>1. Len(todo) # 0
    BY EmptySeq
  <2>2. QED
    BY <2>1, LenProperties
<1>2. Head(todo) \in SiRows /\ Head(todo) = todo[1]
  BY HeadTailProperties
<1>3. PICK line \in ResultLines : line = ResultRow(Head(todo), error) /\ line.row = todo[1]
  <2>1. ResultRow(Head(todo), error) \in ResultLines
    BY <1>2, Zenon DEF ResultRow, ResultLines
  <2>2. ResultRow(Head(todo), error).row = todo[1]
    BY <1>2 DEF ResultRow
  <2>3. QED
    BY <2>1, <2>2
<1>4. PICK more \in Seq(ResultLines) :
        /\ more = Append(results, line) /\ Len(more) = a + 1
        /\ \A i \in 1..a : more[i] = results[i]
        /\ more[a + 1] = line
  <2>1. /\ Append(results, line) \in Seq(ResultLines)
        /\ Len(Append(results, line)) = Len(results) + 1
        /\ \A i \in 1..Len(results) : Append(results, line)[i] = results[i]
        /\ Append(results, line)[Len(results) + 1] = line
    BY AppendProperties
  <2>2. QED
    BY <1>1, <2>1
<1>5. PICK rest \in Seq(SiRows) :
        /\ rest = Tail(todo) /\ Len(rest) = b - 1
        /\ \A j \in 1..(b - 1) : rest[j] = todo[j + 1]
  <2>1. /\ Tail(todo) \in Seq(SiRows) /\ Len(Tail(todo)) = Len(todo) - 1
        /\ \A i \in 1..Len(Tail(todo)) : Tail(todo)[i] = todo[i + 1]
    BY HeadTailProperties
  <2>2. QED
    BY <1>1, <2>1
<1>6. /\ Len(batch) = a + b
      /\ \A i \in 1..a : results[i].row = batch[i]
      /\ \A j \in 1..b : todo[j] = batch[a + j]
  BY <1>1 DEF Answering
<1>7. Answering(batch, more, rest)
  <2>1. Len(batch) = (a + 1) + (b - 1)
    BY <1>1, <1>6
  <2>2. \A i \in 1..(a + 1) : more[i].row = batch[i]
    <3>1. more[a + 1].row = batch[a + 1]
      BY <1>1, <1>3, <1>4, <1>6
    <3>2. \A i \in 1..a : more[i].row = batch[i]
      BY <1>4, <1>6
    <3>3. \A i \in 1..(a + 1) : i \in 1..a \/ i = a + 1
      OBVIOUS
    <3>4. QED
      BY <3>1, <3>2, <3>3
  <2>3. \A j \in 1..(b - 1) : rest[j] = batch[(a + 1) + j]
    <3>1. \A j \in 1..(b - 1) : j + 1 \in 1..b /\ a + (j + 1) = (a + 1) + j
      BY <1>1
    <3>2. QED
      BY <1>5, <1>6, <3>1
  <2>4. QED
    BY <1>4, <1>5, <2>1, <2>2, <2>3 DEF Answering
<1>8. Len(todo) = 1 <=> Tail(todo) = <<>>
  <2>1. rest = <<>> <=> b - 1 = 0
    BY <1>5, EmptySeq
  <2>2. QED
    BY <1>1, <1>5, <2>1
<1>9. QED
  BY <1>3, <1>4, <1>5, <1>7, <1>8

-----------------------------------------------------------------------------
(***************************************************************************)
(* StreamingInference: the log of batches, the running batch, the table    *)
(***************************************************************************)
SiShapes ==
    /\ siLanded \subseteq SiRows /\ IsFiniteSet(siLanded)
    /\ siPlanned \in Seq(Seq(SiRows)) /\ siCommits \in Nat /\ siFailures \in Nat
    /\ siTodo \in Seq(SiRows) /\ siResults \in Seq(ResultLines)
    /\ siSink \in Seq(ResultLines)

\* No batch is empty and no row is planned twice.
PlannedOnce(planned) ==
    /\ \A b \in 1..Len(planned) : planned[b] # <<>>
    /\ \A b, c \in 1..Len(planned) :
          \A i \in 1..Len(planned[b]), j \in 1..Len(planned[c]) :
             planned[b][i] = planned[c][j] => b = c /\ i = j

\* At most the last batch is not committed, and the query runs that one only.
LogKept(state, planned, commits) ==
    /\ Len(planned) = commits \/ Len(planned) = commits + 1
    /\ state = "waiting" => Len(planned) = commits
    /\ state \in {"inferring", "writing", "written"} => Len(planned) = commits + 1
    /\ state \in {"down", "waiting", "inferring", "writing", "written"}

BatchKept(state, batch, results, todo) ==
    /\ state \in {"inferring", "writing"} => Answering(batch, results, todo)
    /\ state = "inferring" => todo # <<>>
    /\ state = "writing" => todo = <<>>

\* What is in the table is of planned batches.  Lines in excess of one are
\* deaths of the query; a batch that is still to be written has that many.
TableKept(state, planned, commits, sink, failures) ==
    /\ \A row : Cardinality(Lines(sink, row)) <= failures + 1
    /\ \A n \in 1..Len(sink) :
          \E b \in 1..Len(planned) : \E i \in 1..Len(planned[b]) :
             planned[b][i] = sink[n].row
    /\ Len(planned) = commits + 1 /\ state # "written" =>
          \A i \in 1..Len(planned[Len(planned)]) :
             Cardinality(Lines(sink, planned[Len(planned)][i])) <= failures
    /\ \A b \in 1..Len(planned) :
          b <= commits \/ state = "written" =>
             \A i \in 1..Len(planned[b]) : Lines(sink, planned[b][i]) # {}

SiInv ==
    /\ SiShapes /\ PlannedOnce(siPlanned)
    /\ LogKept(siState, siPlanned, siCommits)
    /\ BatchKept(siState, siPlanned[Len(siPlanned)], siResults, siTodo)
    /\ TableKept(siState, siPlanned, siCommits, siSink, siFailures)

LEMMA LinesFinite ==
  ASSUME NEW table \in Seq(ResultLines), NEW row
  PROVE  IsFiniteSet(Lines(table, row)) /\ Cardinality(Lines(table, row)) \in Nat
<1>1. PICK a \in Nat : a = Len(table)
  BY LenProperties
<1>2. IsFiniteSet(1..a)
  BY FS_Interval
<1>3. Lines(table, row) \subseteq 1..a
  BY <1>1 DEF Lines
<1>4. IsFiniteSet(Lines(table, row))
  BY <1>2, <1>3, FS_Subset
<1>5. QED
  BY <1>4, FS_CardinalityType

LEMMA SiInvInit == SiInit => SiInv
<1> SUFFICES ASSUME SiInit PROVE SiInv
  OBVIOUS
<1>1. /\ siState = "down" /\ siLanded = {} /\ siPlanned = <<>> /\ siCommits = 0
      /\ siTodo = <<>> /\ siResults = <<>> /\ siSink = <<>> /\ siFailures = 0
  BY DEF SiInit
<1>2. Len(siPlanned) = 0 /\ Len(siSink) = 0
  BY <1>1
<1>3. SiShapes
  <2>1. IsFiniteSet({})
    BY FS_EmptySet
  <2>2. <<>> \in Seq(SiRows) /\ <<>> \in Seq(ResultLines) /\ <<>> \in Seq(Seq(SiRows))
    OBVIOUS
  <2>3. QED
    BY <1>1, <2>1, <2>2 DEF SiShapes
<1>4. PlannedOnce(siPlanned)
  BY <1>2 DEF PlannedOnce
<1>5. LogKept(siState, siPlanned, siCommits)
  BY <1>1, <1>2 DEF LogKept
<1>6. BatchKept(siState, siPlanned[Len(siPlanned)], siResults, siTodo)
  BY <1>1 DEF BatchKept
<1>7. TableKept(siState, siPlanned, siCommits, siSink, siFailures)
  <2>1. \A row : Lines(siSink, row) = {}
    BY <1>2 DEF Lines
  <2>2. Cardinality({}) = 0
    BY FS_EmptySet
  <2>3. \A row : Cardinality(Lines(siSink, row)) <= siFailures + 1
    <3>1. 0 <= siFailures + 1
      BY <1>1
    <3>2. \A row : Cardinality(Lines(siSink, row)) = 0
      BY <2>1, <2>2
    <3>3. QED
      BY <3>1, <3>2
  <2>4. QED
    BY <1>1, <1>2, <2>3 DEF TableKept
<1>8. QED
  BY <1>3, <1>4, <1>5, <1>6, <1>7 DEF SiInv

LEMMA SiInvLand == SiInv /\ Land => SiInv'
<1> SUFFICES ASSUME SiInv, Land PROVE SiInv'
  OBVIOUS
<1>1. PICK row \in SiRows : siLanded' = siLanded \cup {row}
  BY DEF Land
<1>2. IsFiniteSet(siLanded')
  BY <1>1, FS_AddElement DEF SiInv, SiShapes
<1>3. SiShapes'
  BY <1>1, <1>2 DEF SiInv, SiShapes, Land
<1>4. QED
  BY <1>3 DEF SiInv, Land

\* A batch that is put to work, the first time or again.
LEMMA SiInvCollect ==
  ASSUME SiShapes, NEW batch \in Seq(SiRows), batch # <<>>, Collect(batch)
  PROVE  /\ siState' = "inferring" /\ siTodo' \in Seq(SiRows) /\ siResults' \in Seq(ResultLines)
         /\ BatchKept(siState', batch, siResults', siTodo')
<1>1. siState' = "inferring" /\ siTodo' = batch /\ siResults' = <<>>
  BY AnsweringBegins DEF Collect
<1>2. QED
  BY <1>1, AnsweringBegins DEF BatchKept

LEMMA SiInvStart == SiInv /\ StartQuery => SiInv'
<1> SUFFICES ASSUME SiInv, StartQuery PROVE SiInv'
  OBVIOUS
<1>1. /\ siState = "down" /\ siPlanned' = siPlanned /\ siCommits' = siCommits
      /\ siSink' = siSink /\ siFailures' = siFailures /\ siLanded' = siLanded
  BY DEF StartQuery
<1>2. PICK n \in Nat : n = Len(siPlanned)
  BY LenProperties DEF SiInv, SiShapes
<1>3. CASE n > siCommits
  <2>1. n = siCommits + 1 /\ n \in 1..n
    BY <1>2, <1>3 DEF SiInv, LogKept, SiShapes
  <2>2. PICK batch \in Seq(SiRows) : batch = siPlanned[n] /\ batch # <<>>
    <3>1. siPlanned[n] \in Seq(SiRows)
      BY <1>2, <2>1, ElementOfSeq DEF SiInv, SiShapes
    <3>2. siPlanned[n] # <<>>
      BY <1>2, <2>1 DEF SiInv, PlannedOnce
    <3>3. QED
      BY <3>1, <3>2
  <2>3. Collect(batch)
    BY <1>2, <1>3, <2>2 DEF StartQuery, Last
  <2>4. /\ siState' = "inferring" /\ siTodo' \in Seq(SiRows) /\ siResults' \in Seq(ResultLines)
        /\ BatchKept(siState', batch, siResults', siTodo')
    BY <2>2, <2>3, SiInvCollect DEF SiInv
  <2>5. SiShapes'
    BY <1>1, <2>4 DEF SiInv, SiShapes
  <2>6. LogKept(siState', siPlanned, siCommits)
    BY <1>2, <2>1, <2>4 DEF LogKept
  <2>7. TableKept(siState', siPlanned, siCommits, siSink, siFailures)
    BY <1>1, <2>4 DEF SiInv, TableKept
  <2>8. QED
    BY <1>1, <1>2, <2>2, <2>4, <2>5, <2>6, <2>7 DEF SiInv
<1>4. CASE ~(n > siCommits)
  <2>1. siState' = "waiting" /\ siTodo' = siTodo /\ siResults' = siResults
    BY <1>2, <1>4 DEF StartQuery
  <2>2. n = siCommits
    BY <1>2, <1>4 DEF SiInv, LogKept, SiShapes
  <2>3. SiShapes'
    BY <1>1, <2>1 DEF SiInv, SiShapes
  <2>4. LogKept(siState', siPlanned, siCommits)
    BY <1>2, <2>1, <2>2 DEF LogKept
  <2>5. TableKept(siState', siPlanned, siCommits, siSink, siFailures)
    BY <1>1, <2>1 DEF SiInv, TableKept
  <2>6. BatchKept(siState', siPlanned[Len(siPlanned)], siResults, siTodo)
    BY <2>1 DEF BatchKept
  <2>7. QED
    BY <1>1, <2>1, <2>3, <2>4, <2>5, <2>6 DEF SiInv
<1>5. QED
  BY <1>3, <1>4

LEMMA SiInvInfer == ASSUME NEW reply PROVE SiInv /\ InferRow(reply) => SiInv'
<1> SUFFICES ASSUME SiInv, InferRow(reply) PROVE SiInv'
  OBVIOUS
<1>1. /\ siState = "inferring" /\ siPlanned' = siPlanned /\ siCommits' = siCommits
      /\ siSink' = siSink /\ siFailures' = siFailures /\ siLanded' = siLanded
  BY DEF InferRow
<1>2. CASE UNCHANGED <<siState, siTodo, siResults>>
  BY <1>1, <1>2 DEF SiInv, SiShapes
<1>3. CASE Settle(reply # "ok")
  <2>1. PICK error \in BOOLEAN : error = (reply # "ok")
    OBVIOUS
  <2>2. PICK n \in Nat : n = Len(siPlanned) /\ n = siCommits + 1
    BY <1>1, LenProperties DEF SiInv, SiShapes, LogKept
  <2>3. PICK batch \in Seq(SiRows) : batch = siPlanned[n] /\ n \in 1..n
    <3>1. n \in 1..n
      BY <2>2 DEF SiInv, SiShapes
    <3>2. QED
      BY <2>2, <3>1, ElementOfSeq DEF SiInv, SiShapes
  <2>4. /\ siTodo # <<>> /\ Answering(batch, siResults, siTodo)
        /\ siTodo \in Seq(SiRows) /\ siResults \in Seq(ResultLines)
    BY <1>1, <2>2, <2>3 DEF SiInv, SiShapes, BatchKept
  <2>5. /\ siResults' = Append(siResults, ResultRow(Head(siTodo), error))
        /\ siTodo' = Tail(siTodo)
        /\ siState' = IF Len(siTodo) = 1 THEN "writing" ELSE "inferring"
    BY <1>3, <2>1 DEF Settle
  <2>6. /\ siResults' \in Seq(ResultLines) /\ siTodo' \in Seq(SiRows)
        /\ Len(siTodo) = 1 <=> siTodo' = <<>>
        /\ Answering(batch, siResults', siTodo')
    BY <2>4, <2>5, AnsweringGoesOn
  <2>7. siState' \in {"writing", "inferring"} /\ (siState' = "writing" <=> siTodo' = <<>>)
    BY <2>5, <2>6
  <2>8. SiShapes'
    BY <1>1, <2>6 DEF SiInv, SiShapes
  <2>9. LogKept(siState', siPlanned, siCommits)
    BY <2>2, <2>7 DEF LogKept
  <2>10. TableKept(siState', siPlanned, siCommits, siSink, siFailures)
    BY <1>1, <2>7 DEF SiInv, TableKept
  <2>11. BatchKept(siState', siPlanned[Len(siPlanned)], siResults', siTodo')
    BY <2>2, <2>3, <2>6, <2>7 DEF BatchKept
  <2>12. QED
    BY <1>1, <2>8, <2>9, <2>10, <2>11 DEF SiInv
<1>4. QED
  BY <1>2, <1>3 DEF InferRow

\* New rows are of no earlier batch, and have no line yet.
LEMMA SiInvPlan == SiInv /\ PlanBatch => SiInv'
<1> SUFFICES ASSUME SiInv, PlanBatch PROVE SiInv'
  OBVIOUS
<1>1. /\ siState = "waiting" /\ siCommits' = siCommits
      /\ siSink' = siSink /\ siFailures' = siFailures /\ siLanded' = siLanded
  BY DEF PlanBatch
<1>2. PICK rows \in SUBSET (siLanded \ SiPlannedRows) :
        /\ rows # {} /\ siPlanned' = Append(siPlanned, SetToSeq(rows))
        /\ Collect(SetToSeq(rows))
  BY DEF PlanBatch
<1>3. PICK n \in Nat : n = Len(siPlanned) /\ n = siCommits
  BY <1>1, LenProperties DEF SiInv, SiShapes, LogKept
<1>4. /\ SetToSeq(rows) \in Seq(rows) /\ Len(SetToSeq(rows)) = Cardinality(rows)
      /\ \A i, j \in 1..Cardinality(rows) : SetToSeq(rows)[i] = SetToSeq(rows)[j] => i = j
  <2>1. IsFiniteSet(rows)
    BY FS_Subset DEF SiInv, SiShapes
  <2>2. QED
    BY <2>1, SetToSeqEnumerates
<1>5. PICK batch \in Seq(SiRows) :
        /\ batch = SetToSeq(rows) /\ batch # <<>>
        /\ \A i \in 1..Len(batch) : batch[i] \in rows
        /\ \A i, j \in 1..Len(batch) : batch[i] = batch[j] => i = j
  <2>1. rows \subseteq SiRows
    BY DEF SiInv, SiShapes
  <2>2. SetToSeq(rows) \in Seq(SiRows)
    BY <1>4, <2>1
  <2>3. \A i \in 1..Len(SetToSeq(rows)) : SetToSeq(rows)[i] \in rows
    BY <1>4, ElementOfSeq
  <2>4. SetToSeq(rows) # <<>>
    <3>1. IsFiniteSet(rows)
      BY FS_Subset DEF SiInv, SiShapes
    <3>2. Cardinality(rows) # 0
      BY <1>2, <3>1, FS_EmptySet
    <3>3. QED
      BY <1>4, <3>2
  <2>5. QED
    BY <1>4, <2>2, <2>3, <2>4
<1>6. \A b \in 1..n : \A i \in 1..Len(siPlanned[b]) : siPlanned[b][i] \notin rows
  <2>1. \A b \in 1..n : \A i \in 1..Len(siPlanned[b]) : siPlanned[b][i] \in SiPlannedRows
    <3>1. SUFFICES ASSUME NEW b \in 1..n, NEW i \in 1..Len(siPlanned[b])
                   PROVE  siPlanned[b][i] \in SiPlannedRows
      OBVIOUS
    <3>2. DOMAIN siPlanned = 1..n
      BY <1>3, LenProperties DEF SiInv, SiShapes
    <3>3. siPlanned[b] \in Seq(SiRows)
      BY <1>3, ElementOfSeq DEF SiInv, SiShapes
    <3>4. i \in DOMAIN siPlanned[b]
      BY <3>3, LenProperties
    <3>5. siPlanned[b][i] \in Range(siPlanned[b])
      BY <3>4 DEF Range
    <3>6. QED
      BY <3>2, <3>5 DEF SiPlannedRows
  <2>2. QED
    BY <2>1
<1>7. PICK planned \in Seq(Seq(SiRows)) :
        /\ planned = siPlanned' /\ Len(planned) = n + 1 /\ planned[n + 1] = batch
        /\ \A b \in 1..n : planned[b] = siPlanned[b]
  <2>1. /\ Append(siPlanned, batch) \in Seq(Seq(SiRows))
        /\ Len(Append(siPlanned, batch)) = Len(siPlanned) + 1
        /\ \A i \in 1..Len(siPlanned) : Append(siPlanned, batch)[i] = siPlanned[i]
        /\ Append(siPlanned, batch)[Len(siPlanned) + 1] = batch
    BY AppendProperties DEF SiInv, SiShapes
  <2>2. QED
    BY <1>2, <1>3, <1>5, <2>1
<1>8. /\ siState' = "inferring" /\ siTodo' \in Seq(SiRows) /\ siResults' \in Seq(ResultLines)
      /\ BatchKept(siState', batch, siResults', siTodo')
  BY <1>2, <1>5, SiInvCollect DEF SiInv
<1>9. SiShapes'
  BY <1>1, <1>7, <1>8 DEF SiInv, SiShapes
<1>10. \A b \in 1..(n + 1) : b \in 1..n \/ b = n + 1
  OBVIOUS
<1>11. PlannedOnce(planned)
  <2>1. \A b \in 1..(n + 1) : planned[b] # <<>>
    <3>1. \A b \in 1..n : siPlanned[b] # <<>>
      BY <1>3 DEF SiInv, PlannedOnce
    <3>2. QED
      BY <1>5, <1>7, <1>10, <3>1
  <2>2. SUFFICES ASSUME NEW b \in 1..(n + 1), NEW c \in 1..(n + 1),
                        NEW i \in 1..Len(planned[b]), NEW j \in 1..Len(planned[c]),
                        planned[b][i] = planned[c][j]
                 PROVE  b = c /\ i = j
    BY <1>7, <2>1 DEF PlannedOnce
  <2>3. CASE b \in 1..n /\ c \in 1..n
    <3>1. PlannedOnce(siPlanned) /\ Len(siPlanned) = n
      BY <1>3 DEF SiInv
    <3>2. planned[b] = siPlanned[b] /\ planned[c] = siPlanned[c]
      BY <1>7, <2>3
    <3>3. /\ i \in 1..Len(siPlanned[b]) /\ j \in 1..Len(siPlanned[c])
          /\ siPlanned[b][i] = siPlanned[c][j]
      BY <2>2, <3>2
    <3>4. QED
      BY <2>3, <3>1, <3>3 DEF PlannedOnce
  <2>4. CASE b \in 1..n /\ c = n + 1
    <3>1. planned[b] = siPlanned[b] /\ planned[c] = batch
      BY <1>7, <2>4
    <3>2. siPlanned[b][i] \notin rows
      BY <1>6, <2>4, <3>1
    <3>3. batch[j] \in rows
      BY <1>5, <3>1
    <3>4. QED
      BY <2>2, <3>1, <3>2, <3>3
  <2>5. CASE b = n + 1 /\ c \in 1..n
    <3>1. planned[c] = siPlanned[c] /\ planned[b] = batch
      BY <1>7, <2>5
    <3>2. siPlanned[c][j] \notin rows
      BY <1>6, <2>5, <3>1
    <3>3. batch[i] \in rows
      BY <1>5, <3>1
    <3>4. QED
      BY <2>2, <3>1, <3>2, <3>3
  <2>6. CASE b = n + 1 /\ c = n + 1
    BY <1>5, <1>7, <2>2, <2>6
  <2>7. QED
    BY <1>10, <2>3, <2>4, <2>5, <2>6
<1>12. LogKept(siState', planned, siCommits)
  BY <1>3, <1>7, <1>8 DEF LogKept
<1>13. TableKept(siState', planned, siCommits, siSink, siFailures)
  <2>1. \A row : Cardinality(Lines(siSink, row)) <= siFailures + 1
    BY DEF SiInv, TableKept
  <2>2. \A k \in 1..Len(siSink) :
          \E b \in 1..n : \E i \in 1..Len(siPlanned[b]) : siPlanned[b][i] = siSink[k].row
    BY <1>3 DEF SiInv, TableKept
  <2>3. \A k \in 1..Len(siSink) :
          \E b \in 1..(n + 1) : \E i \in 1..Len(planned[b]) : planned[b][i] = siSink[k].row
    <3>1. SUFFICES ASSUME NEW k \in 1..Len(siSink)
                   PROVE  \E b \in 1..(n + 1) : \E i \in 1..Len(planned[b]) :
                             planned[b][i] = siSink[k].row
      OBVIOUS
    <3>2. PICK b \in 1..n : \E i \in 1..Len(siPlanned[b]) : siPlanned[b][i] = siSink[k].row
      BY <2>2
    <3>3. planned[b] = siPlanned[b] /\ b \in 1..(n + 1)
      BY <1>7
    <3>4. QED
      BY <3>2, <3>3
  <2>4. \A i \in 1..Len(batch) : Lines(siSink, batch[i]) = {}
    <3>1. \A k \in 1..Len(siSink) : siSink[k].row \notin rows
      BY <1>6, <2>2
    <3>2. QED
      BY <1>5, <3>1 DEF Lines
  <2>5. \A i \in 1..Len(batch) : Cardinality(Lines(siSink, batch[i])) <= siFailures
    <3>1. Cardinality({}) = 0 /\ 0 <= siFailures
      BY FS_EmptySet DEF SiInv, SiShapes
    <3>2. QED
      BY <2>4, <3>1
  <2>6. \A b \in 1..n : \A i \in 1..Len(siPlanned[b]) : Lines(siSink, siPlanned[b][i]) # {}
    <3>1. \A b \in 1..n : b <= siCommits
      BY <1>3
    <3>2. QED
      BY <1>3, <3>1 DEF SiInv, TableKept
  <2>7. \A b \in 1..(n + 1) : b <= siCommits => b \in 1..n
    BY <1>3
  <2>8. \A b \in 1..(n + 1) : b <= siCommits =>
          \A i \in 1..Len(planned[b]) : Lines(siSink, planned[b][i]) # {}
    BY <1>7, <2>6, <2>7
  <2>9. siState' # "written"
    BY <1>8
  <2>10. QED
    BY <1>7, <2>1, <2>3, <2>5, <2>8, <2>9 DEF TableKept
<1>14. QED
  BY <1>1, <1>7, <1>8, <1>9, <1>11, <1>12, <1>13 DEF SiInv

LEMMA SiInvDies == SiInv /\ QueryDies => SiInv'
<1> SUFFICES ASSUME SiInv, QueryDies PROVE SiInv'
  OBVIOUS
<1>1. /\ siState' = "down" /\ siPlanned' = siPlanned /\ siCommits' = siCommits
      /\ siSink' = siSink /\ siFailures' = siFailures + 1 /\ siLanded' = siLanded
      /\ siTodo' = <<>> /\ siResults' = <<>>
  BY DEF QueryDies
<1>2. SiShapes'
  <2>1. <<>> \in Seq(SiRows) /\ <<>> \in Seq(ResultLines)
    OBVIOUS
  <2>2. QED
    BY <1>1, <2>1 DEF SiInv, SiShapes
<1>3. LogKept(siState', siPlanned, siCommits)
  BY <1>1 DEF SiInv, LogKept
<1>4. BatchKept(siState', siPlanned[Len(siPlanned)], siResults', siTodo')
  BY <1>1 DEF BatchKept
<1>5. TableKept(siState', siPlanned, siCommits, siSink, siFailures + 1)
  <2>1. PICK deaths \in Nat : deaths = siFailures
    BY DEF SiInv, SiShapes
  <2>2. \A row : Cardinality(Lines(siSink, row)) <= deaths + 1
    BY <2>1 DEF SiInv, TableKept
  <2>3. \A row : Cardinality(Lines(siSink, row)) <= (deaths + 1) + 1
    <3>1. SUFFICES ASSUME NEW row
                   PROVE  Cardinality(Lines(siSink, row)) <= (deaths + 1) + 1
      OBVIOUS
    <3>2. PICK c \in Nat : c = Cardinality(Lines(siSink, row))
      BY LinesFinite DEF SiInv, SiShapes
    <3>3. c <= deaths + 1
      BY <2>2, <3>2
    <3>4. c <= (deaths + 1) + 1
      BY <3>3
    <3>5. QED
      BY <3>2, <3>4
  <2>4. /\ \A n \in 1..Len(siSink) :
              \E b \in 1..Len(siPlanned) : \E i \in 1..Len(siPlanned[b]) :
                 siPlanned[b][i] = siSink[n].row
        /\ \A b \in 1..Len(siPlanned) :
              b <= siCommits \/ siState = "written" =>
                 \A i \in 1..Len(siPlanned[b]) : Lines(siSink, siPlanned[b][i]) # {}
    BY DEF SiInv, TableKept
  <2>5. \A i \in 1..Len(siPlanned[Len(siPlanned)]) :
           Cardinality(Lines(siSink, siPlanned[Len(siPlanned)][i])) <= deaths + 1
    BY <2>2
  <2>6. QED
    BY <1>1, <2>1, <2>3, <2>4, <2>5 DEF TableKept
<1>6. QED
  BY <1>1, <1>2, <1>3, <1>4, <1>5 DEF SiInv

LEMMA SiInvCommit == SiInv /\ CommitBatch => SiInv'
<1> SUFFICES ASSUME SiInv, CommitBatch PROVE SiInv'
  OBVIOUS
<1>1. /\ siState = "written" /\ siState' = "waiting" /\ siPlanned' = siPlanned
      /\ siCommits' = siCommits + 1 /\ siSink' = siSink /\ siFailures' = siFailures
      /\ siLanded' = siLanded /\ siTodo' = siTodo /\ siResults' = siResults
  BY DEF CommitBatch
<1>2. PICK n \in Nat : n = siCommits /\ Len(siPlanned) = n + 1
  BY <1>1 DEF SiInv, SiShapes, LogKept
<1>3. SiShapes'
  BY <1>1 DEF SiInv, SiShapes
<1>4. LogKept(siState', siPlanned, siCommits')
  BY <1>1, <1>2 DEF LogKept
<1>5. BatchKept(siState', siPlanned[Len(siPlanned)], siResults, siTodo)
  BY <1>1 DEF BatchKept
<1>6. TableKept(siState', siPlanned, siCommits', siSink, siFailures)
  <2>1. ~(Len(siPlanned) = siCommits' + 1)
    BY <1>1, <1>2
  <2>2. QED
    BY <1>1, <2>1 DEF SiInv, TableKept
<1>7. QED
  BY <1>1, <1>3, <1>4, <1>5, <1>6 DEF SiInv

\* The append gives every row of the batch a line, and no row two.
LEMMA SiInvWrite == SiInv /\ WriteResults => SiInv'
<1> SUFFICES ASSUME SiInv, WriteResults PROVE SiInv'
  OBVIOUS
<1>1. /\ siState = "writing" /\ siState' = "written" /\ siPlanned' = siPlanned
      /\ siCommits' = siCommits /\ siSink' = siSink \o siResults
      /\ siFailures' = siFailures
      /\ siLanded' = siLanded /\ siTodo' = siTodo /\ siResults' = siResults
  BY DEF WriteResults
<1>2. PICK n \in Nat : n = siCommits /\ Len(siPlanned) = n + 1
  BY <1>1 DEF SiInv, SiShapes, LogKept
<1>3. PICK batch \in Seq(SiRows) : batch = siPlanned[n + 1]
  <2>1. n + 1 \in 1..Len(siPlanned)
    BY <1>2
  <2>2. QED
    BY <2>1, ElementOfSeq DEF SiInv, SiShapes
<1>4. PICK deaths \in Nat : deaths = siFailures
  BY DEF SiInv, SiShapes
<1>5. /\ Len(siResults) = Len(batch)
      /\ \A i \in 1..Len(batch) : siResults[i].row = batch[i]
  <2>1. Answering(batch, siResults, siTodo) /\ siTodo = <<>>
    BY <1>1, <1>2, <1>3 DEF SiInv, BatchKept
  <2>2. PICK len \in Nat : len = Len(siResults)
    BY LenProperties DEF SiInv, SiShapes
  <2>3. Len(batch) = len + 0 /\ \A i \in 1..len : siResults[i].row = batch[i]
    BY <2>1, <2>2 DEF Answering
  <2>4. QED
    BY <2>2, <2>3
<1>6. \A i, j \in 1..Len(batch) : batch[i] = batch[j] => i = j
  <2>1. n + 1 \in 1..(n + 1)
    OBVIOUS
  <2>2. QED
    BY <1>2, <1>3, <2>1 DEF SiInv, PlannedOnce
<1>7. siSink \in Seq(ResultLines) /\ siResults \in Seq(ResultLines)
  BY DEF SiInv, SiShapes
<1>8. \A i, j \in 1..Len(siResults) : siResults[i].row = siResults[j].row => i = j
  BY <1>5, <1>6
<1>9. PICK sink \in Seq(ResultLines) : sink = siSink \o siResults
  BY <1>7, ConcatProperties
<1>10. \A row : RowGains(siSink, siResults, sink, row)
  <2>1. PICK table, more : table = siSink /\ more = siResults
    OBVIOUS
  <2>2. \A row : RowGains(table, more, table \o more, row)
    BY <1>7, <1>8, <2>1, LinesAdded
  <2>3. QED
    BY <1>9, <2>1, <2>2
<1>11. SiShapes'
  BY <1>1, <1>9 DEF SiInv, SiShapes
<1>12. LogKept(siState', siPlanned, siCommits)
  BY <1>1, <1>2 DEF LogKept
<1>13. BatchKept(siState', siPlanned[Len(siPlanned)], siResults, siTodo)
  BY <1>1 DEF BatchKept
<1>14. \A row : Cardinality(Lines(sink, row)) <= siFailures + 1
  <2>1. SUFFICES ASSUME NEW row PROVE Cardinality(Lines(sink, row)) <= siFailures + 1
    OBVIOUS
  <2>2. CASE \E i \in 1..Len(batch) : batch[i] = row
    <3>1. Cardinality(Lines(siSink, row)) <= deaths
      <4>1. Len(siPlanned) = siCommits + 1 /\ siState # "written"
        BY <1>1, <1>2
      <4>2. \A i \in 1..Len(batch) : Cardinality(Lines(siSink, batch[i])) <= siFailures
        BY <1>2, <1>3, <4>1 DEF SiInv, TableKept
      <4>3. QED
        BY <1>4, <2>2, <4>2
    <3>2. PICK c \in Nat, d \in Nat : /\ c = Cardinality(Lines(siSink, row))
                                      /\ d = Cardinality(Lines(sink, row)) /\ d <= c + 1
      BY <1>10 DEF RowGains
    <3>3. d <= deaths + 1
      BY <3>1, <3>2
    <3>4. QED
      BY <1>4, <3>2, <3>3
  <2>3. CASE ~(\E i \in 1..Len(batch) : batch[i] = row)
    <3>1. \A i \in 1..Len(siResults) : siResults[i].row # row
      BY <1>5, <2>3
    <3>2. Lines(sink, row) = Lines(siSink, row)
      BY <1>10, <3>1 DEF RowGains
    <3>3. QED
      BY <3>2 DEF SiInv, TableKept
  <2>4. QED
    BY <2>2, <2>3
<1>15. \A k \in 1..Len(sink) :
         \E b \in 1..Len(siPlanned) : \E i \in 1..Len(siPlanned[b]) :
            siPlanned[b][i] = sink[k].row
  <2>1. SUFFICES ASSUME NEW k \in 1..Len(sink)
                 PROVE  \E b \in 1..Len(siPlanned) : \E i \in 1..Len(siPlanned[b]) :
                           siPlanned[b][i] = sink[k].row
    OBVIOUS
  <2>2. PICK a \in Nat, m \in Nat : a = Len(siSink) /\ m = Len(siResults)
    BY <1>7, LenProperties
  <2>3. k \in 1..(a + m) /\ sink[k] = IF k <= a THEN siSink[k] ELSE siResults[k - a]
    <3>1. /\ Len(siSink \o siResults) = Len(siSink) + Len(siResults)
          /\ \A i \in 1..(Len(siSink) + Len(siResults)) :
                (siSink \o siResults)[i] =
                   IF i <= Len(siSink) THEN siSink[i] ELSE siResults[i - Len(siSink)]
      BY <1>7, ConcatProperties
    <3>2. QED
      BY <1>9, <2>2, <3>1
  <2>4. CASE k <= a
    <3>1. k \in 1..a /\ sink[k] = siSink[k]
      BY <2>3, <2>4
    <3>2. QED
      BY <2>2, <3>1 DEF SiInv, TableKept
  <2>5. CASE ~(k <= a)
    <3>1. PICK i \in 1..m : sink[k] = siResults[i]
      <4>1. k - a \in 1..m
        BY <2>3, <2>5
      <4>2. QED
        BY <2>3, <2>5, <4>1
    <3>2. i \in 1..Len(batch) /\ batch[i] = sink[k].row
      BY <1>5, <2>2, <3>1
    <3>3. n + 1 \in 1..Len(siPlanned)
      BY <1>2
    <3>4. QED
      BY <1>3, <3>2, <3>3
  <2>6. QED
    BY <2>4, <2>5
<1>16. \A b \in 1..Len(siPlanned) :
         \A i \in 1..Len(siPlanned[b]) : Lines(sink, siPlanned[b][i]) # {}
  <2>1. SUFFICES ASSUME NEW b \in 1..(n + 1), NEW i \in 1..Len(siPlanned[b])
                 PROVE  Lines(sink, siPlanned[b][i]) # {}
    BY <1>2
  <2>2. CASE b = n + 1
    BY <1>3, <1>5, <1>10, <2>2 DEF RowGains
  <2>3. CASE b # n + 1
    <3>1. b <= siCommits /\ b \in 1..Len(siPlanned)
      BY <1>2, <2>3
    <3>2. Lines(siSink, siPlanned[b][i]) # {}
      BY <3>1 DEF SiInv, TableKept
    <3>3. PICK row : row = siPlanned[b][i]
      OBVIOUS
    <3>4. CASE \E j \in 1..Len(siResults) : siResults[j].row = row
      BY <1>10, <3>3, <3>4 DEF RowGains
    <3>5. CASE ~(\E j \in 1..Len(siResults) : siResults[j].row = row)
      <4>1. Lines(sink, row) = Lines(siSink, row)
        BY <1>10, <3>5 DEF RowGains
      <4>2. QED
        BY <3>2, <3>3, <4>1
    <3>6. QED
      BY <3>4, <3>5
  <2>4. QED
    BY <2>2, <2>3
<1>17. TableKept(siState', siPlanned, siCommits, sink, siFailures)
  BY <1>1, <1>14, <1>15, <1>16 DEF TableKept
<1>18. QED
  BY <1>1, <1>9, <1>11, <1>12, <1>13, <1>17 DEF SiInv

LEMMA SiInvStep == SiInv /\ [SiNext]_siVars => SiInv'
<1> SUFFICES ASSUME SiInv, [SiNext]_siVars PROVE SiInv'
  OBVIOUS
<1>1. CASE UNCHANGED siVars
  BY <1>1 DEF siVars, SiInv, SiShapes
<1>2. CASE SiNext
  BY <1>2, SiInvStart, SiInvPlan, SiInvInfer, SiInvWrite, SiInvCommit, SiInvDies,
     SiInvLand DEF SiNext, QuerySteps
<1>3. QED
  BY <1>1, <1>2

LEMMA SiInvSound == SiInv => SinkLines
<1> SUFFICES ASSUME SiInv PROVE SinkLines
  OBVIOUS
<1>1. \A row : Copies(row) = Cardinality(Lines(siSink, row)) /\ Copies(row) \in Nat
  <2>1. DOMAIN siSink = 1..Len(siSink)
    BY LenProperties DEF SiInv, SiShapes
  <2>2. QED
    BY <2>1, LinesFinite DEF SiInv, SiShapes, Copies, Lines
<1>2. CopiesBounded
  <2>1. SUFFICES ASSUME NEW row \in SiRows PROVE Copies(row) <= 1 + siFailures
    BY DEF CopiesBounded
  <2>2. PICK c \in Nat, deaths \in Nat : c = Copies(row) /\ deaths = siFailures
    BY <1>1 DEF SiInv, SiShapes
  <2>3. c <= deaths + 1
    BY <1>1, <2>2 DEF SiInv, TableKept
  <2>4. QED
    BY <2>2, <2>3
<1>3. CommittedIsAnswered
  <2>1. SUFFICES ASSUME NEW b \in 1..siCommits, NEW row \in Range(siPlanned[b])
                 PROVE  Copies(row) > 0
    BY DEF CommittedIsAnswered
  <2>2. b \in 1..Len(siPlanned) /\ b <= siCommits
    BY DEF SiInv, SiShapes, LogKept
  <2>3. siPlanned[b] \in Seq(SiRows)
    BY <2>2, ElementOfSeq DEF SiInv, SiShapes
  <2>4. PICK i \in 1..Len(siPlanned[b]) : siPlanned[b][i] = row
    BY <2>3, LenProperties DEF Range
  <2>5. Lines(siSink, row) # {}
    BY <2>2, <2>4 DEF SiInv, TableKept
  <2>6. IsFiniteSet(Lines(siSink, row))
    BY LinesFinite DEF SiInv, SiShapes
  <2>7. Cardinality(Lines(siSink, row)) # 0
    BY <2>5, <2>6, FS_EmptySet
  <2>8. PICK c \in Nat : c = Copies(row) /\ c # 0
    BY <1>1, <2>7
  <2>9. QED
    BY <2>8
<1>4. QED
  BY <1>2, <1>3 DEF SinkLines
-----------------------------------------------------------------------------
(***************************************************************************)
(* MissionPlanner: Kahn's algorithm on the tasks of a template, as an      *)
(* invariant of the ids, their dependency lists, what is left of their     *)
(* in-degrees, the queue and the number of tasks taken.                    *)
(***************************************************************************)

Ascending(s, ids) ==
    s \in [1..Cardinality(ids) -> ids] /\ \A i, j \in DOMAIN s : i < j => s[i] < s[j]

\* Sets of task ids can be listed in order.
LEMMA AscendingExists ==
  ASSUME NEW N \in Nat, NEW ids \in SUBSET (1..N)
  PROVE  \E s : Ascending(s, ids)
<1> DEFINE Upto(k) == {n \in ids : n <= k}
           bad == {k \in 0..N : ~ \E s : Ascending(s, Upto(k))}
<1>0. \A n \in ids : n \in Nat /\ 1 <= n /\ n <= N
  OBVIOUS
<1>1. bad = {}
  <2> SUFFICES ASSUME bad # {} PROVE FALSE
    OBVIOUS
  <2>1. bad \subseteq Nat
    OBVIOUS
  <2>2. PICK k \in bad : \A y \in bad : k <= y
    BY <2>1, LeastNatural
  <2>3. k \in 0..N /\ k \in Nat
    BY <2>1
  <2>4. ~ \E s : Ascending(s, Upto(k))
    OBVIOUS
  <2>5. CASE k = 0
    <3>0. \A n \in ids : ~(n <= k)
      BY <1>0, <2>5
    <3>1. Upto(k) = {}
      BY <3>0
    <3>2. Ascending([i \in 1..0 |-> 0], {})
      BY FS_EmptySet DEF Ascending
    <3>3. QED
      BY <2>4, <3>1, <3>2
  <2>6. CASE k # 0
    <3>1. k - 1 \in 0..N /\ k \in 1..N
      BY <2>3, <2>6
    <3>2. k - 1 \notin bad
      <4>1. ~(k <= k - 1)
        BY <2>3
      <4> HIDE DEF bad
      <4>2. QED
        BY <2>2, <4>1
    <3>3. PICK s : Ascending(s, Upto(k - 1))
      BY <3>1, <3>2
    <3>4. CASE k \notin ids
      <4>1. \A n \in ids : n <= k <=> n <= k - 1
        BY <1>0, <2>3, <3>4
      <4>2. Upto(k) = Upto(k - 1)
        BY <4>1
      <4>3. QED
        BY <2>4, <3>3, <4>2
    <3>5. CASE k \in ids
      <4> DEFINE low == Upto(k - 1)
                 c == Cardinality(low)
                 z == [i \in 1..c + 1 |-> IF i = c + 1 THEN k ELSE s[i]]
      <4>1. Upto(k) = low \cup {k} /\ k \notin low
        <5>1. \A n \in ids : n <= k <=> n <= k - 1 \/ n = k
          BY <1>0, <2>3
        <5>2. k <= k /\ ~(k <= k - 1)
          BY <2>3
        <5>3. QED
          BY <3>5, <5>1, <5>2
      <4>2. IsFiniteSet(low) /\ low \in SUBSET (1..N) /\ \A n \in low : n < k
        <5>0. \A n \in ids : n <= k - 1 => n < k
          BY <1>0, <2>3
        <5>1. low \in SUBSET (1..N) /\ \A n \in low : n < k
          BY <5>0
        <5>2. IsFiniteSet(1..N)
          BY FS_Interval
        <5>3. QED
          BY <5>1, <5>2, FS_Subset
      <4>3. s \in [1..c -> low] /\ \A i, j \in 1..c : i < j => s[i] < s[j]
        BY <3>3 DEF Ascending
      <4> HIDE DEF low
      <4>4. c \in Nat /\ Cardinality(low \cup {k}) = c + 1
        BY <4>1, <4>2, FS_AddElement, FS_CardinalityType
      <4> HIDE DEF c
      <4>5. \A i \in 1..c : i # c + 1 /\ i \in 1..c + 1 /\ z[i] = s[i] /\ s[i] \in low
        BY <4>3, <4>4
      <4>6. z[c + 1] = k /\ c + 1 \in 1..c + 1
        BY <4>4
      <4>7. \A i \in 1..c + 1 : i \in 1..c \/ i = c + 1
        BY <4>4
      <4>8. z \in [1..c + 1 -> low \cup {k}]
        BY <4>5, <4>6, <4>7
      <4> HIDE DEF z
      <4>9. ASSUME NEW i \in 1..c + 1, NEW j \in 1..c + 1, i < j
            PROVE  z[i] < z[j]
        <5>1. i \in 1..c
          BY <4>4, <4>9
        <5>2. CASE j = c + 1
          BY <4>2, <4>5, <4>6, <5>1, <5>2
        <5>3. CASE j \in 1..c
          BY <4>3, <4>5, <4>9, <5>1, <5>3
        <5>4. QED
          BY <4>7, <5>2, <5>3
      <4>10. Ascending(z, low \cup {k})
        BY <4>4, <4>8, <4>9 DEF Ascending
      <4>11. QED
        BY <2>4, <4>1, <4>10
    <3>6. QED
      BY <3>4, <3>5
  <2>7. QED
    BY <2>5, <2>6
<1>2. N \in 0..N /\ Upto(N) = ids
  <2>1. \A n \in ids : n <= N
    BY <1>0
  <2>2. Upto(N) = ids
    BY <2>1
  <2>3. QED
    BY <2>2
<1>3. QED
  BY <1>1, <1>2

\* Listed in order: each of the ids once.
LEMMA InIdOrderFacts ==
  ASSUME NEW N \in Nat, NEW ids \in SUBSET (1..N)
  PROVE  /\ InIdOrder(ids) \in Seq(ids)
         /\ Range(InIdOrder(ids)) = ids
         /\ IsInjective(InIdOrder(ids))
<1> DEFINE s == InIdOrder(ids)
           c == Cardinality(ids)
<1>0. \A n \in ids : n \in Nat /\ 1 <= n /\ n <= N
  OBVIOUS
<1>1. Ascending(s, ids)
  BY AscendingExists DEF Ascending, InIdOrder
<1>2. IsFiniteSet(ids) /\ c \in Nat
  <2>1. IsFiniteSet(1..N)
    BY FS_Interval
  <2>2. QED
    BY <2>1, FS_Subset, FS_CardinalityType
<1>3. s \in [1..c -> ids] /\ DOMAIN s = 1..c /\ \A i, j \in 1..c : i < j => s[i] < s[j]
  BY <1>1 DEF Ascending
<1> HIDE DEF s
<1>4. s \in Seq(ids) /\ Len(s) = c
  BY <1>2, <1>3, IsASeq, LenProperties
<1>5. \A i, j \in 1..c : s[i] = s[j] => i = j
  <2>1. \A i \in 1..c : s[i] \in Nat /\ i \in Nat
    <3>1. \A i \in 1..c : s[i] \in ids
      BY <1>3
    <3>2. \A i \in 1..c : i \in Nat
      BY <1>2
    <3>3. \A n \in ids : n \in Nat
      BY <1>0
    <3>4. QED
      BY <3>1, <3>2, <3>3
  <2>2. \A i, j \in 1..c : i < j => s[i] # s[j]
    BY <1>3, <2>1
  <2>3. QED
    BY <2>1, <2>2
<1>6. s \in Injection(1..c, ids)
  BY <1>3, <1>5 DEF Injection, IsInjective
<1>7. s \in Surjection(1..c, ids)
  <2>1. Cardinality(1..c) = c
    BY <1>2, FS_Interval
  <2>2. QED
    BY <1>2, <1>6, <2>1, FS_Injection
<1>8. Range(s) = ids
  BY <1>3, <1>7 DEF Surjection, Range
<1>9. IsInjective(s)
  BY <1>3, <1>5 DEF IsInjective
<1>10. QED
  BY <1>4, <1>8, <1>9 DEF s

\* A list names at most as many as it is long, and as many if none twice.
LEMMA RangeCounts ==
  ASSUME NEW T, NEW s \in Seq(T)
  PROVE  /\ IsFiniteSet(Range(s)) /\ Cardinality(Range(s)) \in Nat /\ Len(s) \in Nat
         /\ Cardinality(Range(s)) <= Len(s)
         /\ IsInjective(s) <=> Cardinality(Range(s)) = Len(s)
<1>1. Len(s) \in Nat /\ DOMAIN s = 1..Len(s) /\ s \in [1..Len(s) -> T]
  BY LenProperties
<1>2. IsFiniteSet(1..Len(s)) /\ Cardinality(1..Len(s)) = Len(s)
  BY <1>1, FS_Interval
<1>3. s \in Surjection(1..Len(s), Range(s))
  BY <1>1 DEF Surjection, Range
<1>4. /\ IsFiniteSet(Range(s))
      /\ Cardinality(Range(s)) <= Len(s)
      /\ Cardinality(Range(s)) = Len(s) <=> s \in Injection(1..Len(s), Range(s))
  BY <1>2, <1>3, FS_Surjection
<1>5. s \in Injection(1..Len(s), Range(s)) <=> IsInjective(s)
  <2>1. s \in [1..Len(s) -> Range(s)]
    BY <1>3 DEF Surjection
  <2>2. QED
    BY <1>1, <2>1 DEF Injection, IsInjective
<1>6. QED
  BY <1>1, <1>4, <1>5, FS_CardinalityType

\* A queue of members of T, and those of U in a list, all different from its.
QueueAndNew(T, q, U, s) ==
    /\ q \in Seq(T) /\ q # <<>> /\ IsInjective(q)
    /\ U \subseteq T /\ s \in Seq(U) /\ Range(s) = U /\ IsInjective(s)
    /\ U \cap Range(q) = {}

\* The queue after its last is taken and the others are put behind the rest.
LEMMA QueueNext ==
  ASSUME NEW T, NEW q, NEW U, NEW s, QueueAndNew(T, q, U, s)
  PROVE  /\ Last(q) \in Range(q)
         /\ Front(q) \o s \in Seq(T) /\ IsInjective(Front(q) \o s)
         /\ Range(Front(q) \o s) = (Range(q) \ {Last(q)}) \cup U
<1> DEFINE f == Front(q)
           z == f \o s
<1>0. /\ q \in Seq(T) /\ q # <<>> /\ IsInjective(q)
      /\ U \subseteq T /\ s \in Seq(U) /\ Range(s) = U /\ IsInjective(s)
      /\ U \cap Range(q) = {}
  BY DEF QueueAndNew
<1>1. PICK l \in Nat : l = Len(q) /\ l # 0 /\ l - 1 \in Nat
  BY <1>0, LenProperties, EmptySeq
<1>2. q \in [1..l -> T] /\ DOMAIN q = 1..l /\ Last(q) = q[l] /\ l \in 1..l
  BY <1>0, <1>1, LenProperties DEF Last
<1>3. f \in Seq(T) /\ Len(f) = l - 1 /\ \A k \in 1..l - 1 : f[k] = q[k]
  <2>1. f = [k \in 1..l - 1 |-> q[k]]
    BY <1>1, <1>2, SubSeqProperties DEF Front
  <2>2. \A k \in 1..l - 1 : k \in 1..l
    BY <1>1
  <2>3. f \in [1..l - 1 -> T]
    BY <1>2, <2>1, <2>2
  <2>4. QED
    BY <1>1, <2>1, <2>3, IsASeq, LenProperties
<1>4. PICK m \in Nat : m = Len(s) /\ DOMAIN s = 1..m
  BY <1>0, LenProperties
<1> HIDE DEF f
<1>5. s \in Seq(T)
  <2>1. s \in [1..m -> U]
    BY <1>0, <1>4, LenProperties
  <2>2. s \in [1..m -> T]
    BY <1>0, <2>1
  <2>3. QED
    BY <1>4, <2>2, IsASeq
<1>6. z \in Seq(T) /\ Len(z) = (l - 1) + m
  BY <1>3, <1>4, <1>5, ConcatProperties
<1>7. /\ \A k \in 1..l - 1 : z[k] = q[k] /\ k \in 1..(l - 1) + m /\ k \in 1..l /\ k # l
      /\ \A k \in 1..m : z[(l - 1) + k] = s[k] /\ (l - 1) + k \in 1..(l - 1) + m
  <2>1. \A k \in 1..(l - 1) + m : z[k] = IF k <= l - 1 THEN f[k] ELSE s[k - (l - 1)]
    BY <1>3, <1>4, <1>5, ConcatProperties
  <2>2. \A k \in 1..l - 1 : k \in 1..(l - 1) + m /\ k <= l - 1 /\ k \in 1..l /\ k # l
    BY <1>1, <1>4
  <2>3. \A k \in 1..m : /\ (l - 1) + k \in 1..(l - 1) + m /\ ~((l - 1) + k <= l - 1)
                        /\ ((l - 1) + k) - (l - 1) = k
    BY <1>1, <1>4
  <2>4. QED
    BY <1>3, <2>1, <2>2, <2>3
<1>8. \A k \in 1..(l - 1) + m : k \in 1..l - 1 \/ \E j \in 1..m : k = (l - 1) + j
  <2>1. \A k \in 1..(l - 1) + m : k \in 1..l - 1 \/ (k - (l - 1) \in 1..m /\ k = (l - 1) + (k - (l - 1)))
    BY <1>1, <1>4
  <2>2. QED
    BY <2>1
<1>9. DOMAIN z = 1..(l - 1) + m
  BY <1>6, LenProperties
<1> HIDE DEF z
<1>10. \A j \in 1..m : s[j] \in U /\ s[j] \notin Range(q)
  BY <1>0, <1>4 DEF Range
<1>11. \A k \in 1..l : q[k] \in Range(q)
  BY <1>2 DEF Range
<1>12. \A k \in 1..l - 1 : q[k] # q[l]
  BY <1>0, <1>2, <1>7 DEF IsInjective
<1>13. Range(z) = (Range(q) \ {q[l]}) \cup U
  <2>1. ASSUME NEW x \in Range(z) PROVE x \in (Range(q) \ {q[l]}) \cup U
    <3>1. PICK k \in 1..(l - 1) + m : x = z[k]
      BY <1>9 DEF Range
    <3>2. CASE k \in 1..l - 1
      BY <1>7, <1>11, <1>12, <3>1, <3>2
    <3>3. CASE \E j \in 1..m : k = (l - 1) + j
      BY <1>7, <1>10, <3>1, <3>3
    <3>4. QED
      BY <1>8, <3>2, <3>3
  <2>2. ASSUME NEW x \in Range(q), x # q[l] PROVE x \in Range(z)
    <3>1. PICK k \in 1..l : x = q[k]
      BY <1>2 DEF Range
    <3>2. k \in 1..l - 1
      BY <1>1, <2>2, <3>1
    <3>3. k \in DOMAIN z /\ x = z[k]
      BY <1>7, <1>9, <3>1, <3>2
    <3>4. QED
      BY <3>3 DEF Range
  <2>3. ASSUME NEW x \in U PROVE x \in Range(z)
    <3>1. PICK j \in 1..m : x = s[j]
      BY <1>0, <1>4 DEF Range
    <3>2. (l - 1) + j \in DOMAIN z /\ x = z[(l - 1) + j]
      BY <1>7, <1>9, <3>1
    <3>3. QED
      BY <3>2 DEF Range
  <2>4. QED
    BY <2>1, <2>2, <2>3
<1>14. IsInjective(z)
  <2>1. SUFFICES ASSUME NEW a \in 1..(l - 1) + m, NEW b \in 1..(l - 1) + m, z[a] = z[b]
                 PROVE  a = b
    BY <1>9 DEF IsInjective
  <2>2. CASE a \in 1..l - 1 /\ b \in 1..l - 1
    <3>1. q[a] = q[b] /\ a \in 1..l /\ b \in 1..l
      BY <1>7, <2>1, <2>2
    <3>2. QED
      BY <1>0, <1>2, <3>1 DEF IsInjective
  <2>3. CASE a \in 1..l - 1 /\ \E j \in 1..m : b = (l - 1) + j
    <3>1. z[a] \in Range(q) /\ z[b] \in U
      BY <1>7, <1>10, <1>11, <2>3
    <3>2. QED
      BY <1>0, <2>1, <3>1
  <2>4. CASE b \in 1..l - 1 /\ \E j \in 1..m : a = (l - 1) + j
    <3>1. z[b] \in Range(q) /\ z[a] \in U
      BY <1>7, <1>10, <1>11, <2>4
    <3>2. QED
      BY <1>0, <2>1, <3>1
  <2>5. CASE (\E j \in 1..m : a = (l - 1) + j) /\ \E j \in 1..m : b = (l - 1) + j
    <3>1. PICK i \in 1..m, j \in 1..m : a = (l - 1) + i /\ b = (l - 1) + j
      BY <2>5
    <3>2. s[i] = s[j]
      BY <1>7, <2>1, <3>1
    <3>3. i = j
      BY <1>0, <1>4, <3>2 DEF IsInjective
    <3>4. QED
      BY <3>1, <3>3
  <2>6. QED
    BY <1>8, <2>2, <2>3, <2>4, <2>5
<1>15. QED
  BY <1>2, <1>6, <1>11, <1>13, <1>14 DEF z, f

-----------------------------------------------------------------------------
\* The tasks whose in-degree is paid off and that are not queued: those taken.
Taken(ids, indeg, queue) == {i \in ids : indeg[i] = 0} \ Range(queue)

\* What Kahn's algorithm has established when it is about to look at the
\* queue: every task counted was taken once, a task's in-degree is the length
\* of its list less the taken tasks on it, and no task was taken before the
\* tasks it depends on.
KahnInv(ids, lists, indeg, queue, n) ==
    LET taken == Taken(ids, indeg, queue) IN
    /\ queue \in Seq(ids) /\ IsInjective(queue)
    /\ \A i \in Range(queue) : indeg[i] = 0
    /\ \A i \in ids : indeg[i] \in Nat
    /\ n = Cardinality(taken)
    /\ \A i \in ids : indeg[i] + Cardinality(Range(lists[i]) \cap taken) = Len(lists[i])
    /\ Acyclic(taken, [i \in ids |-> Range(lists[i])])

\* A task whose in-degree is paid off has all its dependencies taken.
LEMMA KahnPaid ==
  ASSUME NEW ids, NEW lists \in [ids -> Seq(Nat)], NEW indeg, NEW queue, NEW n,
         KahnInv(ids, lists, indeg, queue, n), NEW i \in ids, indeg[i] = 0
  PROVE  Range(lists[i]) \subseteq Taken(ids, indeg, queue)
<1> DEFINE R == Range(lists[i])
           both == R \cap Taken(ids, indeg, queue)
<1>1. /\ IsFiniteSet(R) /\ Cardinality(R) \in Nat
      /\ Len(lists[i]) \in Nat /\ Cardinality(R) <= Len(lists[i])
  BY RangeCounts
<1>2. 0 + Cardinality(both) = Len(lists[i])
  BY DEF KahnInv
<1>3. both \in SUBSET R
  OBVIOUS
<1> HIDE DEF both
<1>4. /\ Cardinality(both) \in Nat /\ Cardinality(both) <= Cardinality(R)
      /\ Cardinality(R) = Cardinality(both) => R = both
  BY <1>1, <1>3, FS_Subset, FS_CardinalityType
<1>5. Cardinality(R) = Cardinality(both)
  BY <1>1, <1>2, <1>4
<1>6. QED
  BY <1>4, <1>5 DEF both

\* It starts with the tasks that depend on none.
LEMMA KahnBegins ==
  ASSUME NEW ids, NEW lists \in [ids -> Seq(Nat)], NEW indeg, NEW queue \in Seq(ids),
         IsInjective(queue), Range(queue) = {i \in ids : lists[i] = <<>>},
         \A i \in ids : indeg[i] = Len(lists[i])
  PROVE  KahnInv(ids, lists, indeg, queue, 0)
<1>1. \A i \in ids : indeg[i] \in Nat /\ (indeg[i] = 0 <=> lists[i] = <<>>)
  BY LenProperties, EmptySeq
<1>2. Taken(ids, indeg, queue) = {}
  BY <1>1 DEF Taken
<1>3. \A i \in Range(queue) : indeg[i] = 0
  BY <1>1
<1>4. \A i \in ids : indeg[i] + Cardinality({}) = Len(lists[i])
  BY <1>1, FS_EmptySet
<1>5. \A i \in ids : Range(lists[i]) \cap {} = {}
  OBVIOUS
<1>6. Acyclic({}, [i \in ids |-> Range(lists[i])])
  BY DEF Acyclic
<1>7. QED
  BY <1>1, <1>2, <1>3, <1>4, <1>5, <1>6, FS_EmptySet DEF KahnInv

\* Taking the last of the queue, counting down the tasks that depend on it and
\* queueing those it frees.
LEMMA KahnTakes ==
  ASSUME NEW ids, IsFiniteSet(ids), NEW lists \in [ids -> Seq(Nat)],
         NEW indeg, NEW queue, NEW n, KahnInv(ids, lists, indeg, queue, n), queue # <<>>,
         NEW left, \A i \in ids : left[i] = IF Last(queue) \in Range(lists[i])
                                            THEN indeg[i] - 1 ELSE indeg[i],
         NEW freed, freed = {i \in ids : left[i] = 0 /\ indeg[i] # 0},
         NEW s \in Seq(freed), Range(s) = freed, IsInjective(s)
  PROVE  KahnInv(ids, lists, left, Front(queue) \o s, n + 1)
<1> DEFINE tid == Last(queue)
           next == Front(queue) \o s
           taken == Taken(ids, indeg, queue)
           D == [i \in ids |-> Range(lists[i])]
<1>1. /\ queue \in Seq(ids) /\ IsInjective(queue)
      /\ \A i \in Range(queue) : indeg[i] = 0
      /\ \A i \in ids : indeg[i] \in Nat
      /\ n = Cardinality(taken)
      /\ \A i \in ids : indeg[i] + Cardinality(Range(lists[i]) \cap taken) = Len(lists[i])
      /\ Acyclic(taken, D)
  BY DEF KahnInv
<1>2. freed \in SUBSET ids /\ freed \cap Range(queue) = {}
  BY <1>1
<1>3. /\ tid \in Range(queue) /\ next \in Seq(ids) /\ IsInjective(next)
      /\ Range(next) = (Range(queue) \ {tid}) \cup freed
  <2>1. QueueAndNew(ids, queue, freed, s)
    BY <1>1, <1>2 DEF QueueAndNew
  <2>2. QED
    BY <2>1, QueueNext
<1>4. tid \in ids /\ indeg[tid] = 0 /\ tid \notin taken
  <2>1. Range(queue) \subseteq ids
    BY <1>1, LenProperties DEF Range
  <2>2. QED
    BY <1>1, <1>3, <2>1 DEF Taken
<1>5. Range(lists[tid]) \subseteq taken
  BY <1>4, KahnPaid
<1>6. IsFiniteSet(taken) /\ Cardinality(taken) \in Nat
  <2>1. taken \in SUBSET ids
    BY DEF Taken
  <2>2. QED
    BY <2>1, FS_Subset, FS_CardinalityType
<1>7. \A i \in ids : Range(lists[i]) \cap (taken \cup {tid}) =
          IF tid \in Range(lists[i]) THEN (Range(lists[i]) \cap taken) \cup {tid}
          ELSE Range(lists[i]) \cap taken
  OBVIOUS
<1> HIDE DEF tid, next, taken
<1>8. \A i \in ids : left[i] \in Nat /\ left[i] + Cardinality(Range(lists[i]) \cap (taken \cup {tid})) = Len(lists[i])
  <2>1. SUFFICES ASSUME NEW i \in ids
                 PROVE  /\ left[i] \in Nat
                        /\ left[i] + Cardinality(Range(lists[i]) \cap (taken \cup {tid})) = Len(lists[i])
    OBVIOUS
  <2> DEFINE R == Range(lists[i])
             old == R \cap taken
  <2>2. /\ IsFiniteSet(R) /\ Cardinality(R) \in Nat /\ Len(lists[i]) \in Nat
        /\ Cardinality(R) <= Len(lists[i])
    BY RangeCounts
  <2>3. IsFiniteSet(old) /\ Cardinality(old) \in Nat
    BY <2>2, FS_Subset, FS_CardinalityType
  <2>4. left[i] = IF tid \in R THEN indeg[i] - 1 ELSE indeg[i]
    BY DEF tid
  <2>5. CASE tid \notin R
    BY <1>1, <1>7, <2>4, <2>5
  <2>6. CASE tid \in R
    <3>1. R \cap (taken \cup {tid}) = old \cup {tid} /\ tid \notin old
      BY <1>4, <1>7, <2>6
    <3>2. IsFiniteSet(old \cup {tid}) /\ Cardinality(old \cup {tid}) = Cardinality(old) + 1
      BY <2>3, <3>1, FS_AddElement
    <3>3. old \cup {tid} \in SUBSET R
      BY <2>6
    <3>4. Cardinality(old \cup {tid}) <= Cardinality(R)
      BY <2>2, <3>3, FS_Subset
    <3>5. indeg[i] \in Nat /\ indeg[i] + Cardinality(old) = Len(lists[i])
      BY <1>1
    <3>6. left[i] = indeg[i] - 1
      BY <2>4, <2>6
    <3> HIDE DEF R, old
    <3>7. left[i] \in Nat /\ left[i] + Cardinality(old \cup {tid}) = Len(lists[i])
      <4>1. PICK a \in Nat, b \in Nat, c \in Nat, d \in Nat :
              a = indeg[i] /\ b = Cardinality(old) /\ c = Cardinality(R) /\ d = Len(lists[i])
        BY <2>2, <2>3, <3>5
      <4>2. a + b = d /\ b + 1 <= c /\ c <= d
        BY <2>2, <3>2, <3>4, <3>5, <4>1
      <4>3. a - 1 \in Nat /\ (a - 1) + (b + 1) = d
        BY <4>2
      <4>4. QED
        BY <3>2, <3>6, <4>1, <4>3
    <3>8. QED
      BY <3>1, <3>7 DEF R, old
  <2>7. QED
    BY <2>5, <2>6
<1>9. Taken(ids, left, next) = taken \cup {tid}
  <2>1. \A i \in ids : left[i] = 0 <=> indeg[i] = 0 \/ i \in freed
    <3>1. ASSUME NEW i \in ids, indeg[i] = 0 PROVE left[i] = 0
      <4>1. left[i] = 0 - 1 \/ left[i] = 0
        BY <3>1
      <4>2. left[i] \in Nat
        BY <1>8
      <4>3. QED
        BY <4>1, <4>2
    <3>2. QED
      BY <3>1
  <2>2. \A i \in ids : i \in Taken(ids, left, next) <=> left[i] = 0 /\ i \notin Range(next)
    BY DEF Taken
  <2>3. \A i \in ids : i \in taken <=> indeg[i] = 0 /\ i \notin Range(queue)
    BY DEF taken, Taken
  <2>4. \A i \in freed : i \in ids /\ indeg[i] # 0
    OBVIOUS
  <2>5. \A i \in ids : i \in Taken(ids, left, next) <=> i \in taken \cup {tid}
    BY <1>2, <1>3, <1>4, <2>1, <2>2, <2>3, <2>4
  <2>6. Taken(ids, left, next) \subseteq ids /\ taken \cup {tid} \subseteq ids
    BY <1>4 DEF taken, Taken
  <2>7. QED
    BY <2>5, <2>6
<1>10. Cardinality(taken \cup {tid}) = n + 1
  BY <1>1, <1>4, <1>6, FS_AddElement
<1>11. \A i \in Range(next) : left[i] = 0
  <2>1. \A i \in freed : left[i] = 0
    OBVIOUS
  <2>2. ASSUME NEW i \in Range(queue) PROVE left[i] = 0
    <3>1. i \in ids /\ indeg[i] = 0
      BY <1>1, LenProperties DEF Range
    <3>2. left[i] = 0 - 1 \/ left[i] = 0
      BY <3>1
    <3>3. left[i] \in Nat
      BY <1>8, <3>1
    <3>4. QED
      BY <3>2, <3>3
  <2>3. QED
    BY <1>3, <2>1, <2>2
<1>12. Acyclic(taken \cup {tid}, D)
  <2>1. SUFFICES ASSUME NEW S \in SUBSET (taken \cup {tid}), S # {}
                 PROVE  \E t \in S : D[t] \cap S = {}
    BY DEF Acyclic
  <2>2. taken \subseteq ids /\ \A i \in taken : Range(lists[i]) \subseteq taken
    <3>1. \A i \in taken : i \in ids /\ indeg[i] = 0
      BY DEF taken, Taken
    <3>2. QED
      BY <3>1, KahnPaid DEF taken
  <2>3. CASE S \cap taken = {}
    <3>1. S = {tid}
      BY <2>1, <2>3
    <3>2. D[tid] \cap S = {}
      BY <1>4, <1>5, <3>1
    <3>3. QED
      BY <3>1, <3>2
  <2>4. CASE S \cap taken # {}
    <3>1. PICK t \in S \cap taken : D[t] \cap (S \cap taken) = {}
      BY <1>1, <2>4 DEF Acyclic
    <3>2. D[t] \subseteq taken
      BY <2>2
    <3>3. QED
      BY <3>1, <3>2
  <2>5. QED
    BY <2>3, <2>4
<1>13. QED
  BY <1>3, <1>8, <1>9, <1>10, <1>11, <1>12 DEF KahnInv, next, taken

-----------------------------------------------------------------------------
\* The lists of the tasks that are in the graph.
ListsOf == [i \in Added |-> DepsOf(i)]

PlShape ==
    /\ PlTypeOK
    /\ plTasks \in Seq([id : PlIds, deps : PlDepends])
    /\ Len(plTasks) <= PlLength /\ plNodes <= Len(plTasks)
    /\ \A k, l \in 1..plNodes : plTasks[k].id = plTasks[l].id => k = l

PlSorting ==
    /\ plNodes = Len(plTasks)
    /\ \A i \in Added : Range(DepsOf(i)) \subseteq Added
    /\ KahnInv(Added, ListsOf, plIndeg, plQueue, plSeen)

PlInv ==
    /\ PlShape
    /\ plVerdict = "none" => plNodes = 0
    /\ plVerdict \in {"none", "adding"} => plSeen = 0
    /\ plVerdict = "sorting" => PlSorting
    /\ PlanSound

LEMMA TasksShape ==
  ASSUME PlShape
  PROVE  /\ Len(plTasks) \in Nat /\ DOMAIN plTasks = 1..Len(plTasks) /\ plNodes \in Nat
         /\ \A k \in 1..Len(plTasks) : plTasks[k].id \in PlIds /\ plTasks[k].deps \in Seq(Nat)
         /\ \A k \in 1..plNodes : k \in 1..Len(plTasks)
         /\ Added \subseteq TemplateIds /\ TemplateIds \subseteq PlIds
         /\ \A i \in TemplateIds : DepsOf(i) \in Seq(Nat)
         /\ ListsOf \in [Added -> Seq(Nat)]
         /\ IsFiniteSet(TemplateIds) /\ IsFiniteSet(Added)
<1>1. Len(plTasks) \in Nat /\ DOMAIN plTasks = 1..Len(plTasks)
  BY LenProperties DEF PlShape
<1>2. plNodes \in Nat /\ PlLength \in Nat
  BY PlAssumption DEF PlShape, PlTypeOK
<1>3. \A k \in 1..plNodes : k \in 1..Len(plTasks)
  BY <1>1, <1>2 DEF PlShape
<1>4. \A k \in 1..Len(plTasks) : plTasks[k] \in [id : PlIds, deps : PlDepends]
  BY <1>1, ElementOfSeq DEF PlShape
<1>5. \A k \in 1..Len(plTasks) : plTasks[k].id \in PlIds /\ plTasks[k].deps \in Seq(Nat)
  BY <1>4, PlAssumption
<1>6. Added \subseteq TemplateIds /\ TemplateIds \subseteq PlIds
  BY <1>1, <1>3, <1>5 DEF Added, TemplateIds
<1>7. \A i \in TemplateIds : DepsOf(i) \in Seq(Nat)
  BY <1>1, <1>5 DEF TemplateIds, DepsOf
<1>8. IsFiniteSet(TemplateIds) /\ IsFiniteSet(Added)
  <2>1. IsFiniteSet(PlIds)
    BY <1>2, FS_Interval DEF PlIds
  <2>2. QED
    BY <1>6, <2>1, FS_Subset
<1>9. ListsOf \in [Added -> Seq(Nat)]
  BY <1>6, <1>7 DEF ListsOf
<1>10. QED
  BY <1>1, <1>2, <1>3, <1>5, <1>6, <1>7, <1>8, <1>9

\* A template has as many ids as tasks if no two tasks have the same.
LEMMA IdsCounted ==
  ASSUME PlShape
  PROVE  Cardinality(TemplateIds) = Len(plTasks) <=>
           \A k, l \in 1..Len(plTasks) : plTasks[k].id = plTasks[l].id => k = l
<1> DEFINE N == Len(plTasks)
           f == [k \in 1..N |-> plTasks[k].id]
<1>1. N \in Nat /\ DOMAIN plTasks = 1..N
  BY TasksShape
<1>2. f \in Surjection(1..N, TemplateIds)
  BY <1>1 DEF Surjection, TemplateIds
<1>3. IsFiniteSet(1..N) /\ Cardinality(1..N) = N
  <2> HIDE DEF N
  <2>1. IsFiniteSet(1..N) /\ Cardinality(1..N) = IF 1 > N THEN 0 ELSE N - 1 + 1
    BY <1>1, FS_Interval
  <2>2. QED
    BY <1>1, <2>1
<1>4. Cardinality(TemplateIds) = N <=> f \in Injection(1..N, TemplateIds)
  BY <1>2, <1>3, FS_Surjection
<1>5. f \in [1..N -> TemplateIds]
  BY <1>2 DEF Surjection
<1>6. f \in Injection(1..N, TemplateIds) <=>
        \A k, l \in 1..N : plTasks[k].id = plTasks[l].id => k = l
  BY <1>5 DEF Injection, IsInjective
<1>7. QED
  BY <1>4, <1>6

LEMMA AddedIsTemplate ==
  ASSUME PlShape, plNodes = Len(plTasks)
  PROVE  Added = TemplateIds /\ Cardinality(TemplateIds) = Len(plTasks)
<1>1. Added = TemplateIds
  BY TasksShape DEF Added, TemplateIds
<1>2. QED
  BY <1>1, IdsCounted DEF PlShape

LEMMA PlInvInit == PlInit => PlInv
<1> SUFFICES ASSUME PlInit PROVE PlInv
  OBVIOUS
<1>1. PlLength \in Nat
  BY PlAssumption
<1>2. PlTypeOK
  BY <1>1, EmptySeq DEF PlInit, PlTypeOK
<1>3. plTasks \in Seq([id : PlIds, deps : PlDepends]) /\ Len(plTasks) = 0
  BY EmptySeq DEF PlInit
<1>4. PlShape
  BY <1>1, <1>2, <1>3 DEF PlInit, PlShape
<1>5. QED
  BY <1>4 DEF PlInit, PlInv, PlanSound, PlannedIsValid, ValidIsPlanned

LEMMA TemplateStep == PlInv /\ Template => PlInv'
<1> SUFFICES ASSUME PlInv, Template PROVE PlInv'
  OBVIOUS
<1>1. PICK n \in 1..PlLength : plTasks' \in [1..n -> [id : 1..n, deps : PlDepends]]
  BY DEF Template
<1>2. /\ plVerdict = "none" /\ plVerdict' = "adding"
      /\ UNCHANGED <<plNodes, plIndeg, plQueue, plSeen>> /\ plNodes = 0 /\ plSeen = 0
  BY DEF Template, PlInv
<1>3. PlLength \in Nat /\ n \in Nat /\ n <= PlLength
  BY PlAssumption
<1>4. plTasks' \in [1..n -> [id : PlIds, deps : PlDepends]]
  <2>1. \A i \in 1..n : i \in PlIds
    BY <1>3 DEF PlIds
  <2>2. QED
    BY <1>1, <2>1
<1>5. plTasks' \in Seq([id : PlIds, deps : PlDepends]) /\ Len(plTasks') = n
  <2>1. PICK T : T = [id : PlIds, deps : PlDepends]
    OBVIOUS
  <2>2. plTasks' \in [1..n -> T]
    BY <1>4, <2>1
  <2>3. plTasks' \in Seq(T)
    BY <1>3, <2>2, IsASeq
  <2>4. Len(plTasks') = n
    BY <1>3, <2>2, <2>3, LenProperties
  <2>5. QED
    BY <2>1, <2>3, <2>4
<1>6. PlTypeOK'
  BY <1>2 DEF PlInv, PlShape, PlTypeOK, PlIds
<1>7. \A k \in 1..plNodes' : FALSE
  BY <1>2
<1>8. plNodes' <= Len(plTasks')
  BY <1>2, <1>3, <1>5
<1>9. PlShape'
  BY <1>3, <1>5, <1>6, <1>7, <1>8 DEF PlShape, PlIds
<1>10. QED
  BY <1>2, <1>9 DEF PlInv, PlanSound, PlannedIsValid, ValidIsPlanned

LEMMA AddTaskStep == PlInv /\ AddTask => PlInv'
<1> SUFFICES ASSUME PlInv, AddTask PROVE PlInv'
  OBVIOUS
<1> DEFINE N == Len(plTasks)
<1>1. /\ plVerdict = "adding" /\ plNodes < N /\ plSeen = 0
      /\ UNCHANGED <<plTasks, plIndeg, plQueue, plSeen>> /\ PlShape
  BY DEF AddTask, PlInv
<1>2. /\ N \in Nat /\ DOMAIN plTasks = 1..N /\ plNodes \in Nat /\ PlLength \in Nat
      /\ \A k \in 1..plNodes : k \in 1..N
  BY <1>1, TasksShape, PlAssumption
<1>3. plNodes + 1 \in 1..N /\ \A k \in 1..plNodes : k # plNodes + 1
  BY <1>1, <1>2
<1>4. CASE plTasks[plNodes + 1].id \in Added
  <2>1. plVerdict' = "rejected" /\ plNodes' = plNodes
    BY <1>4 DEF AddTask
  <2>2. PICK k \in 1..plNodes : plTasks[k].id = plTasks[plNodes + 1].id
    BY <1>4 DEF Added
  <2>3. Cardinality(TemplateIds) # N
    BY <1>1, <1>2, <1>3, <2>2, IdsCounted
  <2>4. ~WellFormed'
    BY <1>1, <2>3 DEF WellFormed, TemplateIds
  <2>5. PlTypeOK'
    BY <1>1, <2>1 DEF PlShape, PlTypeOK
  <2>6. PlShape'
    BY <1>1, <2>1, <2>5 DEF PlShape
  <2>7. QED
    BY <2>1, <2>4, <2>6 DEF PlInv, PlanSound, PlannedIsValid, ValidIsPlanned
<1>5. CASE plTasks[plNodes + 1].id \notin Added
  <2>1. plVerdict' = "adding" /\ plNodes' = plNodes + 1
    BY <1>1, <1>5 DEF AddTask
  <2>2. plNodes' <= N /\ plNodes' \in 0..PlLength
    BY <1>1, <1>2, <2>1 DEF PlShape
  <2>3. PlTypeOK'
    BY <1>1, <2>1, <2>2 DEF PlShape, PlTypeOK
  <2>4. \A k \in 1..plNodes + 1 : k \in 1..plNodes \/ k = plNodes + 1
    BY <1>2
  <2>5. \A k \in 1..plNodes : plTasks[k].id # plTasks[plNodes + 1].id
    BY <1>5 DEF Added
  <2>6. \A k, l \in 1..plNodes + 1 : plTasks[k].id = plTasks[l].id => k = l
    BY <1>1, <2>4, <2>5 DEF PlShape
  <2>7. PlShape'
    BY <1>1, <2>1, <2>2, <2>3, <2>6 DEF PlShape
  <2>8. QED
    BY <1>1, <2>1, <2>7 DEF PlInv, PlanSound, PlannedIsValid, ValidIsPlanned
<1>6. QED
  BY <1>4, <1>5

\* A graph that is being sorted stays of its shape.
LEMMA SortingKeeps ==
  ASSUME PlInv, plNodes = Len(plTasks), UNCHANGED <<plTasks, plNodes>>,
         plVerdict' = "sorting", PlSorting', plIndeg' \in [PlIds -> Nat]
  PROVE  PlInv'
<1>1. PlShape /\ PlLength \in Nat
  BY PlAssumption DEF PlInv
<1>2. Added' = Added /\ Added \subseteq PlIds /\ IsFiniteSet(PlIds)
  <2>1. Added' = Added
    BY DEF Added
  <2>2. IsFiniteSet(PlIds)
    BY <1>1, FS_Interval DEF PlIds
  <2>3. QED
    BY <1>1, <2>1, <2>2, TasksShape
<1>3. /\ plQueue' \in Seq(Added)
      /\ plSeen' = Cardinality(Taken(Added, plIndeg', plQueue'))
  BY <1>2 DEF PlSorting, KahnInv
<1>4. plQueue' \in Seq(PlIds)
  <2>1. PICK len \in Nat : len = Len(plQueue') /\ plQueue' \in [1..len -> Added]
    BY <1>3, LenProperties
  <2>2. plQueue' \in [1..len -> PlIds]
    BY <1>2, <2>1
  <2>3. QED
    BY <2>1, <2>2, IsASeq
<1>5. plSeen' \in 0..PlLength
  <2>1. PICK T : T = Taken(Added, plIndeg', plQueue')
    OBVIOUS
  <2>2. T \in SUBSET PlIds
    BY <1>2, <2>1 DEF Taken
  <2>3. Cardinality(PlIds) = PlLength
    <3>1. Cardinality(1..PlLength) = IF 1 > PlLength THEN 0 ELSE PlLength - 1 + 1
      BY <1>1, FS_Interval
    <3>2. QED
      BY <1>1, <3>1 DEF PlIds
  <2>4. Cardinality(T) \in Nat /\ Cardinality(T) <= Cardinality(PlIds)
    BY <1>2, <2>2, FS_Subset, FS_CardinalityType
  <2>5. QED
    BY <1>1, <1>3, <2>1, <2>3, <2>4
<1>6. PlTypeOK'
  BY <1>1, <1>4, <1>5 DEF PlShape, PlTypeOK
<1>7. PlShape'
  BY <1>1, <1>6 DEF PlShape
<1>8. QED
  BY <1>7 DEF PlInv, PlanSound, PlannedIsValid, ValidIsPlanned

LEMMA ValidateStep == PlInv /\ Validate => PlInv'
<1> SUFFICES ASSUME PlInv, Validate PROVE PlInv'
  OBVIOUS
<1>1. /\ plVerdict = "adding" /\ plNodes = Len(plTasks) /\ plSeen = 0 /\ PlShape
      /\ UNCHANGED <<plTasks, plNodes, plSeen>>
  BY DEF Validate, PlInv
<1>2. Added' = Added /\ TemplateIds' = TemplateIds /\ \A i : DepsOf(i)' = DepsOf(i)
  BY <1>1 DEF Added, TemplateIds, DepsOf
<1>3. Added = TemplateIds /\ Added \subseteq PlIds /\ ListsOf \in [Added -> Seq(Nat)]
  BY <1>1, AddedIsTemplate, TasksShape
<1>4. \A i \in Added : ListsOf[i] = DepsOf(i) /\ DepsOf(i) \in Seq(Nat)
  BY <1>3 DEF ListsOf
<1>5. CASE \A i \in Added : Range(DepsOf(i)) \subseteq Added
  <2> DEFINE free == {i \in Added : DepsOf(i) = <<>>}
  <2>1. /\ plVerdict' = "sorting"
        /\ plIndeg' = [i \in PlIds |-> IF i \in Added THEN Len(DepsOf(i)) ELSE 0]
        /\ plQueue' = InIdOrder(free)
    BY <1>5 DEF Validate
  <2>2. \A i \in Added : plIndeg'[i] = Len(ListsOf[i])
    BY <1>3, <1>4, <2>1
  <2>3. plIndeg' \in [PlIds -> Nat]
    <3>1. \A i \in PlIds : (IF i \in Added THEN Len(DepsOf(i)) ELSE 0) \in Nat
      BY <1>4, LenProperties
    <3>2. QED
      BY <2>1, <3>1
  <2>4. /\ InIdOrder(free) \in Seq(free) /\ IsInjective(InIdOrder(free))
        /\ Range(InIdOrder(free)) = free
    <3>1. free \in SUBSET (1..PlLength) /\ PlLength \in Nat
      BY <1>3, PlAssumption DEF PlIds
    <3>2. QED
      BY <3>1, InIdOrderFacts
  <2>5. free = {i \in Added : ListsOf[i] = <<>>} /\ free \subseteq Added
    BY <1>4
  <2> HIDE DEF free
  <2>6. InIdOrder(free) \in Seq(Added)
    <3>1. PICK len \in Nat : len = Len(InIdOrder(free)) /\ InIdOrder(free) \in [1..len -> free]
      BY <2>4, LenProperties
    <3>2. InIdOrder(free) \in [1..len -> Added]
      BY <2>5, <3>1
    <3>3. QED
      BY <3>1, <3>2, IsASeq
  <2>7. KahnInv(Added, ListsOf, plIndeg', plQueue', 0)
    <3>1. PICK q, d : q = plQueue' /\ d = plIndeg'
      OBVIOUS
    <3>2. /\ q \in Seq(Added) /\ IsInjective(q) /\ Range(q) = {i \in Added : ListsOf[i] = <<>>}
          /\ \A i \in Added : d[i] = Len(ListsOf[i])
      BY <2>1, <2>2, <2>4, <2>5, <2>6, <3>1
    <3>3. KahnInv(Added, ListsOf, d, q, 0)
      BY <1>3, <3>2, KahnBegins
    <3>4. QED
      BY <3>1, <3>3
  <2>8. ListsOf' = ListsOf
    BY <1>2 DEF ListsOf
  <2>9. PlSorting'
    BY <1>1, <1>2, <1>5, <2>7, <2>8 DEF PlSorting
  <2>10. QED
    BY <1>1, <2>1, <2>3, <2>9, SortingKeeps
<1>6. CASE ~ \A i \in Added : Range(DepsOf(i)) \subseteq Added
  <2>1. plVerdict' = "rejected" /\ UNCHANGED <<plIndeg, plQueue>>
    BY <1>6 DEF Validate
  <2>2. ~WellFormed
    BY <1>3, <1>6 DEF WellFormed, ValidGraph
  <2>3. ~WellFormed'
    BY <1>1, <1>2, <2>2 DEF WellFormed
  <2>4. PlTypeOK'
    BY <1>1, <2>1 DEF PlShape, PlTypeOK
  <2>5. PlShape'
    BY <1>1, <2>4 DEF PlShape
  <2>6. QED
    BY <2>1, <2>3, <2>5 DEF PlInv, PlanSound, PlannedIsValid, ValidIsPlanned
<1>7. QED
  BY <1>5, <1>6

LEMMA TakeTaskStep == PlInv /\ TakeTask => PlInv'
<1> SUFFICES ASSUME PlInv, TakeTask PROVE PlInv'
  OBVIOUS
<1> DEFINE left == [i \in PlIds |->
               IF i \in Added /\ Contains(DepsOf(i), Last(plQueue)) THEN plIndeg[i] - 1
               ELSE plIndeg[i]]
<1>1. /\ plVerdict = "sorting" /\ plQueue # <<>>
      /\ plSeen' = plSeen + 1 /\ plIndeg' = left
      /\ plQueue' = Front(plQueue) \o InIdOrder(Freed(left, plIndeg))
      /\ UNCHANGED <<plTasks, plNodes, plVerdict>>
  BY DEF TakeTask
<1>2. PlShape /\ PlSorting /\ plNodes = Len(plTasks) /\ plIndeg \in [PlIds -> Nat]
  BY <1>1 DEF PlInv, PlSorting, PlShape, PlTypeOK
<1>3. /\ Added \subseteq PlIds /\ IsFiniteSet(Added) /\ ListsOf \in [Added -> Seq(Nat)]
      /\ \A i \in Added : ListsOf[i] = DepsOf(i) /\ DepsOf(i) \in Seq(Nat)
  <2>1. Added \subseteq PlIds /\ IsFiniteSet(Added) /\ ListsOf \in [Added -> Seq(Nat)]
    BY <1>2, TasksShape
  <2>2. QED
    BY <2>1 DEF ListsOf
<1>4. \A i \in Added : left[i] = IF Last(plQueue) \in Range(ListsOf[i])
                                 THEN plIndeg[i] - 1 ELSE plIndeg[i]
  <2>1. \A i \in Added : Contains(DepsOf(i), Last(plQueue)) <=> Last(plQueue) \in Range(ListsOf[i])
    BY <1>3, LenProperties DEF Contains, Range
  <2>2. \A i \in Added : i \in PlIds
    BY <1>3
  <2>3. QED
    BY <2>1, <2>2
<1>5. PICK f : f = Freed(left, plIndeg)
  OBVIOUS
<1>6. \A i \in PlIds \ Added : left[i] = plIndeg[i]
  OBVIOUS
<1>7. left \in [PlIds -> Int]
  <2>1. \A i \in PlIds : plIndeg[i] - 1 \in Int /\ plIndeg[i] \in Int
    BY <1>2
  <2>2. QED
    BY <2>1
<1> HIDE DEF left
<1>8. f = {i \in Added : left[i] = 0 /\ plIndeg[i] # 0}
  BY <1>5 DEF Freed
<1>9. InIdOrder(f) \in Seq(f) /\ IsInjective(InIdOrder(f)) /\ Range(InIdOrder(f)) = f
  <2>1. f \in SUBSET (1..PlLength) /\ PlLength \in Nat
    BY <1>3, <1>8, PlAssumption DEF PlIds
  <2>2. QED
    BY <2>1, InIdOrderFacts
<1>10. KahnInv(Added, ListsOf, left, plQueue', plSeen + 1)
  <2>1. KahnInv(Added, ListsOf, plIndeg, plQueue, plSeen)
    BY <1>2 DEF PlSorting
  <2>2. PICK s : s = InIdOrder(f)
    OBVIOUS
  <2>3. s \in Seq(f) /\ Range(s) = f /\ IsInjective(s)
    BY <1>9, <2>2
  <2>4. KahnInv(Added, ListsOf, left, Front(plQueue) \o s, plSeen + 1)
    BY <1>1, <1>3, <1>4, <1>8, <2>1, <2>3, KahnTakes
  <2>5. QED
    BY <1>1, <1>5, <2>2, <2>4
<1>11. left \in [PlIds -> Nat]
  <2>1. \A i \in Added : left[i] \in Nat
    BY <1>10 DEF KahnInv
  <2>2. \A i \in PlIds \ Added : left[i] \in Nat
    BY <1>2, <1>6
  <2>3. QED
    BY <1>7, <2>1, <2>2
<1>12. PlSorting'
  <2>1. Added' = Added /\ \A i : DepsOf(i)' = DepsOf(i)
    BY <1>1 DEF Added, DepsOf
  <2>2. ListsOf' = ListsOf
    BY <2>1 DEF ListsOf
  <2>3. \A i \in Added' : Range(DepsOf(i)') \subseteq Added'
    BY <1>2, <2>1 DEF PlSorting
  <2>4. QED
    BY <1>1, <1>2, <1>10, <2>1, <2>2, <2>3 DEF PlSorting
<1>13. QED
  BY <1>1, <1>2, <1>11, <1>12, SortingKeeps

LEMMA EndSortStep == PlInv /\ EndSort => PlInv'
<1> SUFFICES ASSUME PlInv, EndSort PROVE PlInv'
  OBVIOUS
<1> DEFINE taken == Taken(Added, plIndeg, plQueue)
           D == [i \in Added |-> Range(DepsOf(i))]
<1>1. /\ plVerdict = "sorting" /\ plQueue = <<>> /\ PlShape /\ PlSorting
      /\ plVerdict' = (IF plSeen = plNodes THEN "planned" ELSE "rejected")
      /\ UNCHANGED <<plTasks, plNodes, plIndeg, plQueue, plSeen>>
  BY DEF EndSort, PlInv
<1>2. /\ Added = TemplateIds /\ Cardinality(Added) = Len(plTasks) /\ plNodes = Len(plTasks)
      /\ IsFiniteSet(Added) /\ ListsOf \in [Added -> Seq(Nat)]
      /\ \A i \in Added : ListsOf[i] = DepsOf(i) /\ DepsOf(i) \in Seq(Nat)
  <2>1. plNodes = Len(plTasks)
    BY <1>1 DEF PlSorting
  <2>2. Added = TemplateIds /\ Cardinality(Added) = Len(plTasks)
    BY <1>1, <2>1, AddedIsTemplate
  <2>3. IsFiniteSet(Added) /\ ListsOf \in [Added -> Seq(Nat)]
    BY <1>1, TasksShape
  <2>4. \A i \in Added : ListsOf[i] = DepsOf(i)
    BY DEF ListsOf
  <2>5. QED
    BY <2>1, <2>2, <2>3, <2>4
<1>3. /\ \A i \in Added : plIndeg[i] \in Nat
      /\ plSeen = Cardinality(taken)
      /\ \A i \in Added : plIndeg[i] + Cardinality(Range(ListsOf[i]) \cap taken) = Len(ListsOf[i])
      /\ Acyclic(taken, [i \in Added |-> Range(ListsOf[i])])
  BY <1>1 DEF PlSorting, KahnInv
<1>4. taken = {i \in Added : plIndeg[i] = 0}
  BY <1>1 DEF Taken, Range
<1>5. taken \in SUBSET Added
  BY <1>4
<1>6. \A i \in TemplateIds : Range(DepsOf(i)) \subseteq TemplateIds
  BY <1>1, <1>2 DEF PlSorting
<1>7. D = [i \in Added |-> Range(ListsOf[i])]
  BY <1>2
<1>8. UNCHANGED <<TemplateIds, Added>> /\ \A i : DepsOf(i)' = DepsOf(i)
  BY <1>1 DEF TemplateIds, Added, DepsOf
<1>9. (WellFormed <=> WellFormed') /\ Len(plTasks') = Len(plTasks)
  BY <1>1, <1>8 DEF WellFormed
<1>10. PlShape'
  <2>1. PlTypeOK'
    BY <1>1 DEF PlShape, PlTypeOK
  <2>2. QED
    BY <1>1, <2>1 DEF PlShape
<1> HIDE DEF taken, D
<1>11. CASE plSeen = plNodes
  <2>1. taken = Added
    BY <1>2, <1>3, <1>5, <1>11, FS_Subset
  <2>2. Acyclic(TemplateIds, [i \in TemplateIds |-> Range(DepsOf(i))])
    BY <1>2, <1>3, <1>7, <2>1 DEF D
  <2>3. \A t \in TemplateIds : [i \in TemplateIds |-> Range(DepsOf(i))][t] \subseteq TemplateIds
    BY <1>6
  <2>4. WellFormed
    BY <1>2, <2>2, <2>3 DEF WellFormed, ValidGraph
  <2>5. plVerdict' = "planned" /\ WellFormed'
    BY <1>1, <1>9, <1>11, <2>4
  <2>6. QED
    BY <1>10, <2>5 DEF PlInv, PlanSound, PlannedIsValid, ValidIsPlanned
<1>12. CASE plSeen # plNodes
  <2>1. Added \ taken # {}
    BY <1>2, <1>3, <1>5, <1>12
  <2>2. ASSUME WellFormed, \A i \in TemplateIds : IsInjective(DepsOf(i)) PROVE FALSE
    <3>1. Acyclic(TemplateIds, [i \in TemplateIds |-> Range(DepsOf(i))])
      BY <2>2 DEF WellFormed, ValidGraph
    <3>2. Acyclic(Added, D)
      BY <1>2, <3>1 DEF D
    <3>3. PICK t \in Added \ taken : D[t] \cap (Added \ taken) = {}
      BY <2>1, <3>2 DEF Acyclic
    <3>4. Range(DepsOf(t)) \subseteq Added
      BY <1>2, <1>6, <3>3
    <3>5. Range(DepsOf(t)) \cap taken = Range(DepsOf(t))
      BY <3>3, <3>4 DEF D
    <3>6. DepsOf(t) \in Seq(Nat) /\ IsInjective(DepsOf(t)) /\ ListsOf[t] = DepsOf(t)
      BY <1>2, <2>2, <3>3
    <3>7. Cardinality(Range(DepsOf(t))) = Len(DepsOf(t)) /\ Len(DepsOf(t)) \in Nat
      BY <3>6, RangeCounts
    <3>8. plIndeg[t] + Len(DepsOf(t)) = Len(DepsOf(t)) /\ plIndeg[t] \in Nat
      BY <1>3, <3>3, <3>5, <3>6, <3>7
    <3>9. plIndeg[t] = 0
      BY <3>7, <3>8
    <3>10. QED
      BY <1>4, <3>3, <3>9
  <2>3. ~WellFormed' \/ \E i \in TemplateIds' : ~IsInjective(DepsOf(i)')
    BY <1>8, <1>9, <2>2
  <2>4. plVerdict' = "rejected"
    BY <1>1, <1>12
  <2>5. QED
    BY <1>10, <2>3, <2>4 DEF PlInv, PlanSound, PlannedIsValid, ValidIsPlanned
<1>13. QED
  BY <1>11, <1>12

LEMMA PlInvStep == PlInv /\ [PlNext]_plVars => PlInv'
<1> SUFFICES ASSUME PlInv, [PlNext]_plVars PROVE PlInv'
  OBVIOUS
<1>1. CASE UNCHANGED plVars
  <2>1. /\ UNCHANGED <<plTasks, plNodes, plIndeg, plQueue, plSeen, plVerdict>>
    BY <1>1 DEF plVars
  <2>2. Added' = Added /\ TemplateIds' = TemplateIds /\ \A i : DepsOf(i)' = DepsOf(i)
    BY <2>1 DEF Added, TemplateIds, DepsOf
  <2>3. ListsOf' = ListsOf
    BY <2>2 DEF ListsOf
  <2>4. PlShape'
    BY <2>1 DEF PlInv, PlShape, PlTypeOK
  <2>5. PlSorting' <=> PlSorting
    BY <2>1, <2>2, <2>3 DEF PlSorting
  <2>6. PlanSound'
    <3>1. WellFormed' <=> WellFormed
      BY <2>1, <2>2 DEF WellFormed
    <3>2. QED
      BY <2>1, <2>2, <3>1 DEF PlInv, PlanSound, PlannedIsValid, ValidIsPlanned
  <2>7. QED
    BY <2>1, <2>4, <2>5, <2>6 DEF PlInv
<1>2. QED
  BY <1>1, TemplateStep, AddTaskStep, ValidateStep, TakeTaskStep, EndSortStep DEF PlNext
-----------------------------------------------------------------------------
(***************************************************************************)
(* Types: what the invariants leave out of the declarations                *)
(***************************************************************************)
SiCounts ==
    /\ siConfig \in Configs
    /\ siTries \in 0..SiAttempts /\ siFailures \in 0..SiCrashes
    /\ \A b \in DOMAIN siPlanned : Range(siPlanned[b]) \subseteq siLanded

LEMMA SiCountsInit == SiInit => SiCounts
<1>1. 0 \in 0..SiAttempts /\ 0 \in 0..SiCrashes
  BY SiAssumption
<1>2. QED
  BY <1>1 DEF SiInit, SiCounts

LEMMA SiCountsStep == SiInv /\ SiCounts /\ [SiNext]_siVars => SiCounts'
<1> SUFFICES ASSUME SiInv, SiCounts, [SiNext]_siVars PROVE SiCounts'
  OBVIOUS
<1>1. /\ siConfig \in Configs /\ siTries \in 0..SiAttempts /\ siFailures \in 0..SiCrashes
      /\ \A b \in DOMAIN siPlanned : Range(siPlanned[b]) \subseteq siLanded
  BY DEF SiCounts
<1>2. 0 \in 0..SiAttempts /\ SiAttempts \in Nat /\ SiCrashes \in Nat
  BY SiAssumption
<1>3. siConfig' = siConfig
  BY DEF SiNext, QuerySteps, StartQuery, PlanBatch, InferRow, WriteResults, CommitBatch,
         Land, QueryDies, siVars
<1>4. siTries' \in 0..SiAttempts
  <2>1. ASSUME NEW reply, InferRow(reply)
        PROVE  siTries' = 0 \/ (siTries' = siTries + 1 /\ siTries + 1 < SiAttempts)
    BY <2>1 DEF InferRow, Settle
  <2>2. StartQuery \/ PlanBatch => siTries' = siTries \/ siTries' = 0
    BY DEF StartQuery, PlanBatch, Collect
  <2>3. WriteResults \/ CommitBatch \/ Land \/ QueryDies => siTries' = siTries \/ siTries' = 0
    BY DEF WriteResults, CommitBatch, Land, QueryDies
  <2>4. UNCHANGED siVars => siTries' = siTries
    BY DEF siVars
  <2>5. \/ siTries' = siTries \/ siTries' = 0
        \/ (siTries' = siTries + 1 /\ siTries + 1 < SiAttempts)
    BY <2>1, <2>2, <2>3, <2>4 DEF SiNext, QuerySteps
  <2>6. QED
    BY <1>1, <1>2, <2>5
<1>5. siFailures' \in 0..SiCrashes
  <2>1. QueryDies => siFailures' = siFailures + 1 /\ siFailures < SiCrashes
    BY DEF QueryDies
  <2>2. QuerySteps \/ Land \/ UNCHANGED siVars => siFailures' = siFailures
    BY DEF QuerySteps, StartQuery, PlanBatch, InferRow, WriteResults, CommitBatch, Land, siVars
  <2>3. QED
    BY <1>1, <1>2, <2>1, <2>2 DEF SiNext
<1>6. \A b \in DOMAIN siPlanned' : Range(siPlanned'[b]) \subseteq siLanded'
  <2>1. CASE PlanBatch
    <3>1. PICK rows \in SUBSET (siLanded \ SiPlannedRows) :
              siPlanned' = Append(siPlanned, SetToSeq(rows))
      BY <2>1 DEF PlanBatch
    <3>2. siLanded' = siLanded /\ siPlanned \in Seq(Seq(SiRows)) /\ IsFiniteSet(rows)
      BY <2>1, FS_Subset DEF PlanBatch, SiInv, SiShapes
    <3>3. PICK s : s = SetToSeq(rows)
      OBVIOUS
    <3>4. s \in Seq(rows) /\ Range(s) \subseteq siLanded
      <4>1. s \in Seq(rows)
        BY <3>2, <3>3, SetToSeqEnumerates
      <4>2. \A i \in DOMAIN s : s[i] \in rows
        BY <4>1, LenProperties
      <4>3. QED
        BY <3>1, <4>1, <4>2 DEF Range
    <3>5. s \in Seq(SiRows)
      <4>1. PICK len \in Nat : len = Len(s) /\ s \in [1..len -> rows]
        BY <3>4, LenProperties
      <4>2. s \in [1..len -> SiRows]
        BY <4>1 DEF SiInv, SiShapes
      <4>3. QED
        BY <4>1, <4>2, IsASeq
    <3>6. /\ Len(siPlanned) \in Nat /\ DOMAIN siPlanned = 1..Len(siPlanned)
          /\ DOMAIN Append(siPlanned, s) = 1..Len(siPlanned) + 1
          /\ \A b \in 1..Len(siPlanned) : Append(siPlanned, s)[b] = siPlanned[b]
          /\ Append(siPlanned, s)[Len(siPlanned) + 1] = s
      <4>1. Append(siPlanned, s) \in Seq(Seq(SiRows))
        BY <3>2, <3>5, AppendProperties
      <4>2. QED
        BY <3>2, <3>5, <4>1, AppendProperties, LenProperties
    <3>7. \A b \in 1..Len(siPlanned) + 1 : b \in 1..Len(siPlanned) \/ b = Len(siPlanned) + 1
      BY <3>6
    <3>8. QED
      BY <1>1, <3>1, <3>2, <3>3, <3>4, <3>6, <3>7
  <2>2. CASE siPlanned' = siPlanned /\ siLanded \subseteq siLanded'
    BY <1>1, <2>2
  <2>3. QED
    BY <2>1, <2>2 DEF SiNext, QuerySteps, StartQuery, InferRow, WriteResults, CommitBatch,
                      Land, QueryDies, siVars
<1>7. QED
  BY <1>1, <1>3, <1>4, <1>5, <1>6 DEF SiCounts

LEMMA SiTypes == SiInv /\ SiCounts => SiTypeOK
<1> SUFFICES ASSUME SiInv, SiCounts PROVE SiTypeOK
  OBVIOUS
<1>1. siLanded \subseteq SiRows /\ siPlanned \in Seq(Seq(SiRows)) /\ siCommits \in Nat
  BY DEF SiInv, SiShapes
<1>2. SiPlannedRows \subseteq siLanded
  BY DEF SiCounts, SiPlannedRows
<1>3. siState \in {"down", "waiting", "inferring", "writing", "written"}
  BY DEF SiInv, LogKept
<1>4. siCommits \in 0..Len(siPlanned) /\ Len(siPlanned) <= siCommits + 1
  <2>1. Len(siPlanned) = siCommits \/ Len(siPlanned) = siCommits + 1
    BY DEF SiInv, LogKept
  <2>2. QED
    BY <1>1, <2>1
<1>5. QED
  BY <1>1, <1>2, <1>3, <1>4 DEF SiCounts, SiTypeOK

LEMMA StTypes == StInv => StTypeOK
<1> SUFFICES ASSUME StInv PROVE StTypeOK
  OBVIOUS
<1>1. /\ stSent \in 0..StRequests /\ stNoted \in 0..StNotes /\ stRaised \in 0..stNoted
      /\ StRequests \in Nat
      /\ stTaken \in Seq(Nat) /\ stOut \in Seq(Nat) /\ stIn \in Seq(Seq(Messages))
  BY StAssumption DEF StInv
<1>2. ASSUME NEW i \in DOMAIN stIn, NEW m \in Range(stIn[i])
      PROVE  m.id \in 0..StRequests /\ m.kind \in MessageKinds
  <2>1. stIn[i] \in Seq(Messages)
    BY <1>1, LenProperties
  <2>2. m \in Messages
    BY <2>1, LenProperties DEF Range
  <2>3. QED
    BY <2>2 DEF Messages
<1>3. \A x \in Range(stTaken) \cup Range(stOut) : x \in 0..StRequests
  <2>1. /\ DOMAIN stTaken = 1..Len(stTaken) /\ \A i \in 1..Len(stTaken) : stTaken[i] \in Nat
        /\ DOMAIN stOut = 1..Len(stOut) /\ \A i \in 1..Len(stOut) : stOut[i] \in Nat
    BY <1>1, LenProperties
  <2>2. /\ \A i \in 1..Len(stTaken) : stTaken[i] \in 0..StRequests
        /\ \A i \in 1..Len(stOut) : stOut[i] \in 0..StRequests
    BY <1>1, <2>1, StInvMatches
  <2>3. QED
    BY <2>1, <2>2 DEF Range
<1>4. QED
  BY <1>1, <1>2, <1>3 DEF StTypeOK
-----------------------------------------------------------------------------
(***************************************************************************)
(* The results                                                             *)
(***************************************************************************)
\* What agents and models are served from is complete, whichever threads
\* discover it at the same time: nobody lists less than was installed, takes
\* an installed name for unknown, gives one agent two turns before another's
\* first, or sends a private scene to a remote model.
THEOREM RegistriesServe == Spec => []RegistryServes
<1>1. ServiceRegistries => RegistryServes
  BY RgInvServes, RoundInvBalanced, PickInvServes DEF ServiceRegistries, RegistryServes
<1>2. QED
  BY ServiceRegistriesInit, ServiceRegistriesStep, <1>1, PTL DEF Spec

\* Whatever hangs or fails late: an answer belongs to the call it is taken for,
\* but for what notifications whose handling raised have pushed back, by no more
\* lines than there were of them; and what is charged to a Foundry session is
\* answered calls, all of them unless two accountings overlapped.
THEOREM AnswersAreOwn == Spec => []AnswersOwn
<1>1. Init => InInv /\ FcInv /\ StInv
  BY InInvInit, FcInvInit, StInvInit DEF Init
<1>2. InInv /\ FcInv /\ StInv /\ [Next]_Everything => InInv' /\ FcInv' /\ StInv'
  BY StepOfParts, InInvStep, FcInvStep, StInvStep
<1>3. InInv /\ FcInv /\ StInv => AnswersOwn
  BY FcInvCounts, StInvMatches DEF InInv, AnswersOwn
<1>4. QED
  BY <1>1, <1>2, <1>3, PTL DEF Spec

\* A chat turn ends within one round of tool calls of its budget, however many
\* of its members hang, and shows the evidence that was found.
THEOREM TurnsAreKept == Spec => []ChatKept
<1>1. Init => CtInv
  BY CtInvInit DEF Init
<1>2. CtInv /\ [Next]_Everything => CtInv'
  BY StepOfParts, CtInvStep
<1>3. CtInv => ChatKept
  BY CtInvKeeps DEF ChatKept
<1>4. QED
  BY <1>1, <1>2, <1>3, PTL DEF Spec

\* However saves of views and tasks interleave, and whichever worker dies, the
\* row tells of one run, and a summary of the whole of its trace.
THEOREM AnalysesAreSound == Spec => []AnalysesSound
<1>1. Init => AnInv
  BY AnInvInit DEF Init
<1>2. AnInv /\ [Next]_Everything => AnInv'
  BY StepOfParts, AnInvStep
<1>3. AnInv => AnalysesSound
  BY AnInvSound DEF AnalysesSound
<1>4. QED
  BY <1>1, <1>2, <1>3, PTL DEF Spec
\* However often the streaming query dies between planning a batch, appending
\* its answers and committing it: every row of a committed batch has a line in
\* the table, and one line more at most for every death.
THEOREM SinkLinesKept == Spec => []SinkLines
<1>1. Init => SiInv
  BY SiInvInit DEF Init
<1>2. SiInv /\ [Next]_Everything => SiInv'
  BY StepOfParts, SiInvStep
<1>3. QED
  BY <1>1, <1>2, SiInvSound, PTL DEF Spec

\* A template is planned only if its ids differ, its dependencies are all there
\* and no task waits for itself through others; and any such template is, unless
\* a task lists a dependency twice (TaskGraph._assert_acyclic).
THEOREM PlansAreSound == Spec => []PlanSound
<1>1. Init => PlInv
  BY PlInvInit DEF Init
<1>2. PlInv /\ [Next]_Everything => PlInv'
  BY StepOfParts, PlInvStep
<1>3. PlInv => PlanSound
  BY DEF PlInv
<1>4. QED
  BY <1>1, <1>2, <1>3, PTL DEF Spec

\* Every component's variables hold what their declarations say, the counters
\* and the logs within their bounds.
THEOREM ServiceIsTyped == Spec => []ServiceTypes
<1> DEFINE Callers == RlTypeInv /\ BusInv /\ InInv /\ FcInv /\ StInv
           Workers == PlInv /\ CtInv /\ AnInv /\ RnInv /\ SiInv /\ SiCounts
<1>1. Init => Callers /\ Workers /\ ServiceRegistries
  BY InitRlTypeInv, BusInvInit, InInvInit, FcInvInit, StInvInit, PlInvInit, CtInvInit,
     AnInvInit, RnInvInit, SiInvInit, SiCountsInit, ServiceRegistriesInit DEF Init
<1>2. Callers /\ [Next]_Everything => Callers'
  BY StepOfParts, StepRlTypeInv, BusInvStep, InInvStep, FcInvStep, StInvStep
<1>3. Workers /\ [Next]_Everything => Workers'
  BY StepOfParts, PlInvStep, CtInvStep, AnInvStep, RnInvStep, SiInvStep, SiCountsStep
<1>4. Callers => RlTypeOK /\ BusTypeOK /\ InTypeOK /\ FcTypeOK /\ StTypeOK
  BY FcInvCounts, StTypes DEF RlTypeInv, BusInv, SubsInv, BusTypeOK, InInv
<1>5. Workers => PlTypeOK /\ CtTypeOK /\ AnTypeOK /\ RnTypeOK /\ SiTypeOK
  BY SiTypes DEF PlInv, PlShape, CtInv, AnInv, RnInv
<1>6. ServiceRegistries => ArTypeOK /\ MrTypeOK
  BY DEF ServiceRegistries, RgInv, RgTypeInv, RoundInv, PickInv, ArTypeOK, MrTypeOK
<1>7. Callers /\ Workers /\ ServiceRegistries => ServiceTypes
  BY <1>4, <1>5, <1>6 DEF ServiceTypes
<1> HIDE DEF Callers, Workers
<1>8. QED
  BY <1>1, <1>2, <1>3, <1>7, ServiceRegistriesStep, PTL DEF Spec
=============================================================================
