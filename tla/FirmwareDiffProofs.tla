------------------------- MODULE FirmwareDiffProofs -------------------------
(***************************************************************************)
(* The diff command, and the search for the root filesystems of an image.  *)
(*                                                                         *)
(* The order of version keys (cve_db/version.py) is a strict total order,  *)
(* for any alphabetic runs and any strict total order of them; so Compare  *)
(* reverses with its arguments, and the versions of a range are an         *)
(* interval.  Two different keys differ first at some position, or one     *)
(* goes on where the other ends: that position, which Python's comparison  *)
(* of tuples finds by going through them, is the least of a set.           *)
(*                                                                         *)
(* What merge_components holds mirrors what has been detected so far       *)
(* (DiffInv), so that every disagreement stays visible, and an image's     *)
(* inventory lists a name once.  Comparing two inventories the other way   *)
(* round turns every change round, and the CVEs that persist are those     *)
(* that both versions of a listed change have.                             *)
(*                                                                         *)
(* The search goes through a tree level by level (Levels), and what it has *)
(* not found yet lies below what it has still to enter (Covered).          *)
(***************************************************************************)
EXTENDS FirmwareDiff, RootfsSearch, SequenceTheorems, FiniteSetTheorems, NaturalsInduction,
        WellFoundedInduction, TLAPS

-----------------------------------------------------------------------------
(* The key of a version, by induction over its runs.                        *)

\* A set of positions has a first one.
LEMMA FirstPosition ==
    ASSUME NEW T \in SUBSET Nat, T # {}
    PROVE  \E i \in T : \A j \in T : i <= j
<1>1. \E i \in T : \A j \in T : <<j, i>> \notin OpToRel(<, Nat)
    BY WFMin, NatLessThanWellFounded
<1>2. \A i, j \in Nat : j < i => <<j, i>> \in OpToRel(<, Nat)
    BY DEF OpToRel
<1>3. PICK i \in T : \A j \in T : <<j, i>> \notin OpToRel(<, Nat)
    BY <1>1
<1>4. \A j \in T : ~(j < i)
    BY <1>2, <1>3
<1>5. QED
    BY <1>4

\* Induction up to n, over a set.
LEMMA UpToInduction ==
    ASSUME NEW n \in Nat, NEW S, 0 \in S, \A i \in 1 .. n : i - 1 \in S => i \in S
    PROVE  \A i \in 0 .. n : i \in S
<1> DEFINE Bad == {i \in 0 .. n : i \notin S}
<1> SUFFICES ASSUME Bad # {} PROVE FALSE
    OBVIOUS
<1>1. Bad \in SUBSET Nat
    OBVIOUS
<1>2. PICK i \in Bad : \A j \in Bad : i <= j
  <2> HIDE DEF Bad
  <2> QED BY <1>1, FirstPosition
<1>3. i \in 1 .. n /\ i - 1 \in 0 .. n /\ i - 1 \notin Bad
    BY <1>2
<1> QED BY <1>3

\* A key holds chunks only.
LEMMA VersionKeyType ==
    ASSUME NEW version \in Version
    PROVE  VersionKey(version) \in Key
<1> DEFINE n == Len(version)
           key[i \in 0 .. n] == IF i = 0 THEN <<>> ELSE Taken(key[i - 1], version[i])
           S == {i \in 0 .. n : key[i] \in Key}
<1>1. n \in Nat /\ \A i \in 1 .. n : version[i] \in Chunk \cup Separator
    BY DEF Version
<1>2. key = [i \in 0 .. n |-> IF i = 0 THEN <<>> ELSE Taken(key[i - 1], version[i])]
  <2>1. FiniteNatInductiveDefHypothesis(key, <<>>, LAMBDA v, i : Taken(v, version[i]), 0, n)
    BY DEF FiniteNatInductiveDefHypothesis
  <2>2. FiniteNatInductiveDefConclusion(key, <<>>, LAMBDA v, i : Taken(v, version[i]), 0, n)
    BY ONLY <1>1, <2>1, FiniteNatInductiveDef, 0 \in Nat
  <2> QED BY ONLY <2>2 DEF FiniteNatInductiveDefConclusion
<1>3. VersionKey(version) = key[n]
    BY DEF VersionKey
<1> HIDE DEF key, n
<1>4. 0 \in S
    BY <1>1, <1>2 DEF Key
<1>5. ASSUME NEW i \in 1 .. n, i - 1 \in S PROVE i \in S
  <2>1. key[i] = Taken(key[i - 1], version[i]) /\ i \in 0 .. n
    BY <1>1, <1>2
  <2>2. version[i][1] # 2 => version[i] \in Chunk
    BY <1>1 DEF Separator, Dot, Dash, Star
  <2>3. Taken(key[i - 1], version[i]) \in Key
    BY <1>5, <2>2, AppendProperties DEF Taken, Key
  <2> QED BY <2>1, <2>3
<1>6. n \in S
  <2> HIDE DEF S
  <2> QED BY <1>1, <1>4, <1>5, UpToInduction
<1> QED BY <1>3, <1>6

-----------------------------------------------------------------------------
(* Chunks: numbers before words, each in their order.                       *)

\* A chunk is a number or a word with its tag.
LEMMA ChunkParts ==
    ASSUME NEW c \in Chunk
    PROVE  \/ c[1] = 0 /\ c[2] \in Nat /\ c = <<0, c[2]>>
           \/ c[1] = 1 /\ c[2] \in Word /\ c = <<1, c[2]>>
BY DEF Chunk, Number, Alpha

\* Two chunks are never both before each other, and one chunk is not before itself.
LEMMA ChunkAsymmetric ==
    ASSUME NEW c \in Chunk, NEW d \in Chunk, ChunkLess(c, d)
    PROVE  ~ChunkLess(d, c) /\ c # d
<1>1. CASE c[1] < d[1]
    BY <1>1, ChunkParts DEF ChunkLess
<1>2. CASE c[1] = 0 /\ d[1] = 0 /\ c[2] < d[2]
    BY <1>2, ChunkParts DEF ChunkLess
<1>3. CASE c[1] = 1 /\ d[1] = 1 /\ WordLess(c[2], d[2])
  <2>1. c[2] \in Word /\ d[2] \in Word
    BY <1>3, ChunkParts
  <2>2. ~WordLess(d[2], c[2]) /\ c[2] # d[2]
    BY <1>3, <2>1, WordOrder
  <2>3. QED
    BY <1>3, <2>2 DEF ChunkLess
<1>4. QED
    BY <1>1, <1>2, <1>3 DEF ChunkLess

\* Chunks are in order along a chain.
LEMMA ChunkTransitive ==
    ASSUME NEW c \in Chunk, NEW d \in Chunk, NEW e \in Chunk, ChunkLess(c, d), ChunkLess(d, e)
    PROVE  ChunkLess(c, e)
<1>1. CASE c[1] = 1 /\ d[1] = 1 /\ e[1] = 1
  <2>1. c[2] \in Word /\ d[2] \in Word /\ e[2] \in Word
    BY <1>1, ChunkParts
  <2>2. WordLess(c[2], d[2]) /\ WordLess(d[2], e[2])
    BY <1>1 DEF ChunkLess
  <2>3. WordLess(c[2], e[2])
    BY <2>1, <2>2, WordOrder
  <2>4. QED
    BY <1>1, <2>3 DEF ChunkLess
<1>2. CASE c[1] = 0 /\ d[1] = 0 /\ e[1] = 0
    BY <1>2, ChunkParts DEF ChunkLess
<1>3. CASE c[1] = 0 /\ e[1] = 1
    BY <1>3 DEF ChunkLess
<1>4. QED
    BY <1>1, <1>2, <1>3, ChunkParts DEF ChunkLess

\* Of two different chunks one is before the other.
LEMMA ChunkTotal ==
    ASSUME NEW c \in Chunk, NEW d \in Chunk, c # d
    PROVE  ChunkLess(c, d) \/ ChunkLess(d, c)
<1>1. CASE c[1] = 1 /\ d[1] = 1
  <2>1. c[2] \in Word /\ d[2] \in Word /\ c[2] # d[2]
    BY <1>1, ChunkParts
  <2>2. WordLess(c[2], d[2]) \/ WordLess(d[2], c[2])
    BY <2>1, WordOrder
  <2>3. QED
    BY <1>1, <2>2 DEF ChunkLess
<1>2. CASE c[1] = 0 /\ d[1] = 0
    BY <1>2, ChunkParts DEF ChunkLess
<1>3. CASE c[1] # d[1]
    BY <1>3, ChunkParts DEF ChunkLess
<1>4. QED
    BY <1>1, <1>2, <1>3, ChunkParts

-----------------------------------------------------------------------------
(* Keys: where two of them part.                                            *)

\* The keys agree before i, and there a has the smaller chunk or has ended.
PartsAt(a, b, i) ==
    /\ i \in 1 .. Len(b) /\ i <= Len(a) + 1
    /\ SameBefore(a, b, i)
    /\ i <= Len(a) => ChunkLess(a[i], b[i])

\* A key is smaller exactly when the two part at some position.
LEMMA LessIsParting ==
    ASSUME NEW a \in Key, NEW b \in Key
    PROVE  KeyLess(a, b) <=> \E i \in Nat : PartsAt(a, b, i)
<1> Len(a) \in Nat /\ Len(b) \in Nat
    BY DEF Key
<1>1. ASSUME NEW i \in 1 .. Len(a), i <= Len(b), SameBefore(a, b, i), ChunkLess(a[i], b[i])
      PROVE  PartsAt(a, b, i) /\ i \in Nat
    BY <1>1 DEF PartsAt
<1>2. ASSUME Len(a) < Len(b), SameBefore(a, b, Len(a) + 1)
      PROVE  PartsAt(a, b, Len(a) + 1) /\ Len(a) + 1 \in Nat
    BY <1>2 DEF PartsAt
<1>3. ASSUME NEW i \in Nat, PartsAt(a, b, i) PROVE KeyLess(a, b)
  <2>1. CASE i <= Len(a)
    BY <1>3, <2>1 DEF PartsAt, KeyLess
  <2>2. CASE i = Len(a) + 1
    BY <1>3, <2>2 DEF PartsAt, KeyLess
  <2>3. QED
    BY <1>3, <2>1, <2>2 DEF PartsAt
<1>4. QED
    BY <1>1, <1>2, <1>3 DEF KeyLess

\* Different keys part, one way or the other.
LEMMA KeysPart ==
    ASSUME NEW a \in Key, NEW b \in Key, a # b
    PROVE  KeyLess(a, b) \/ KeyLess(b, a)
<1> Len(a) \in Nat /\ Len(b) \in Nat
    BY DEF Key
<1> DEFINE Differ == {i \in Nat : i \in 1 .. Len(a) /\ i \in 1 .. Len(b) /\ a[i] # b[i]}
<1>1. CASE Differ # {}
  <2>1. PICK i \in Differ : \A j \in Differ : i <= j
    BY <1>1, FirstPosition
  <2>2. \A j \in 1 .. i - 1 : a[j] = b[j]
    BY <2>1
  <2>3. SameBefore(a, b, i) /\ SameBefore(b, a, i)
    BY <2>2 DEF SameBefore
  <2>4. a[i] \in Chunk /\ b[i] \in Chunk /\ a[i] # b[i]
    BY <2>1 DEF Key
  <2>5. ChunkLess(a[i], b[i]) \/ ChunkLess(b[i], a[i])
    BY <2>4, ChunkTotal
  <2>6. PartsAt(a, b, i) \/ PartsAt(b, a, i)
    BY <2>1, <2>3, <2>5 DEF PartsAt
  <2>7. QED
    BY <2>1, <2>6, LessIsParting
<1>2. CASE Differ = {}
  <2>1. \A i \in 1 .. Len(a) : i <= Len(b) => a[i] = b[i]
    BY <1>2
  <2>2. Len(a) # Len(b)
    <3>1. SUFFICES ASSUME Len(a) = Len(b) PROVE FALSE
      OBVIOUS
    <3>2. QED
      BY <2>1, <3>1 DEF Key
  <2>3. CASE Len(a) < Len(b)
    BY <2>1, <2>3 DEF KeyLess, SameBefore
  <2>4. CASE Len(b) < Len(a)
    BY <2>1, <2>4 DEF KeyLess, SameBefore
  <2>5. QED
    BY <2>2, <2>3, <2>4
<1>3. QED
    BY <1>1, <1>2

-----------------------------------------------------------------------------

\* No key is smaller than itself, and no two are smaller than each other (_compare).
THEOREM KeyLessAsymmetric ==
    ASSUME NEW a \in Key, NEW b \in Key, KeyLess(a, b)
    PROVE  ~KeyLess(b, a) /\ a # b
<1> Len(a) \in Nat /\ Len(b) \in Nat
    BY DEF Key
<1>1. PICK i \in Nat : PartsAt(a, b, i)
    BY LessIsParting
<1>2. ASSUME NEW j \in Nat, PartsAt(b, a, j) PROVE FALSE
  <2>1. CASE i < j
    <3>1. i <= Len(a) /\ i <= Len(b) /\ b[i] = a[i]
      BY <1>1, <1>2, <2>1 DEF PartsAt, SameBefore
    <3>2. a[i] \in Chunk /\ ChunkLess(a[i], a[i])
      BY <1>1, <3>1 DEF PartsAt, Key
    <3>3. QED
      BY <3>2, ChunkAsymmetric
  <2>2. CASE j < i
    <3>1. j <= Len(a) /\ j <= Len(b) /\ b[j] = a[j]
      BY <1>1, <1>2, <2>2 DEF PartsAt, SameBefore
    <3>2. a[j] \in Chunk /\ ChunkLess(a[j], a[j])
      BY <1>2, <3>1 DEF PartsAt, Key
    <3>3. QED
      BY <3>2, ChunkAsymmetric
  <2>3. CASE i = j
    <3>1. i \in 1 .. Len(a) /\ i \in 1 .. Len(b)
      BY <1>1, <1>2, <2>3 DEF PartsAt
    <3>2. a[i] \in Chunk /\ b[i] \in Chunk /\ ChunkLess(a[i], b[i]) /\ ChunkLess(b[i], a[i])
      BY <1>1, <1>2, <2>3, <3>1 DEF PartsAt, Key
    <3>3. QED
      BY <3>2, ChunkAsymmetric
  <2>4. QED
    BY <2>1, <2>2, <2>3
<1>3. QED
    BY <1>1, <1>2, LessIsParting

\* The order of keys is transitive: a range sorted by one comparison is sorted by all.
THEOREM KeyLessTransitive ==
    ASSUME NEW a \in Key, NEW b \in Key, NEW c \in Key, KeyLess(a, b), KeyLess(b, c)
    PROVE  KeyLess(a, c)
<1> Len(a) \in Nat /\ Len(b) \in Nat /\ Len(c) \in Nat
    BY DEF Key
<1>1. PICK i \in Nat : PartsAt(a, b, i)
    BY LessIsParting
<1>2. PICK j \in Nat : PartsAt(b, c, j)
    BY LessIsParting
<1>3. CASE i < j
  <2>1. b[i] = c[i] /\ SameBefore(a, c, i) /\ i \in 1 .. Len(c)
    BY <1>1, <1>2, <1>3 DEF PartsAt, SameBefore
  <2>2. PartsAt(a, c, i)
    BY <1>1, <2>1 DEF PartsAt
  <2>3. QED
    BY <2>2, LessIsParting
<1>4. CASE j < i
  <2>1. a[j] = b[j] /\ SameBefore(a, c, j) /\ j \in 1 .. Len(c) /\ j <= Len(a) /\ j <= Len(b)
    BY <1>1, <1>2, <1>4 DEF PartsAt, SameBefore
  <2>2. PartsAt(a, c, j)
    BY <1>2, <2>1 DEF PartsAt
  <2>3. QED
    BY <2>2, LessIsParting
<1>5. CASE i = j
  <2>1. SameBefore(a, c, i) /\ i \in 1 .. Len(c) /\ i \in 1 .. Len(b) /\ i <= Len(a) + 1
    BY <1>1, <1>2, <1>5 DEF PartsAt, SameBefore
  <2>2. ASSUME i <= Len(a) PROVE ChunkLess(a[i], c[i])
    <3>1. a[i] \in Chunk /\ b[i] \in Chunk /\ c[i] \in Chunk
      BY <2>1, <2>2 DEF Key
    <3>2. ChunkLess(a[i], b[i]) /\ ChunkLess(b[i], c[i])
      BY <1>1, <1>2, <1>5, <2>1, <2>2 DEF PartsAt
    <3>3. QED
      BY <3>1, <3>2, ChunkTransitive
  <2>3. PartsAt(a, c, i)
    BY <2>1, <2>2 DEF PartsAt
  <2>4. QED
    BY <2>3, LessIsParting
<1>6. QED
    BY <1>3, <1>4, <1>5

\* Comparing the other way round reverses the answer, so that an update never is an
\* update in both directions (_compare, diff_components).
THEOREM CompareReverses ==
    ASSUME NEW left \in Version, NEW right \in Version
    PROVE  <<Compare(left, right), Compare(right, left)>> \in {<<0, 0>>, <<-1, 1>>, <<1, -1>>}
<1>1. CASE VersionKey(left) = VersionKey(right)
  <2>1. Compare(left, right) = 0 /\ Compare(right, left) = 0
    BY <1>1 DEF Compare
  <2>2. QED
    BY <2>1
<1>2. CASE KeyLess(VersionKey(left), VersionKey(right))
    BY <1>2, VersionKeyType, KeyLessAsymmetric DEF Compare
<1>3. CASE KeyLess(VersionKey(right), VersionKey(left))
    BY <1>3, VersionKeyType, KeyLessAsymmetric DEF Compare
<1>4. QED
    BY <1>1, <1>2, <1>3, VersionKeyType, KeysPart

\* "At least" and "at most" chain, through versions of one key and of different ones.
LEMMA CompareChains ==
    ASSUME NEW u \in Version, NEW v \in Version, NEW w \in Version,
           Compare(u, v) <= 0, Compare(v, w) <= 0
    PROVE  Compare(u, w) <= 0 /\ (Compare(u, v) < 0 \/ Compare(v, w) < 0 => Compare(u, w) < 0)
<1>1. VersionKey(u) = VersionKey(v) \/ KeyLess(VersionKey(u), VersionKey(v))
    BY DEF Compare
<1>2. VersionKey(v) = VersionKey(w) \/ KeyLess(VersionKey(v), VersionKey(w))
    BY DEF Compare
<1>3. CASE VersionKey(u) = VersionKey(v) \/ VersionKey(v) = VersionKey(w)
    BY <1>3 DEF Compare
<1>4. CASE KeyLess(VersionKey(u), VersionKey(v)) /\ KeyLess(VersionKey(v), VersionKey(w))
  <2>1. KeyLess(VersionKey(u), VersionKey(w))
    BY <1>4, VersionKeyType, KeyLessTransitive
  <2>2. VersionKey(u) # VersionKey(w)
    BY <2>1, VersionKeyType, KeyLessAsymmetric
  <2>3. QED
    BY <2>1, <2>2 DEF Compare
<1>5. QED
    BY <1>1, <1>2, <1>3, <1>4

\* The versions of a range are an interval: what lies between two affected versions is
\* affected (VersionRange.contains).
THEOREM RangeIsInterval ==
    ASSUME NEW range \in VersionRange,
           NEW u \in Version, NEW v \in Version, NEW w \in Version,
           Contains(range, u), Contains(range, w), v # <<>>,
           Compare(u, v) <= 0, Compare(v, w) <= 0
    PROVE  Contains(range, v)
<1>1. /\ range.start_including # NoBound => range.start_including \in Version
      /\ range.start_excluding # NoBound => range.start_excluding \in Version
      /\ range.end_including # NoBound => range.end_including \in Version
      /\ range.end_excluding # NoBound => range.end_excluding \in Version
    BY DEF VersionRange, Bound
<1>2. ASSUME range.start_including # NoBound PROVE Compare(v, range.start_including) >= 0
  <2>1. range.start_including \in Version /\ Compare(u, range.start_including) >= 0
    BY <1>1, <1>2 DEF Contains
  <2>2. Compare(range.start_including, u) <= 0
    BY <2>1, CompareReverses DEF Compare
  <2>3. Compare(range.start_including, v) <= 0
    BY <2>1, <2>2, CompareChains
  <2>4. QED
    BY <2>1, <2>3, CompareReverses DEF Compare
<1>3. ASSUME range.start_excluding # NoBound PROVE Compare(v, range.start_excluding) > 0
  <2>1. range.start_excluding \in Version /\ Compare(u, range.start_excluding) > 0
    BY <1>1, <1>3 DEF Contains
  <2>2. Compare(range.start_excluding, u) < 0
    BY <2>1, CompareReverses DEF Compare
  <2>3. Compare(range.start_excluding, v) < 0
    BY <2>1, <2>2, CompareChains DEF Compare
  <2>4. QED
    BY <2>1, <2>3, CompareReverses DEF Compare
<1>4. ASSUME range.end_including # NoBound PROVE Compare(v, range.end_including) <= 0
  <2>1. range.end_including \in Version /\ Compare(w, range.end_including) <= 0
    BY <1>1, <1>4 DEF Contains
  <2>2. QED
    BY <2>1, CompareChains
<1>5. ASSUME range.end_excluding # NoBound PROVE Compare(v, range.end_excluding) < 0
  <2>1. range.end_excluding \in Version /\ Compare(w, range.end_excluding) < 0
    BY <1>1, <1>5 DEF Contains
  <2>2. QED
    BY <2>1, CompareChains DEF Compare
<1>6. QED
    BY <1>2, <1>3, <1>4, <1>5 DEF Contains

-----------------------------------------------------------------------------
(* The inventory of an image.                                               *)

\* SetToSeq lists the elements of a finite set, each once.
LEMMA ListOfSet ==
    ASSUME NEW S, IsFiniteSet(S)
    PROVE  LET list == SX!SetToSeq(S)
               n == Cardinality(S)
           IN /\ n \in Nat /\ list \in [1 .. n -> S] /\ DOMAIN list = 1 .. n
              /\ \A i, j \in 1 .. n : list[i] = list[j] => i = j
              /\ \A x \in S : \E i \in 1 .. n : list[i] = x
<1> DEFINE list == SX!SetToSeq(S)
           n == Cardinality(S)
<1>1. n \in Nat /\ ExistsBijection(1 .. n, S)
    BY FS_CardinalityType
<1>2. PICK order \in Bijection(1 .. n, S) : TRUE
    BY <1>1 DEF ExistsBijection
<1>3. order \in [1 .. n -> S] /\ SX!IsInjective(order)
    BY <1>2 DEF Bijection, Injection, IsInjective, SX!IsInjective
<1>4. list \in [1 .. n -> S] /\ SX!IsInjective(list)
  <2>1. SX!Cardinality(S) = n
    BY DEF SX!Cardinality, Cardinality
  <2>2. list = CHOOSE f \in [1 .. n -> S] : SX!IsInjective(f)
    BY <2>1 DEF SX!SetToSeq
  <2> QED BY <1>3, <2>2
<1> HIDE DEF list
<1>5. DOMAIN list = 1 .. n /\ \A i, j \in 1 .. n : list[i] = list[j] => i = j
    BY <1>4 DEF SX!IsInjective
<1>6. list \in Surjection(1 .. n, S)
  <2>1. list \in Injection(1 .. n, S)
    BY <1>4, <1>5 DEF Injection, IsInjective
  <2>2. Cardinality(1 .. n) = n
    BY <1>1, FS_Interval, 1 \in Int
  <2> QED BY <2>1, <2>2, FS_Injection
<1>7. \A x \in S : \E i \in 1 .. n : list[i] = x
    BY <1>6 DEF Surjection
<1> QED BY <1>1, <1>4, <1>5, <1>7 DEF list

\* i is as strong as j, and before it when they are equal.
Leads(found, i, j) ==
    /\ Priority[found[i].detector] >= Priority[found[j].detector]
    /\ Priority[found[i].detector] = Priority[found[j].detector] => i <= j

Shows(entry, version) ==
    version = entry.component.version \/ \E c \in entry.conflicts : c.version = version

\* What `best` and `others` hold after some detections.
Mirrors(entries, found) ==
    /\ IsFiniteSet(DOMAIN entries) /\ entries \in [DOMAIN entries -> Entry]
    /\ \A i \in 1 .. Len(found) : KeyOfComponent(found[i]) # NoKey =>
          /\ KeyOfComponent(found[i]) \in DOMAIN entries
          /\ Shows(entries[KeyOfComponent(found[i])], found[i].version)
    /\ \A key \in DOMAIN entries : key # NoKey /\ \E i \in 1 .. Len(found) :
          /\ found[i] = entries[key].component /\ KeyOfComponent(found[i]) = key
          /\ \A j \in 1 .. Len(found) : KeyOfComponent(found[j]) = key => Leads(found, i, j)

\* What an entry says of the detections of its key.
Tells(entry, key, found) ==
    /\ entry \in Entry
    /\ \A i \in 1 .. Len(found) : KeyOfComponent(found[i]) = key => Shows(entry, found[i].version)
    /\ \E i \in 1 .. Len(found) :
          /\ found[i] = entry.component /\ KeyOfComponent(found[i]) = key
          /\ \A j \in 1 .. Len(found) : KeyOfComponent(found[j]) = key => Leads(found, i, j)

\* The entry of a key after another detection of it.
LEMMA EntryTells ==
    ASSUME NEW entries, NEW found \in Seq(Component), NEW component \in Component,
           Mirrors(entries, found), KeyOfComponent(component) # NoKey
    PROVE  LET key == KeyOfComponent(component)
           IN Tells(Entered(entries, key, component), key, Append(found, component))
<1> DEFINE key == KeyOfComponent(component)
           after == Entered(entries, key, component)
           longer == Append(found, component)
<1> SUFFICES Tells(after, key, longer)
    OBVIOUS
<1>0. key = KeyOfComponent(component) /\ key # NoKey
    OBVIOUS
<1> DEFINE n == Len(found)
<1>1. /\ n \in Nat /\ Len(longer) = n + 1 /\ longer[n + 1] = component
      /\ \A i \in 1 .. n : longer[i] = found[i] /\ longer[i] \in Component
      /\ \A i \in 1 .. n + 1 : i \in 1 .. n \/ i = n + 1
    BY AppendProperties, LenProperties, ElementOfSeq
<1> HIDE DEF n, key, longer, after
<1>2. \A c \in Component : c.detector \in Detector /\ c.version \in Version
    BY DEF Component
<1>3. \A c \in Component : Priority[c.detector] \in Int
    BY <1>2, DiffAssumption
<1>4. CASE key \notin DOMAIN entries
  <2>1. after = [component |-> component, conflicts |-> {}]
    BY <1>4 DEF Entered, after
  <2>2. \A i \in 1 .. n : KeyOfComponent(longer[i]) # key
    BY <1>0, <1>1, <1>4 DEF Mirrors, n
  <2>3. after \in Entry /\ after.component = component
    BY <2>1 DEF Entry
  <2>4. Leads(longer, n + 1, n + 1)
    BY <1>1, <1>3 DEF Leads
  <2>5. \A i \in 1 .. n + 1 : KeyOfComponent(longer[i]) = key => i = n + 1
    BY <1>1, <2>2
  <2> QED BY <1>0, <1>1, <2>3, <2>4, <2>5 DEF Shows, Tells
<1>5. CASE key \in DOMAIN entries
  <2> DEFINE before == entries[key]
             current == before.component
             stronger == Stronger(current, component)
             weaker == Weaker(current, component)
  <2>1. before \in Entry
    BY <1>5 DEF Mirrors
  <2>2. /\ current \in Component
        /\ before.conflicts \in SUBSET [detector : Detector, version : Version]
    BY <2>1 DEF Entry
  <2>3. PICK i \in 1 .. n :
            /\ found[i] = current /\ KeyOfComponent(found[i]) = key
            /\ \A j \in 1 .. n : KeyOfComponent(found[j]) = key => Leads(found, i, j)
    BY <1>5 DEF Mirrors, n
  <2>4. after = [component |-> stronger,
                 conflicts |-> before.conflicts \cup Conflicts(current, component)]
    BY <1>5 DEF Entered, after
  <2>5. /\ stronger \in Component /\ weaker \in Component
        /\ {stronger, weaker} = {current, component}
    BY <2>2 DEF Stronger, Weaker
  <2>6. /\ Conflicts(current, component) \in SUBSET [detector : Detector, version : Version]
        /\ weaker.version # stronger.version =>
              \E c \in Conflicts(current, component) : c.version = weaker.version
    <3>1. Conflicts(current, component)
             = {Evidence(l) : l \in {l \in {weaker} : l.version # stronger.version}}
      BY DEF Conflicts
    <3> HIDE DEF weaker, stronger
    <3>2. /\ Evidence(weaker) \in [detector : Detector, version : Version]
          /\ Evidence(weaker).version = weaker.version
      BY <1>2, <2>5 DEF Evidence
    <3> QED BY <3>1, <3>2
  <2>7. /\ after \in Entry /\ after.component = stronger
        /\ before.conflicts \subseteq after.conflicts
        /\ Conflicts(current, component) \subseteq after.conflicts
    BY <2>2, <2>4, <2>5, <2>6 DEF Entry
  <2>8. Shows(after, current.version) /\ Shows(after, component.version)
    BY <2>5, <2>6, <2>7 DEF Shows
  <2>9. \A j \in 1 .. n + 1 : KeyOfComponent(longer[j]) = key => Shows(after, longer[j].version)
    <3>1. ASSUME NEW j \in 1 .. n, KeyOfComponent(longer[j]) = key
          PROVE  Shows(after, longer[j].version)
      <4>1. Shows(before, longer[j].version)
        BY <1>0, <1>1, <3>1 DEF Mirrors, n
      <4> QED BY <2>7, <2>8, <4>1 DEF Shows
    <3> QED BY <1>0, <1>1, <2>8, <3>1
  <2>10. CASE Priority[component.detector] > Priority[current.detector]
    <3>1. after.component = component
      BY <2>7, <2>10 DEF Stronger
    <3>2. ASSUME NEW j \in 1 .. n, KeyOfComponent(longer[j]) = key
          PROVE  Leads(longer, n + 1, j)
      <4>1. Leads(found, i, j)
        BY <1>1, <2>3, <3>2
      <4>2. /\ Priority[found[j].detector] \in Int /\ Priority[component.detector] \in Int
            /\ Priority[current.detector] \in Int
        BY <1>1, <1>3, <2>2
      <4>3. Priority[current.detector] >= Priority[longer[j].detector]
        BY <1>1, <2>3, <4>1 DEF Leads
      <4> QED BY <1>1, <2>10, <4>2, <4>3 DEF Leads
    <3>3. Leads(longer, n + 1, n + 1)
      BY <1>1, <1>3 DEF Leads
    <3>4. \A j \in 1 .. n + 1 : KeyOfComponent(longer[j]) = key => Leads(longer, n + 1, j)
      BY <1>0, <1>1, <3>2, <3>3
    <3>5. n + 1 \in 1 .. n + 1
      BY <1>1
    <3> QED BY <1>0, <1>1, <2>7, <2>9, <3>1, <3>4, <3>5 DEF Tells
  <2>11. CASE ~(Priority[component.detector] > Priority[current.detector])
    <3>1. after.component = current
      BY <2>7, <2>11 DEF Stronger
    <3>2. \A j \in 1 .. n : KeyOfComponent(longer[j]) = key => Leads(longer, i, j)
      BY <1>1, <2>3 DEF Leads
    <3>3. Leads(longer, i, n + 1)
      <4>1. Priority[current.detector] \in Int /\ Priority[component.detector] \in Int
        BY <1>3, <2>2
      <4>2. i <= n + 1 /\ longer[i] = current
        BY <1>1, <2>3
      <4> QED BY <1>1, <2>11, <4>1, <4>2 DEF Leads
    <3>4. \A j \in 1 .. n + 1 : KeyOfComponent(longer[j]) = key => Leads(longer, i, j)
      BY <1>0, <1>1, <3>2, <3>3
    <3>5. i \in 1 .. n + 1 /\ longer[i] = current /\ KeyOfComponent(longer[i]) = key
      BY <1>1, <2>3
    <3> QED BY <1>0, <1>1, <2>7, <2>9, <3>1, <3>4, <3>5 DEF Tells
  <2> QED BY <2>10, <2>11
<1> QED BY <1>4, <1>5

\* One turn of the loop.
LEMMA CollapseMirrors ==
    ASSUME NEW entries, NEW found \in Seq(Component), NEW component \in Component,
           Mirrors(entries, found)
    PROVE  Mirrors(Collapse(entries, component), Append(found, component))
<1> DEFINE n == Len(found)
           key == KeyOfComponent(component)
           longer == Append(found, component)
           after == Collapse(entries, component)
<1>1. /\ n \in Nat /\ Len(longer) = n + 1 /\ longer[n + 1] = component
      /\ \A i \in 1 .. n : longer[i] = found[i]
      /\ \A i \in 1 .. n + 1 : i \in 1 .. n \/ i = n + 1
    BY AppendProperties, LenProperties
<1>2. CASE key = NoKey
  <2>1. after = entries
    BY <1>2 DEF Collapse
  <2> HIDE DEF after, longer
  <2>2. \A i \in 1 .. n + 1 : KeyOfComponent(longer[i]) # NoKey => i \in 1 .. n
    BY <1>1, <1>2
  <2>3. \A i \in 1 .. n + 1 : KeyOfComponent(longer[i]) # NoKey =>
          /\ KeyOfComponent(longer[i]) \in DOMAIN entries
          /\ Shows(entries[KeyOfComponent(longer[i])], longer[i].version)
    BY <1>1, <2>2 DEF Mirrors
  <2>4. ASSUME NEW k \in DOMAIN entries
        PROVE  k # NoKey /\ \E i \in 1 .. n + 1 :
          /\ longer[i] = entries[k].component /\ KeyOfComponent(longer[i]) = k
          /\ \A j \in 1 .. n + 1 : KeyOfComponent(longer[j]) = k => Leads(longer, i, j)
    <3>1. PICK i \in 1 .. n :
            /\ k # NoKey /\ found[i] = entries[k].component /\ KeyOfComponent(found[i]) = k
            /\ \A j \in 1 .. n : KeyOfComponent(found[j]) = k => Leads(found, i, j)
      BY DEF Mirrors
    <3>2. \A j \in 1 .. n + 1 : KeyOfComponent(longer[j]) = k => Leads(longer, i, j)
      BY <1>1, <2>2, <3>1 DEF Leads
    <3>3. i \in 1 .. n + 1 /\ longer[i] = found[i]
      BY <1>1
    <3> QED BY <3>1, <3>2, <3>3
  <2> HIDE DEF n
  <2>5. Mirrors(entries, longer)
    BY <1>1, <2>3, <2>4 DEF Mirrors
  <2> QED BY <2>1, <2>5 DEF after, longer
<1>3. CASE key # NoKey
  <2>1. after = [k \in DOMAIN entries \cup {key} |->
                    IF k = key THEN Entered(entries, key, component) ELSE entries[k]]
    BY <1>3 DEF Collapse
  <2>2. DOMAIN after = DOMAIN entries \cup {key} /\ IsFiniteSet(DOMAIN after)
    BY <2>1, FS_AddElement DEF Mirrors
  <2>3. after[key] = Entered(entries, key, component)
    BY <2>1
  <2>4. \A k \in DOMAIN entries : k # key => after[k] = entries[k]
    BY <2>1
  <2>12. Tells(after[key], key, longer)
    BY <1>3, <2>3, EntryTells
  <2> HIDE DEF after, key, longer
  <2>5. key = KeyOfComponent(component) /\ longer = Append(found, component)
    BY DEF key, longer
  <2>6. /\ after[key] \in Entry
        /\ \A i \in 1 .. Len(longer) : KeyOfComponent(longer[i]) = key =>
                 Shows(after[key], longer[i].version)
        /\ \E i \in 1 .. Len(longer) :
                 /\ longer[i] = after[key].component /\ KeyOfComponent(longer[i]) = key
                 /\ \A j \in 1 .. Len(longer) :
                       KeyOfComponent(longer[j]) = key => Leads(longer, i, j)
    BY <2>12, <2>5 DEF Tells
  <2>7. after \in [DOMAIN after -> Entry]
    <3>1. \A k \in DOMAIN after : after[k] \in Entry
      BY <2>2, <2>4, <2>6 DEF Mirrors
    <3> QED BY <2>1, <3>1
  <2>8. ASSUME NEW i \in 1 .. n + 1, KeyOfComponent(longer[i]) # NoKey
        PROVE  /\ KeyOfComponent(longer[i]) \in DOMAIN after
               /\ Shows(after[KeyOfComponent(longer[i])], longer[i].version)
    <3>1. CASE KeyOfComponent(longer[i]) = key
      BY <1>1, <2>2, <2>6, <3>1
    <3>2. CASE KeyOfComponent(longer[i]) # key
      <4>1. i \in 1 .. n /\ longer[i] = found[i]
        BY <1>1, <2>5, <3>2
      <4> QED BY <2>2, <2>4, <2>8, <3>2, <4>1 DEF Mirrors
    <3> QED BY <3>1, <3>2
  <2>9. ASSUME NEW k \in DOMAIN after, k # key
        PROVE  k # NoKey /\ \E i \in 1 .. n + 1 :
          /\ longer[i] = after[k].component /\ KeyOfComponent(longer[i]) = k
          /\ \A j \in 1 .. n + 1 : KeyOfComponent(longer[j]) = k => Leads(longer, i, j)
    <3>0. k \in DOMAIN entries /\ after[k] = entries[k]
      BY <2>2, <2>4, <2>9
    <3>1. PICK i \in 1 .. n :
            /\ k # NoKey /\ found[i] = entries[k].component /\ KeyOfComponent(found[i]) = k
            /\ \A j \in 1 .. n : KeyOfComponent(found[j]) = k => Leads(found, i, j)
      BY <3>0 DEF Mirrors
    <3>2. \A j \in 1 .. n + 1 : KeyOfComponent(longer[j]) = k => j \in 1 .. n
      BY <1>1, <2>5, <2>9
    <3>3. \A j \in 1 .. n + 1 : KeyOfComponent(longer[j]) = k => Leads(longer, i, j)
      BY <1>1, <3>1, <3>2 DEF Leads
    <3>4. i \in 1 .. n + 1 /\ longer[i] = found[i]
      BY <1>1
    <3> QED BY <3>0, <3>1, <3>3, <3>4
  <2> HIDE DEF n
  <2>10. \A k \in DOMAIN after : k # NoKey /\ \E i \in 1 .. Len(longer) :
          /\ longer[i] = after[k].component /\ KeyOfComponent(longer[i]) = k
          /\ \A j \in 1 .. Len(longer) : KeyOfComponent(longer[j]) = k => Leads(longer, i, j)
    BY <1>1, <1>3, <2>6, <2>9
  <2>11. Mirrors(after, longer)
    BY <1>1, <2>2, <2>7, <2>8, <2>10 DEF Mirrors
  <2> QED BY <2>11 DEF after, longer
<1> QED BY <1>2, <1>3

\* The entries of an image give its inventory.
LEMMA MergedLists ==
    ASSUME NEW entries, NEW found \in Seq(Component), Mirrors(entries, found)
    PROVE  /\ Merged(entries) \in Seq(Component)
           /\ \A i, j \in DOMAIN Merged(entries) :
                 KeyOfComponent(Merged(entries)[i]) = KeyOfComponent(Merged(entries)[j]) => i = j
           /\ \A key \in DOMAIN entries :
                 /\ KeyOfComponent(entries[key].component) = key
                 /\ \E i \in DOMAIN Merged(entries) : Merged(entries)[i] = entries[key].component
<1> DEFINE keys == SX!SetToSeq(DOMAIN entries)
           n == Cardinality(DOMAIN entries)
           merged == Merged(entries)
<1>1. /\ n \in Nat /\ keys \in [1 .. n -> DOMAIN entries] /\ DOMAIN keys = 1 .. n
      /\ \A i, j \in 1 .. n : keys[i] = keys[j] => i = j
      /\ \A key \in DOMAIN entries : \E i \in 1 .. n : keys[i] = key
    BY ListOfSet DEF Mirrors
<1>2. merged = [i \in DOMAIN keys |-> entries[keys[i]].component]
    BY DEF Merged
<1>3. \A key \in DOMAIN entries :
          KeyOfComponent(entries[key].component) = key /\ entries[key].component \in Component
    BY DEF Mirrors, Entry
<1> HIDE DEF keys, n, merged
<1>4. DOMAIN merged = 1 .. n /\ \A i \in 1 .. n : merged[i] = entries[keys[i]].component
    BY <1>1, <1>2
<1>5. merged \in [1 .. n -> Component]
    BY <1>1, <1>2, <1>3
<1>6. merged \in Seq(Component)
    BY <1>1, <1>5, SeqDef
<1>7. \A i \in 1 .. n : keys[i] \in DOMAIN entries /\ KeyOfComponent(merged[i]) = keys[i]
    BY <1>1, <1>3, <1>4
<1>8. \A i, j \in DOMAIN merged : KeyOfComponent(merged[i]) = KeyOfComponent(merged[j]) => i = j
    BY <1>1, <1>4, <1>7
<1>9. \A key \in DOMAIN entries : \E i \in DOMAIN merged : merged[i] = entries[key].component
    BY <1>1, <1>4
<1> QED BY <1>3, <1>6, <1>8, <1>9 DEF merged

-----------------------------------------------------------------------------
(* The command.                                                             *)

\* What has been merged so far, and what has been compared.
DiffInv ==
    /\ stage \in Side \cup {"compared", "raised"}
    /\ format \in [Side -> {"image", "manifest"}]
    /\ detected \in [Side -> Seq(Component)]
    /\ DOMAIN best = Side
    /\ \A side \in Side : IF format[side] = "image" THEN Mirrors(best[side], detected[side])
                          ELSE best[side] = NoEntry
    /\ stage = "compared" =>
          /\ changes = DiffComponents(Inventory("old"), Inventory("new"))
          /\ persistent = DiffVulnerabilities(MatchComponents(Inventory("old")),
                                              MatchComponents(Inventory("new")))

\* Before the first detection there is nothing.
LEMMA NothingMirrors == Mirrors(NoEntry, <<>>)
<1>1. DOMAIN NoEntry = {} /\ NoEntry \in [DOMAIN NoEntry -> Entry]
    BY DEF NoEntry
<1>2. IsFiniteSet(DOMAIN NoEntry)
    BY <1>1, FS_EmptySet
<1>3. 1 .. Len(<<>>) = {}
    OBVIOUS
<1> HIDE DEF NoEntry
<1> QED BY <1>1, <1>2, <1>3 DEF Mirrors

\* The invariant of the command.
LEMMA DiffInvariant == Spec => []DiffInv
<1>1. Init => DiffInv
  <2> SUFFICES ASSUME Init PROVE DiffInv
    OBVIOUS
  <2>1. <<>> \in Seq(Component)
    OBVIOUS
  <2> QED BY <2>1, NothingMirrors DEF Init, DiffInv, Side
<1>2. ASSUME DiffInv, [Next]_vars PROVE DiffInv'
  <2>1. CASE Detect
    <3>1. PICK component \in Detections :
            /\ stage \in Side
            /\ detected' = [detected EXCEPT ![stage] = Append(@, component)]
            /\ best' = IF format[stage] = "image"
                       THEN [best EXCEPT ![stage] = Collapse(@, component)]
                       ELSE best
            /\ stage' = stage /\ format' = format
      BY <2>1 DEF Detect
    <3>2. component \in Component /\ \A side \in Side : detected[side] \in Seq(Component)
      BY DiffAssumption, <1>2 DEF DiffInv
    <3>3. /\ detected' \in [Side -> Seq(Component)]
          /\ detected'[stage] = Append(detected[stage], component)
          /\ \A side \in Side : side # stage => detected'[side] = detected[side]
      BY <1>2, <3>1, <3>2, AppendProperties DEF DiffInv
    <3>4. /\ DOMAIN best' = Side
          /\ best'[stage] = IF format[stage] = "image" THEN Collapse(best[stage], component)
                            ELSE best[stage]
          /\ \A side \in Side : side # stage => best'[side] = best[side]
      BY <1>2, <3>1 DEF DiffInv
    <3>5. format[stage] = "image" => Mirrors(best'[stage], detected'[stage])
      BY <1>2, <3>1, <3>2, <3>3, <3>4, CollapseMirrors DEF DiffInv
    <3>6. stage' # "compared"
      BY <3>1 DEF Side
    <3>7. ASSUME NEW side \in Side
          PROVE  IF format'[side] = "image" THEN Mirrors(best'[side], detected'[side])
                 ELSE best'[side] = NoEntry
      BY <1>2, <3>1, <3>3, <3>4, <3>5 DEF DiffInv
    <3>8. /\ stage' \in Side \cup {"compared", "raised"}
          /\ format' \in [Side -> {"image", "manifest"}]
      BY <1>2, <3>1 DEF DiffInv
    <3> QED BY <3>3, <3>4, <3>6, <3>7, <3>8 DEF DiffInv
  <2>2. CASE NextFirmware \/ Raise
    <3>1. /\ UNCHANGED <<format, detected, best>>
          /\ stage' \in Side \cup {"compared", "raised"} /\ stage' # "compared"
      BY <2>2 DEF NextFirmware, Raise, Side
    <3> QED BY <1>2, <3>1 DEF DiffInv
  <2>3. CASE Diff
    <3>1. UNCHANGED <<format, detected, best>> /\ stage' = "compared"
      BY <2>3 DEF Diff
    <3>2. Inventory("old")' = Inventory("old") /\ Inventory("new")' = Inventory("new")
      BY <3>1 DEF Inventory
    <3>3. /\ changes' = DiffComponents(Inventory("old"), Inventory("new"))
          /\ persistent' = DiffVulnerabilities(MatchComponents(Inventory("old")),
                                               MatchComponents(Inventory("new")))
      BY <2>3 DEF Diff
    <3> QED BY <1>2, <3>1, <3>2, <3>3 DEF DiffInv
  <2>4. CASE Ended \/ UNCHANGED vars
    <3>1. UNCHANGED <<stage, format, detected, best, changes, persistent>>
      BY <2>4 DEF Ended, vars
    <3>2. Inventory("old")' = Inventory("old") /\ Inventory("new")' = Inventory("new")
      BY <3>1 DEF Inventory
    <3> QED BY <1>2, <3>1, <3>2 DEF DiffInv
  <2> QED BY <1>2, <2>1, <2>2, <2>3, <2>4 DEF Next
<1>3. QED
    BY <1>1, <1>2, PTL DEF Spec

\* The command keeps its types, for any detections.
THEOREM DiffTypeOK == Spec => []TypeOK
<1>1. ASSUME DiffInv PROVE TypeOK
  <2>1. ASSUME NEW side \in Side PROVE best[side] \in [DOMAIN best[side] -> Entry]
    <3>1. NoEntry \in [DOMAIN NoEntry -> Entry]
      BY DEF NoEntry
    <3> QED BY <1>1, <3>1 DEF DiffInv, Mirrors
  <2> QED BY <1>1, <2>1 DEF DiffInv, TypeOK
<1>2. QED
    BY <1>1, DiffInvariant, PTL

\* Merging reports a component once, by the first of its strongest detections, and
\* hides no version that another one saw, for any detections in any order and any
\* priorities (merge_components).
THEOREM DiffDisagreementVisible == Spec => []DisagreementVisible
<1>1. ASSUME DiffInv PROVE DisagreementVisible
  <2> SUFFICES ASSUME NEW side \in Side, format[side] = "image"
               PROVE  LET found == detected[side]
                          merged == Inventory(side)
                          Of(i) == KeyOfComponent(found[i])
                          AsStrong(i, j) ==
                              Priority[found[i].detector] >= Priority[found[j].detector]
                      IN /\ \A i, j \in DOMAIN merged :
                               KeyOfComponent(merged[i]) = KeyOfComponent(merged[j]) => i = j
                         /\ \A i \in DOMAIN found : Of(i) # NoKey =>
                               LET entry == best[side][Of(i)]
                                   rivals == {j \in DOMAIN found : Of(j) = Of(i)}
                               IN /\ \E k \in DOMAIN merged : merged[k] = entry.component
                                  /\ found[i].version # entry.component.version =>
                                        \E c \in entry.conflicts : c.version = found[i].version
                                  /\ (\A j \in rivals : AsStrong(i, j) /\ (AsStrong(j, i) => i <= j))
                                        => entry.component = found[i]
    BY DEF DisagreementVisible
  <2> DEFINE found == detected[side]
             merged == Inventory(side)
             entries == best[side]
             AsStrong(i, j) == Priority[found[i].detector] >= Priority[found[j].detector]
  <2>1. found \in Seq(Component) /\ Mirrors(entries, found) /\ merged = Merged(entries)
    BY <1>1 DEF DiffInv, Inventory
  <2>2. /\ \A i, j \in DOMAIN merged :
              KeyOfComponent(merged[i]) = KeyOfComponent(merged[j]) => i = j
        /\ \A key \in DOMAIN entries : \E i \in DOMAIN merged : merged[i] = entries[key].component
    BY <2>1, MergedLists
  <2>3. DOMAIN found = 1 .. Len(found)
    BY <2>1, LenProperties
  <2> HIDE DEF found, merged, entries
  <2>4. ASSUME NEW i \in 1 .. Len(found), KeyOfComponent(found[i]) # NoKey
        PROVE  LET entry == entries[KeyOfComponent(found[i])]
               IN /\ \E k \in DOMAIN merged : merged[k] = entry.component
                  /\ found[i].version # entry.component.version =>
                        \E c \in entry.conflicts : c.version = found[i].version
                  /\ (\A j \in {j \in 1 .. Len(found) :
                                  KeyOfComponent(found[j]) = KeyOfComponent(found[i])} :
                         AsStrong(i, j) /\ (AsStrong(j, i) => i <= j))
                        => entry.component = found[i]
    <3> DEFINE key == KeyOfComponent(found[i])
               entry == entries[key]
    <3>1. key \in DOMAIN entries /\ Shows(entry, found[i].version)
      BY <2>1, <2>4 DEF Mirrors
    <3>2. PICK w \in 1 .. Len(found) :
             /\ found[w] = entry.component /\ KeyOfComponent(found[w]) = key
             /\ \A j \in 1 .. Len(found) : KeyOfComponent(found[j]) = key => Leads(found, w, j)
      BY <2>1, <3>1 DEF Mirrors
    <3>3. ASSUME AsStrong(i, w) /\ (AsStrong(w, i) => i <= w)
          PROVE  w = i
      <4>1. /\ Priority[found[w].detector] \in Int /\ Priority[found[i].detector] \in Int
        <5>1. found[w] \in Component /\ found[i] \in Component
          BY <2>1, ElementOfSeq
        <5> QED BY <5>1, DiffAssumption DEF Component
      <4>2. Leads(found, w, i)
        BY <3>2
      <4> QED BY <3>3, <4>1, <4>2 DEF Leads
    <3> HIDE DEF AsStrong
    <3> QED BY <2>2, <3>1, <3>2, <3>3 DEF Shows
  <2> QED BY <2>2, <2>3, <2>4 DEF found, merged, entries
<1>2. QED
    BY <1>1, DiffInvariant, PTL

-----------------------------------------------------------------------------
(* Comparing.                                                               *)

\* setdefault has a component for each key.
LEMMA FirstFound ==
    ASSUME NEW components \in Seq(Component)
    PROVE  LET first == FirstByName(components)
           IN /\ DOMAIN first = Keys(components)
              /\ \A key \in Keys(components) :
                    /\ first[key] \in Component /\ KeyOfComponent(first[key]) = key
                    /\ \E i \in DOMAIN components : components[i] = first[key]
<1> DEFINE first == FirstByName(components)
           Found(key, i) == /\ i \in DOMAIN components /\ KeyOfComponent(components[i]) = key
                            /\ \A j \in 1 .. i - 1 : KeyOfComponent(components[j]) # key
<1>1. DOMAIN components = 1 .. Len(components) /\ Len(components) \in Nat
    BY LenProperties
<1>2. ASSUME NEW key \in Keys(components) PROVE \E i \in DOMAIN components : Found(key, i)
  <2> DEFINE Places == {i \in 1 .. Len(components) : KeyOfComponent(components[i]) = key}
  <2>1. Places # {} /\ Places \in SUBSET Nat
    BY <1>1 DEF Keys, SX!ToSet
  <2>2. PICK i \in Places : \A j \in Places : i <= j
    <3> HIDE DEF Places
    <3> QED BY <2>1, FirstPosition
  <2>3. \A j \in 1 .. i - 1 : j \in 1 .. Len(components) /\ ~(i <= j)
    BY <1>1
  <2>4. \A j \in 1 .. i - 1 : KeyOfComponent(components[j]) # key
    BY <2>2, <2>3
  <2> QED BY <1>1, <2>2, <2>4
<1>3. first = [key \in Keys(components) |-> components[CHOOSE i \in DOMAIN components :
                  /\ KeyOfComponent(components[i]) = key
                  /\ \A j \in 1 .. i - 1 : KeyOfComponent(components[j]) # key]]
    BY DEF FirstByName
<1> HIDE DEF first
<1>4. ASSUME NEW key \in Keys(components)
      PROVE  \E i \in DOMAIN components :
                components[i] = first[key] /\ KeyOfComponent(components[i]) = key
    BY <1>2, <1>3
<1>5. \A i \in DOMAIN components : components[i] \in Component
    BY <1>1, ElementOfSeq
<1>6. DOMAIN first = Keys(components)
    BY <1>3
<1> QED BY <1>4, <1>5, <1>6 DEF first

\* Directions: the other way round an upgrade is a downgrade, and nothing else is.
LEMMA DirectionReverses ==
    ASSUME NEW u \in Version, NEW v \in Version
    PROVE  /\ Direction(u, v) = "upgraded" <=> Direction(v, u) = "downgraded"
           /\ Direction(u, v) = "downgraded" <=> Direction(v, u) = "upgraded"
           /\ Direction(u, v) = "unchanged" <=> Direction(v, u) = "unchanged"
           /\ Direction(u, v) = "changed" <=> Direction(v, u) = "changed"
           /\ Direction(u, v) \in {"upgraded", "downgraded", "changed", "unchanged"}
<1>1. <<Compare(u, v), Compare(v, u)>> \in {<<0, 0>>, <<-1, 1>>, <<1, -1>>}
    BY CompareReverses
<1>2. \/ Compare(u, v) = 0 /\ Compare(v, u) = 0
      \/ Compare(u, v) = -1 /\ Compare(v, u) = 1
      \/ Compare(u, v) = 1 /\ Compare(v, u) = -1
    BY <1>1
<1>3. Ordered(u, v) <=> Ordered(v, u)
    BY DEF Ordered
<1> QED BY <1>2, <1>3, Z3 DEF Direction

\* Where a component of either side is listed, and as what.
Place(old, new, key) ==
    IF key \notin DOMAIN old THEN "added"
    ELSE IF key \notin DOMAIN new THEN "removed"
    ELSE Direction(old[key].version, new[key].version)

Change(old, new, key) ==
    [name |-> IF key \in DOMAIN new THEN new[key].name ELSE old[key].name,
     old |-> IF key \in DOMAIN old THEN old[key].version ELSE NoVersion,
     new |-> IF key \in DOMAIN new THEN new[key].version ELSE NoVersion]

Lists == {"added", "removed", "upgraded", "downgraded", "changed", "unchanged"}

\* A list has the changes of the keys that belong there.
LEMMA ListsTell ==
    ASSUME NEW A \in Seq(Component), NEW B \in Seq(Component)
    PROVE  LET old == FirstByName(A)
               new == FirstByName(B)
               diff == DiffComponents(A, B)
           IN /\ DOMAIN diff = Lists
              /\ \A list \in Lists : diff[list] =
                    {Change(old, new, key) :
                        key \in {k \in Keys(A) \cup Keys(B) : Place(old, new, k) = list}}
              /\ \A key \in Keys(A) \cup Keys(B) :
                    /\ Place(old, new, key) \in Lists
                    /\ KeyOf[Change(old, new, key).name] = key
<1> DEFINE old == FirstByName(A)
           new == FirstByName(B)
           diff == DiffComponents(A, B)
<1>1. /\ DOMAIN old = Keys(A)
      /\ \A key \in Keys(A) : old[key] \in Component /\ KeyOfComponent(old[key]) = key
    BY FirstFound
<1>2. /\ DOMAIN new = Keys(B)
      /\ \A key \in Keys(B) : new[key] \in Component /\ KeyOfComponent(new[key]) = key
    BY FirstFound
<1>3. diff = [added |-> {[name |-> new[key].name, old |-> NoVersion, new |-> new[key].version] :
                            key \in DOMAIN new \ DOMAIN old},
              removed |-> {[name |-> old[key].name, old |-> old[key].version, new |-> NoVersion] :
                            key \in DOMAIN old \ DOMAIN new},
              upgraded |-> Both(old, new, "upgraded"),
              downgraded |-> Both(old, new, "downgraded"),
              changed |-> Both(old, new, "changed"),
              unchanged |-> Both(old, new, "unchanged")]
    BY DEF DiffComponents
<1> HIDE DEF old, new, diff
<1>4. ASSUME NEW key \in Keys(A) \cap Keys(B)
      PROVE  /\ Direction(old[key].version, new[key].version)
                    \in {"upgraded", "downgraded", "changed", "unchanged"}
             /\ Place(old, new, key) = Direction(old[key].version, new[key].version)
             /\ Change(old, new, key) = [name |-> new[key].name, old |-> old[key].version,
                                         new |-> new[key].version]
  <2>1. old[key].version \in Version /\ new[key].version \in Version
    BY <1>1, <1>2 DEF Component
  <2> QED BY <1>1, <1>2, <2>1, DirectionReverses DEF Place, Change
<1>5. ASSUME NEW key \in Keys(B) \ Keys(A)
      PROVE  /\ Place(old, new, key) = "added"
             /\ Change(old, new, key) = [name |-> new[key].name, old |-> NoVersion,
                                         new |-> new[key].version]
    BY <1>1, <1>2 DEF Place, Change
<1>6. ASSUME NEW key \in Keys(A) \ Keys(B)
      PROVE  /\ Place(old, new, key) = "removed"
             /\ Change(old, new, key) = [name |-> old[key].name, old |-> old[key].version,
                                         new |-> NoVersion]
    BY <1>1, <1>2 DEF Place, Change
<1> DEFINE Listed(list) == {Change(old, new, key) :
                              key \in {k \in Keys(A) \cup Keys(B) : Place(old, new, k) = list}}
<1>7. ASSUME NEW d \in {"upgraded", "downgraded", "changed", "unchanged"}
      PROVE  Both(old, new, d) = Listed(d)
  <2>1. \A k \in Keys(A) \cup Keys(B) : Place(old, new, k) = d <=>
            /\ k \in Keys(A) \cap Keys(B)
            /\ Direction(old[k].version, new[k].version) = d
    BY <1>4, <1>5, <1>6
  <2>2. Both(old, new, d)
          = {[name |-> new[key].name, old |-> old[key].version, new |-> new[key].version] :
                key \in {k \in Keys(A) \cap Keys(B) :
                           Direction(old[k].version, new[k].version) = d}}
    BY <1>1, <1>2 DEF Both
  <2> QED BY <1>4, <2>1, <2>2
<1>8. {[name |-> new[key].name, old |-> NoVersion, new |-> new[key].version] :
          key \in DOMAIN new \ DOMAIN old} = Listed("added")
  <2>1. \A k \in Keys(A) \cup Keys(B) : Place(old, new, k) = "added" <=> k \in Keys(B) \ Keys(A)
    BY <1>4, <1>5, <1>6
  <2> QED BY <1>1, <1>2, <1>5, <2>1
<1>9. {[name |-> old[key].name, old |-> old[key].version, new |-> NoVersion] :
          key \in DOMAIN old \ DOMAIN new} = Listed("removed")
  <2>1. \A k \in Keys(A) \cup Keys(B) : Place(old, new, k) = "removed" <=> k \in Keys(A) \ Keys(B)
    BY <1>4, <1>5, <1>6
  <2> QED BY <1>1, <1>2, <1>6, <2>1
<1>10. DOMAIN diff = Lists /\ \A list \in Lists : diff[list] = Listed(list)
  <2> HIDE DEF Listed
  <2>1. diff = [added |-> Listed("added"), removed |-> Listed("removed"),
                upgraded |-> Listed("upgraded"), downgraded |-> Listed("downgraded"),
                changed |-> Listed("changed"), unchanged |-> Listed("unchanged")]
    BY <1>3, <1>7, <1>8, <1>9
  <2> QED BY <2>1 DEF Lists
<1>11. ASSUME NEW key \in Keys(A) \cup Keys(B)
       PROVE  Place(old, new, key) \in Lists /\ KeyOf[Change(old, new, key).name] = key
  <2>1. CASE key \in Keys(A) \cap Keys(B)
    BY <1>2, <1>4, <2>1 DEF Lists, KeyOfComponent
  <2>2. CASE key \in Keys(B) \ Keys(A)
    BY <1>2, <1>5, <2>2 DEF Lists, KeyOfComponent
  <2>3. CASE key \in Keys(A) \ Keys(B)
    BY <1>1, <1>6, <2>3 DEF Lists, KeyOfComponent
  <2> QED BY <2>1, <2>2, <2>3
<1> QED BY <1>10, <1>11 DEF old, new, diff

\* A list one way is a list the other way, if its keys have that place there.
LEMMA ListTurns ==
    ASSUME NEW A \in Seq(Component), NEW B \in Seq(Component), NEW there \in Lists, NEW back \in Lists,
           \A key \in Keys(A) \cup Keys(B) :
              Place(FirstByName(A), FirstByName(B), key) = there
                 <=> Place(FirstByName(B), FirstByName(A), key) = back
    PROVE  Sides(DiffComponents(A, B)[there]) = Turned(DiffComponents(B, A)[back])
<1> DEFINE old == FirstByName(A)
           new == FirstByName(B)
           keys == {k \in Keys(A) \cup Keys(B) : Place(old, new, k) = there}
<1>1. DiffComponents(A, B)[there] = {Change(old, new, key) : key \in keys}
    BY ListsTell
<1>2. keys = {k \in Keys(B) \cup Keys(A) : Place(new, old, k) = back}
    OBVIOUS
<1>3. DiffComponents(B, A)[back] = {Change(new, old, key) : key \in keys}
  <2>1. DiffComponents(B, A)[back] = {Change(new, old, key) :
            key \in {k \in Keys(B) \cup Keys(A) : Place(new, old, k) = back}}
    BY ListsTell
  <2> QED BY ONLY <1>2, <2>1
<1>4. \A key \in keys : KeyOf[Change(old, new, key).name] = key
    BY ListsTell
<1>5. \A key \in keys : KeyOf[Change(new, old, key).name] = key
    BY ListsTell
<1> HIDE DEF old, new, keys
<1>6. \A key : Change(old, new, key).old = Change(new, old, key).new
               /\ Change(old, new, key).new = Change(new, old, key).old
    BY DEF Change
<1>7. Sides(DiffComponents(A, B)[there])
         = {<<key, Change(old, new, key).old, Change(old, new, key).new>> : key \in keys}
    BY <1>1, <1>4 DEF Sides
<1>8. Turned(DiffComponents(B, A)[back])
         = {<<key, Change(new, old, key).new, Change(new, old, key).old>> : key \in keys}
    BY <1>3, <1>5 DEF Turned
<1> QED BY <1>6, <1>7, <1>8

\* Comparing the other way round turns every change round, and every component is in
\* one of the lists, once, for any two inventories, images or manifests
\* (diff_components).
THEOREM DiffTurns ==
    ASSUME NEW A \in Seq(Component), NEW B \in Seq(Component)
    PROVE  LET there == DiffComponents(A, B)
               back == DiffComponents(B, A)
           IN /\ Sides(there.upgraded) = Turned(back.downgraded)
              /\ Sides(there.downgraded) = Turned(back.upgraded)
              /\ Sides(there.added) = Turned(back.removed)
              /\ Sides(there.changed) = Turned(back.changed)
              /\ \A key \in Keys(A) \cup Keys(B) :
                    Cardinality({entry \in UNION {{l} \X there[l] : l \in DOMAIN there} :
                                    KeyOf[entry[2].name] = key}) = 1
<1> DEFINE old == FirstByName(A)
           new == FirstByName(B)
           there == DiffComponents(A, B)
           back == DiffComponents(B, A)
<1>1. /\ DOMAIN old = Keys(A) /\ DOMAIN new = Keys(B)
      /\ \A key \in Keys(A) : old[key] \in Component
      /\ \A key \in Keys(B) : new[key] \in Component
    BY FirstFound
<1>2. ASSUME NEW key \in Keys(A) \cup Keys(B)
      PROVE  /\ Place(old, new, key) = "upgraded" <=> Place(new, old, key) = "downgraded"
             /\ Place(old, new, key) = "downgraded" <=> Place(new, old, key) = "upgraded"
             /\ Place(old, new, key) = "added" <=> Place(new, old, key) = "removed"
             /\ Place(old, new, key) = "changed" <=> Place(new, old, key) = "changed"
  <2> HIDE DEF old, new
  <2>1. CASE key \in Keys(A) \cap Keys(B)
    <3>1. old[key].version \in Version /\ new[key].version \in Version
      BY <1>1, <2>1 DEF Component
    <3>2. /\ Place(old, new, key) = Direction(old[key].version, new[key].version)
          /\ Place(new, old, key) = Direction(new[key].version, old[key].version)
      BY <1>1, <2>1 DEF Place
    <3>3. /\ Direction(old[key].version, new[key].version)
                \in {"upgraded", "downgraded", "changed", "unchanged"}
          /\ Direction(new[key].version, old[key].version)
                \in {"upgraded", "downgraded", "changed", "unchanged"}
      BY <3>1, DirectionReverses
    <3> QED BY <3>1, <3>2, <3>3, DirectionReverses
  <2>2. CASE key \in Keys(B) \ Keys(A)
    BY <1>1, <2>2 DEF Place
  <2>3. CASE key \in Keys(A) \ Keys(B)
    BY <1>1, <2>3 DEF Place
  <2> QED BY <2>1, <2>2, <2>3
<1>3. /\ Sides(there["upgraded"]) = Turned(back["downgraded"])
      /\ Sides(there["downgraded"]) = Turned(back["upgraded"])
      /\ Sides(there["added"]) = Turned(back["removed"])
      /\ Sides(there["changed"]) = Turned(back["changed"])
  <2>1. Sides(there["upgraded"]) = Turned(back["downgraded"])
    BY <1>2, ListTurns DEF Lists
  <2>2. Sides(there["downgraded"]) = Turned(back["upgraded"])
    BY <1>2, ListTurns DEF Lists
  <2>3. Sides(there["added"]) = Turned(back["removed"])
    BY <1>2, ListTurns DEF Lists
  <2>4. Sides(there["changed"]) = Turned(back["changed"])
    BY <1>2, ListTurns DEF Lists
  <2> QED BY <2>1, <2>2, <2>3, <2>4
<1>4. ASSUME NEW key \in Keys(A) \cup Keys(B)
      PROVE  Cardinality({entry \in UNION {{l} \X there[l] : l \in DOMAIN there} :
                              KeyOf[entry[2].name] = key}) = 1
  <2> DEFINE all == UNION {{l} \X there[l] : l \in DOMAIN there}
             place == Place(old, new, key)
             own == <<place, Change(old, new, key)>>
  <2>1. /\ DOMAIN there = Lists
        /\ \A list \in Lists : there[list] =
              {Change(old, new, k) : k \in {k \in Keys(A) \cup Keys(B) : Place(old, new, k) = list}}
        /\ \A k \in Keys(A) \cup Keys(B) :
              Place(old, new, k) \in Lists /\ KeyOf[Change(old, new, k).name] = k
    BY ListsTell
  <2> HIDE DEF there, old, new
  <2>2. own \in all /\ KeyOf[own[2].name] = key
    BY <2>1
  <2>3. ASSUME NEW entry \in all, KeyOf[entry[2].name] = key PROVE entry = own
    <3>1. PICK l \in Lists : entry \in {l} \X there[l]
      BY <2>1, <2>3
    <3>2. PICK k \in Keys(A) \cup Keys(B) :
              Place(old, new, k) = l /\ entry = <<l, Change(old, new, k)>>
      BY <2>1, <3>1
    <3>3. k = key
      BY <2>1, <2>3, <3>2
    <3> QED BY <3>2, <3>3
  <2> HIDE DEF all, own
  <2>4. {entry \in all : KeyOf[entry[2].name] = key} = {own}
    BY <2>2, <2>3
  <2>5. Cardinality({own}) = 1
    BY FS_Singleton
  <2> QED BY <2>4, <2>5 DEF all
<1> QED BY <1>3, <1>4

\* The inventories of the command.
LEMMA InventoryLists ==
    ASSUME DiffInv, NEW side \in Side
    PROVE  /\ Inventory(side) \in Seq(Component)
           /\ format[side] = "image" =>
                 \A i, j \in DOMAIN Inventory(side) :
                    KeyOfComponent(Inventory(side)[i]) = KeyOfComponent(Inventory(side)[j]) => i = j
<1>1. detected[side] \in Seq(Component)
    BY DEF DiffInv
<1>2. CASE format[side] = "image"
  <2>1. Mirrors(best[side], detected[side]) /\ Inventory(side) = Merged(best[side])
    BY <1>2 DEF DiffInv, Inventory
  <2> QED BY <1>1, <2>1, MergedLists
<1>3. CASE format[side] # "image"
    BY <1>1, <1>3 DEF Inventory
<1> QED BY <1>2, <1>3

\* The comparison the command reports reverses, whatever was detected and listed.
THEOREM DiffCommandReverses == Spec => []DiffReverses
<1>1. ASSUME DiffInv PROVE DiffReverses
  <2> SUFFICES ASSUME stage = "compared" PROVE DiffReverses
    BY DEF DiffReverses
  <2> DEFINE A == Inventory("old")
             B == Inventory("new")
  <2>1. A \in Seq(Component) /\ B \in Seq(Component)
    BY <1>1, InventoryLists DEF Side
  <2>2. changes = DiffComponents(A, B)
    BY <1>1 DEF DiffInv
  <2> HIDE DEF A, B
  <2>3. LET back == DiffComponents(B, A)
        IN /\ Sides(changes.upgraded) = Turned(back.downgraded)
           /\ Sides(changes.downgraded) = Turned(back.upgraded)
           /\ Sides(changes.added) = Turned(back.removed)
           /\ Sides(changes.changed) = Turned(back.changed)
           /\ \A key \in Keys(A) \cup Keys(B) :
                 Cardinality({entry \in UNION {{l} \X changes[l] : l \in DOMAIN changes} :
                                 KeyOf[entry[2].name] = key}) = 1
    <3>1. LET there == DiffComponents(A, B)
              back == DiffComponents(B, A)
          IN /\ Sides(there.upgraded) = Turned(back.downgraded)
             /\ Sides(there.downgraded) = Turned(back.upgraded)
             /\ Sides(there.added) = Turned(back.removed)
             /\ Sides(there.changed) = Turned(back.changed)
             /\ \A key \in Keys(A) \cup Keys(B) :
                   Cardinality({entry \in UNION {{l} \X there[l] : l \in DOMAIN there} :
                                   KeyOf[entry[2].name] = key}) = 1
      BY ONLY <2>1, DiffTurns
    <3> QED BY ONLY <2>2, <3>1
  <2> QED BY ONLY <2>3 DEF DiffReverses, A, B
<1>2. QED
    BY <1>1, DiffInvariant, PTL

-----------------------------------------------------------------------------
(* The CVEs that match in both.                                             *)

\* The matches are the components with CVEs, by induction over the components.
LEMMA MatchesTell ==
    ASSUME NEW components \in Seq(Component)
    PROVE  LET matches == MatchComponents(components)
           IN /\ matches \in Seq(Component)
              /\ SX!ToSet(matches) = {c \in SX!ToSet(components) : CvesOf(c) # {}}
<1> DEFINE n == Len(components)
           matches[i \in 0 .. n] == IF i = 0 THEN <<>> ELSE Match(matches[i - 1], components[i])
           Before(i) == {components[j] : j \in 1 .. i}
           S == {i \in 0 .. n : /\ matches[i] \in Seq(Component)
                                /\ SX!ToSet(matches[i]) = {c \in Before(i) : CvesOf(c) # {}}}
<1>1. n \in Nat /\ DOMAIN components = 1 .. n /\ \A i \in 1 .. n : components[i] \in Component
    BY LenProperties, ElementOfSeq
<1>2. matches = [i \in 0 .. n |-> IF i = 0 THEN <<>> ELSE Match(matches[i - 1], components[i])]
  <2>1. FiniteNatInductiveDefHypothesis(matches, <<>>, LAMBDA v, i : Match(v, components[i]), 0, n)
    BY DEF FiniteNatInductiveDefHypothesis
  <2>2. FiniteNatInductiveDefConclusion(matches, <<>>, LAMBDA v, i : Match(v, components[i]), 0, n)
    BY ONLY <1>1, <2>1, FiniteNatInductiveDef, 0 \in Nat
  <2> QED BY ONLY <2>2 DEF FiniteNatInductiveDefConclusion
<1>3. MatchComponents(components) = matches[n]
    BY DEF MatchComponents
<1> HIDE DEF matches, n
<1>4. 0 \in S
  <2>1. matches[0] = <<>> /\ 0 \in 0 .. n
    BY <1>1, <1>2
  <2>2. <<>> \in Seq(Component) /\ SX!ToSet(<<>>) = {} /\ Before(0) = {}
    BY DEF SX!ToSet
  <2> QED BY <2>1, <2>2
<1>5. ASSUME NEW i \in 1 .. n, i - 1 \in S PROVE i \in S
  <2>1. matches[i] = Match(matches[i - 1], components[i]) /\ i \in 0 .. n
    BY <1>1, <1>2
  <2>2. /\ matches[i - 1] \in Seq(Component)
        /\ SX!ToSet(matches[i - 1]) = {c \in Before(i - 1) : CvesOf(c) # {}}
    BY <1>5
  <2>3. Before(i) = Before(i - 1) \cup {components[i]}
    <3>1. \A j : j \in 1 .. i <=> j \in 1 .. i - 1 \/ j = i
      BY <1>1
    <3> QED BY <3>1
  <2>4. components[i] \in Component
    BY <1>1
  <2> HIDE DEF Before
  <2>5. CASE CvesOf(components[i]) = {}
    BY <2>1, <2>2, <2>3, <2>5 DEF Match
  <2>6. CASE CvesOf(components[i]) # {}
    <3>1. matches[i] = Append(matches[i - 1], components[i])
      BY <2>1, <2>6 DEF Match
    <3>2. /\ matches[i] \in Seq(Component)
          /\ SX!ToSet(matches[i]) = SX!ToSet(matches[i - 1]) \cup {components[i]}
      <4> DEFINE s == matches[i - 1]
                 c == components[i]
      <4>1. s \in Seq(Component) /\ c \in Component /\ matches[i] = Append(s, c)
        BY <2>2, <2>4, <3>1
      <4> HIDE DEF s, c
      <4>2. /\ Append(s, c) \in Seq(Component) /\ Len(Append(s, c)) = Len(s) + 1
            /\ \A j \in 1 .. Len(s) : Append(s, c)[j] = s[j]
            /\ Append(s, c)[Len(s) + 1] = c
        BY <4>1, AppendProperties
      <4>3. Len(s) \in Nat /\ DOMAIN s = 1 .. Len(s) /\ DOMAIN Append(s, c) = 1 .. Len(s) + 1
        BY <4>1, <4>2, LenProperties
      <4>4. \A j : j \in 1 .. Len(s) + 1 <=> j \in 1 .. Len(s) \/ j = Len(s) + 1
        BY <4>3
      <4>5. SX!ToSet(Append(s, c)) = SX!ToSet(s) \cup {c}
        BY <4>2, <4>3, <4>4 DEF SX!ToSet
      <4> QED BY <4>1, <4>2, <4>5 DEF s, c
    <3> QED BY <2>1, <2>2, <2>3, <2>6, <3>2
  <2> QED BY <2>5, <2>6
<1>6. n \in S
  <2> HIDE DEF S
  <2> QED BY <1>1, <1>4, <1>5, UpToInduction
<1>7. Before(n) = SX!ToSet(components)
    BY <1>1 DEF SX!ToSet
<1> HIDE DEF Before
<1> QED BY <1>3, <1>6, <1>7

\* In an inventory that lists a name once, the last match of a name is its component.
LEMMA LastFound ==
    ASSUME NEW A \in Seq(Component),
           \A i, j \in DOMAIN A : KeyOfComponent(A[i]) = KeyOfComponent(A[j]) => i = j
    PROVE  LET last == LastByName(MatchComponents(A))
               first == FirstByName(A)
           IN /\ DOMAIN last = {key \in Keys(A) : CvesOf(first[key]) # {}}
              /\ \A key \in DOMAIN last : last[key] = first[key]
<1> DEFINE m == MatchComponents(A)
           last == LastByName(m)
           first == FirstByName(A)
<1>1. m \in Seq(Component) /\ SX!ToSet(m) = {c \in SX!ToSet(A) : CvesOf(c) # {}}
    BY MatchesTell
<1>2. /\ \A key \in Keys(A) : first[key] \in SX!ToSet(A) /\ KeyOfComponent(first[key]) = key
      /\ \A c \in SX!ToSet(A) : KeyOfComponent(c) \in Keys(A)
  <2>1. \A key \in Keys(A) : first[key] \in SX!ToSet(A)
    <3> SUFFICES ASSUME NEW key \in Keys(A) PROVE first[key] \in SX!ToSet(A)
      OBVIOUS
    <3>1. PICK i \in DOMAIN A : A[i] = first[key]
      BY FirstFound
    <3> HIDE DEF first
    <3> QED BY <3>1 DEF SX!ToSet
  <2>2. \A key \in Keys(A) : KeyOfComponent(first[key]) = key
    BY FirstFound
  <2> HIDE DEF first
  <2> QED BY <2>1, <2>2 DEF Keys
<1>3. \A c, d \in SX!ToSet(A) : KeyOfComponent(c) = KeyOfComponent(d) => c = d
    BY DEF SX!ToSet
<1> HIDE DEF m, first
<1>4. Len(m) \in Nat /\ DOMAIN m = 1 .. Len(m)
    BY <1>1, LenProperties
<1> DEFINE Found(key, i) == /\ i \in DOMAIN m /\ MatchKey(m[i]) = key
                            /\ \A j \in i + 1 .. Len(m) : MatchKey(m[j]) # key
<1>5. DOMAIN last = {MatchKey(c) : c \in SX!ToSet(m)}
    BY DEF LastByName
<1>6. ASSUME NEW key \in DOMAIN last PROVE \E i \in DOMAIN m : Found(key, i)
  <2> DEFINE FromEnd == {k \in 0 .. Len(m) : k < Len(m) /\ MatchKey(m[Len(m) - k]) = key}
  <2>1. PICK i \in 1 .. Len(m) : MatchKey(m[i]) = key
    BY <1>4, <1>5 DEF SX!ToSet
  <2>2. Len(m) - i \in FromEnd
    BY <1>4, <2>1
  <2>3. PICK k \in FromEnd : \A l \in FromEnd : k <= l
    <3>1. FromEnd # {} /\ FromEnd \in SUBSET Nat
      BY <1>4, <2>2
    <3> HIDE DEF FromEnd
    <3> QED BY <3>1, FirstPosition
  <2>4. \A j \in (Len(m) - k) + 1 .. Len(m) : MatchKey(m[j]) # key
    <3> SUFFICES ASSUME NEW j \in (Len(m) - k) + 1 .. Len(m), MatchKey(m[j]) = key PROVE FALSE
      OBVIOUS
    <3>1. Len(m) - j \in 0 .. Len(m) /\ Len(m) - j < Len(m) /\ Len(m) - (Len(m) - j) = j
      BY <1>4, <2>3
    <3>2. Len(m) - j \in FromEnd
      BY <3>1
    <3>3. k <= Len(m) - j
      BY <2>3, <3>2
    <3> QED BY <1>4, <2>3, <3>3
  <2>5. Len(m) - k \in DOMAIN m /\ MatchKey(m[Len(m) - k]) = key
    BY <1>4, <2>3
  <2> QED BY <2>4, <2>5
<1>7. ASSUME NEW key \in DOMAIN last
      PROVE  last[key] \in SX!ToSet(m) /\ MatchKey(last[key]) = key
  <2>1. last[key] = m[CHOOSE i \in DOMAIN m : Found(key, i)]
    BY <1>5 DEF LastByName
  <2>2. PICK i \in DOMAIN m : i = (CHOOSE j \in DOMAIN m : Found(key, j)) /\ Found(key, i)
    <3> HIDE DEF Found
    <3> QED BY <1>6
  <2>3. last[key] = m[i] /\ MatchKey(m[i]) = key
    BY <2>1, <2>2
  <2> HIDE DEF last
  <2> QED BY <2>3 DEF SX!ToSet
<1> HIDE DEF last
<1>8. ASSUME NEW key \in DOMAIN last PROVE last[key] = first[key] /\ key \in Keys(A)
    BY <1>1, <1>2, <1>3, <1>7 DEF MatchKey
<1>9. DOMAIN last = {key \in Keys(A) : CvesOf(first[key]) # {}}
  <2>1. \A key \in DOMAIN last : CvesOf(first[key]) # {}
    BY <1>1, <1>7, <1>8
  <2>2. \A key \in Keys(A) : CvesOf(first[key]) # {} => key \in DOMAIN last
    BY <1>1, <1>2, <1>5 DEF MatchKey
  <2> QED BY <1>8, <2>1, <2>2
<1> QED BY <1>8, <1>9 DEF last, first, m

\* The two halves of a comparison agree, for inventories that list a name once.
THEOREM PersistentIsKept ==
    ASSUME NEW A \in Seq(Component), NEW B \in Seq(Component),
           \A i, j \in DOMAIN A : KeyOfComponent(A[i]) = KeyOfComponent(A[j]) => i = j,
           \A i, j \in DOMAIN B : KeyOfComponent(B[i]) = KeyOfComponent(B[j]) => i = j
    PROVE  LET diff == DiffComponents(A, B)
               kept == diff.upgraded \cup diff.downgraded \cup diff.changed \cup diff.unchanged
           IN DiffVulnerabilities(MatchComponents(A), MatchComponents(B)) =
                UNION {{[name |-> c.name, cve |-> cve, old |-> c.old, new |-> c.new] :
                           cve \in Vulnerable(KeyOf[c.name], c.old)
                                   \cap Vulnerable(KeyOf[c.name], c.new)} : c \in kept}
<1> DEFINE old == FirstByName(A)
           new == FirstByName(B)
           diff == DiffComponents(A, B)
           kept == diff.upgraded \cup diff.downgraded \cup diff.changed \cup diff.unchanged
           both == Keys(A) \cap Keys(B)
           Of(key) == {[name |-> new[key].name, cve |-> cve,
                        old |-> old[key].version, new |-> new[key].version] :
                          cve \in CvesOf(old[key]) \cap CvesOf(new[key])}
           Told(c) == {[name |-> c.name, cve |-> cve, old |-> c.old, new |-> c.new] :
                          cve \in Vulnerable(KeyOf[c.name], c.old)
                                  \cap Vulnerable(KeyOf[c.name], c.new)}
<1>1. /\ DOMAIN old = Keys(A) /\ DOMAIN new = Keys(B)
      /\ \A key \in Keys(A) : old[key] \in Component /\ KeyOfComponent(old[key]) = key
      /\ \A key \in Keys(B) : new[key] \in Component /\ KeyOfComponent(new[key]) = key
    BY FirstFound
<1>2. DiffVulnerabilities(MatchComponents(A), MatchComponents(B)) = UNION {Of(key) : key \in both}
  <2> DEFINE lastOld == LastByName(MatchComponents(A))
             lastNew == LastByName(MatchComponents(B))
             matched == DOMAIN lastOld \cap DOMAIN lastNew
  <2>1. /\ DOMAIN lastOld = {key \in Keys(A) : CvesOf(old[key]) # {}}
        /\ \A key \in DOMAIN lastOld : lastOld[key] = old[key]
    BY LastFound
  <2>2. /\ DOMAIN lastNew = {key \in Keys(B) : CvesOf(new[key]) # {}}
        /\ \A key \in DOMAIN lastNew : lastNew[key] = new[key]
    BY LastFound
  <2>3. DiffVulnerabilities(MatchComponents(A), MatchComponents(B)) =
          UNION {{[name |-> lastNew[key].name, cve |-> cve,
                   old |-> lastOld[key].version, new |-> lastNew[key].version] :
                      cve \in CvesOf(lastOld[key]) \cap CvesOf(lastNew[key])} : key \in matched}
    BY DEF DiffVulnerabilities
  <2> HIDE DEF old, new, lastOld, lastNew
  <2>4. \A key \in matched :
          {[name |-> lastNew[key].name, cve |-> cve,
            old |-> lastOld[key].version, new |-> lastNew[key].version] :
               cve \in CvesOf(lastOld[key]) \cap CvesOf(lastNew[key])} = Of(key)
    <3> SUFFICES ASSUME NEW key \in matched
                 PROVE {[name |-> lastNew[key].name, cve |-> cve,
                         old |-> lastOld[key].version, new |-> lastNew[key].version] :
                           cve \in CvesOf(lastOld[key]) \cap CvesOf(lastNew[key])} = Of(key)
      OBVIOUS
    <3>1. lastOld[key] = old[key] /\ lastNew[key] = new[key]
      BY <2>1, <2>2
    <3> QED BY ONLY <3>1
  <2>5. matched \subseteq both /\ \A key \in both \ matched : Of(key) = {}
    <3>1. \A key \in both \ matched : CvesOf(old[key]) = {} \/ CvesOf(new[key]) = {}
      BY <2>1, <2>2
    <3> QED BY <2>1, <2>2, <3>1
  <2> HIDE DEF matched, both, Of
  <2>6. DiffVulnerabilities(MatchComponents(A), MatchComponents(B)) = UNION {Of(key) : key \in matched}
    BY <2>3, <2>4
  <2> QED BY <2>5, <2>6
<1>3. kept = {Change(old, new, key) : key \in both}
  <2>1. /\ \A list \in Lists : diff[list] =
              {Change(old, new, key) :
                  key \in {k \in Keys(A) \cup Keys(B) : Place(old, new, k) = list}}
        /\ \A key \in Keys(A) \cup Keys(B) : Place(old, new, key) \in Lists
    BY ListsTell
  <2> HIDE DEF diff, old, new
  <2>2. \A key \in Keys(A) \cup Keys(B) :
           key \in both <=> Place(old, new, key)
                               \in {"upgraded", "downgraded", "changed", "unchanged"}
    <3>1. ASSUME NEW key \in both
          PROVE  Place(old, new, key) \in {"upgraded", "downgraded", "changed", "unchanged"}
      <4>1. old[key].version \in Version /\ new[key].version \in Version
        BY <1>1 DEF Component
      <4> QED BY <1>1, <4>1, DirectionReverses DEF Place
    <3>2. \A key \in (Keys(A) \cup Keys(B)) \ both : Place(old, new, key) \in {"added", "removed"}
      BY <1>1 DEF Place
    <3> QED BY <3>1, <3>2
  <2>3. {"upgraded", "downgraded", "changed", "unchanged"} \subseteq Lists
    BY DEF Lists
  <2>4. kept = UNION {diff[list] : list \in {"upgraded", "downgraded", "changed", "unchanged"}}
    OBVIOUS
  <2> HIDE DEF kept
  <2> QED BY <2>1, <2>2, <2>3, <2>4
<1>4. ASSUME NEW key \in both PROVE Told(Change(old, new, key)) = Of(key)
  <2> HIDE DEF old, new
  <2>1. Change(old, new, key) = [name |-> new[key].name, old |-> old[key].version,
                                 new |-> new[key].version]
    BY <1>1 DEF Change
  <2>2. KeyOf[new[key].name] = key /\ KeyOf[old[key].name] = key
    BY <1>1 DEF KeyOfComponent
  <2>3. CvesOf(old[key]) = Vulnerable(key, old[key].version)
        /\ CvesOf(new[key]) = Vulnerable(key, new[key].version)
    BY <2>2 DEF CvesOf, KeyOfComponent
  <2> QED BY <2>1, <2>2, <2>3
<1>5. UNION {Told(c) : c \in kept} = UNION {Of(key) : key \in both}
  <2> HIDE DEF Told, Of, both, old, new, kept
  <2> QED BY <1>3, <1>4
<1> QED BY <1>2, <1>5

\* A CVE that the command reports as persistent is one that both versions of a listed
\* change have, whatever was detected in the two images.
THEOREM DiffPersistent == Spec => []PersistentMatchesDiff
<1>1. ASSUME DiffInv PROVE PersistentMatchesDiff
  <2> SUFFICES ASSUME stage = "compared", \A side \in Side : format[side] = "image"
               PROVE  PersistentMatchesDiff
    BY DEF PersistentMatchesDiff
  <2> DEFINE A == Inventory("old")
             B == Inventory("new")
  <2>1. /\ A \in Seq(Component) /\ B \in Seq(Component)
        /\ \A i, j \in DOMAIN A : KeyOfComponent(A[i]) = KeyOfComponent(A[j]) => i = j
        /\ \A i, j \in DOMAIN B : KeyOfComponent(B[i]) = KeyOfComponent(B[j]) => i = j
    BY <1>1, InventoryLists DEF Side
  <2>2. /\ changes = DiffComponents(A, B)
        /\ persistent = DiffVulnerabilities(MatchComponents(A), MatchComponents(B))
    BY <1>1 DEF DiffInv
  <2> HIDE DEF A, B
  <2>3. LET diff == DiffComponents(A, B)
            kept == diff.upgraded \cup diff.downgraded \cup diff.changed \cup diff.unchanged
        IN DiffVulnerabilities(MatchComponents(A), MatchComponents(B)) =
             UNION {{[name |-> c.name, cve |-> cve, old |-> c.old, new |-> c.new] :
                        cve \in Vulnerable(KeyOf[c.name], c.old)
                                \cap Vulnerable(KeyOf[c.name], c.new)} : c \in kept}
    BY ONLY <2>1, PersistentIsKept
  <2> QED BY ONLY <2>2, <2>3 DEF PersistentMatchesDiff
<1>2. QED
    BY <1>1, DiffInvariant, PTL

-----------------------------------------------------------------------------
(* The search for root filesystems.                                         *)

Below(dir, other) == Within(dir, other) /\ dir # other

Queued == {queue[i].dir : i \in DOMAIN queue}
Found == {candidates[i] : i \in DOMAIN candidates}

Item == [dir : tree.dirs, depth : 0 .. MaxDepth]

SearchTypeOK ==
    /\ tree \in Trees
    /\ candidates \in Seq(tree.dirs) /\ Len(candidates) <= MaxCandidates
    /\ queue \in Seq(Item)
    /\ children \subseteq tree.dirs /\ (children # {} => ~Full)
    /\ depth \in 0 .. MaxDepth

\* The queue is in the order of depth, and spans the level at hand and the next.
Levels ==
    /\ \A i \in DOMAIN queue :
          /\ queue[i].depth = Len(queue[i].dir)
          /\ depth <= queue[i].depth /\ queue[i].depth <= depth + 1
          /\ \A j \in DOMAIN queue : i <= j => queue[i].depth <= queue[j].depth
    /\ \A child \in children : Len(child) = depth + 1 /\ depth < MaxDepth

\* What is queued, at hand or found can be reached; what is queued is no root filesystem.
Reached ==
    /\ \A dir \in Queued \cup children : Open(dir)
    /\ \A dir \in Queued : dir \in tree.like => dir = Root
    /\ Found \subseteq Eligible

\* Nothing is reached twice: nothing below a directory that is queued, nor at or below
\* one at hand, has been reached.
Once ==
    /\ \A i, j \in DOMAIN queue : queue[i].dir = queue[j].dir => i = j
    /\ \A i, j \in DOMAIN candidates : candidates[i] = candidates[j] => i = j
    /\ \A dir \in Queued : \A other \in Queued \cup children \cup (Found \ {Root}) :
          ~Below(other, dir)
    /\ \A child \in children : \A other \in Queued \cup Found : ~Within(other, child)

\* A root filesystem not found so far is still to come, unless the limit is reached,
\* and is not above one that was found.
Covered ==
    /\ ~Full => \A dir \in Eligible \ Found :
          \/ \E other \in Queued : Below(dir, other)
          \/ \E child \in children : Within(dir, child)
    /\ \A dir \in Found, other \in Eligible \ Found : Len(dir) <= Len(other)

SearchInv == SearchTypeOK /\ Levels /\ Reached /\ Once /\ Covered

\* Paths.
LEMMA WithinOrders ==
    ASSUME NEW a \in Seq(Nat), NEW b \in Seq(Nat), NEW c \in Seq(Nat)
    PROVE  /\ Within(a, a) /\ Within(a, Root)
           /\ Within(a, b) /\ Within(b, c) => Within(a, c)
           /\ Within(a, b) /\ Len(a) = Len(b) => a = b
           /\ Within(a, b) => Len(b) <= Len(a)
           /\ Below(a, b) => Len(b) < Len(a)
           /\ Within(a, b) /\ Len(a) = Len(b) + 1 /\ Within(a, c) => a = c \/ Within(b, c)
<1>1. Within(a, a) /\ Within(a, Root)
    BY DEF Within, Root
<1>2. Within(a, b) /\ Within(b, c) => Within(a, c)
    BY DEF Within
<1>3. ASSUME NEW u \in Seq(Nat), NEW v \in Seq(Nat), Within(u, v), Len(u) = Len(v) PROVE u = v
    BY <1>3, SeqEqual DEF Within
<1>4. Below(a, b) => Len(b) < Len(a)
    BY <1>3 DEF Below, Within
<1>5. ASSUME Within(a, b), Len(a) = Len(b) + 1, Within(a, c), ~Within(b, c) PROVE a = c
  <2>1. Len(c) = Len(a)
    BY <1>5 DEF Within
  <2> QED BY <1>3, <1>5, <2>1
<1> QED BY <1>1, <1>2, <1>3, <1>4, <1>5 DEF Within

\* The directories of a tree are paths, and the way to each is in the tree.
LEMMA TreeHasWays ==
    ASSUME tree \in Trees
    PROVE  /\ tree.dirs \subseteq Seq(Nat) /\ Root \in tree.dirs \ tree.links
           /\ tree.like \subseteq tree.dirs
           /\ \A dir \in tree.dirs, other \in tree.dirs : Below(dir, other) =>
                 \E step \in tree.dirs :
                     /\ Within(dir, step)
                     /\ Within(step, other) /\ Len(step) = Len(other) + 1
<1>1. /\ tree.dirs \subseteq Seq(Nat) /\ Root \in tree.dirs \ tree.links
      /\ tree.like \subseteq tree.dirs
    BY SearchAssumption DEF Tree
<1>2. ASSUME NEW dir \in tree.dirs, NEW other \in tree.dirs, Below(dir, other)
      PROVE  \E step \in tree.dirs :
                     /\ Within(dir, step)
                     /\ Within(step, other) /\ Len(step) = Len(other) + 1
  <2> DEFINE n == Len(other) + 1
             step == SubSeq(dir, 1, n)
  <2>1. dir \in Seq(Nat) /\ other \in Seq(Nat) /\ Len(other) < Len(dir)
    BY <1>1, <1>2, WithinOrders
  <2>2. n \in 0 .. Len(dir) /\ n \in Nat
    BY <2>1
  <2>3. step \in tree.dirs
    BY <2>2, SearchAssumption
  <2>4. Len(step) = n /\ \A i \in 1 .. n : step[i] = dir[i]
    BY <2>1, <2>2
  <2>5. Within(dir, step) /\ Within(step, other)
    BY <1>2, <2>1, <2>2, <2>4 DEF Within, Below
  <2> QED BY <2>3, <2>4, <2>5
<1> QED BY <1>1, <1>2

\* Before the first directory is entered.
LEMMA SearchStarts == SearchInit => SearchInv
<1> SUFFICES ASSUME SearchInit PROVE SearchInv
    OBVIOUS
<1>1. /\ tree \in Trees /\ Root \in tree.dirs /\ Root \notin tree.links
      /\ tree.dirs \subseteq Seq(Nat) /\ tree.like \subseteq tree.dirs
    BY TreeHasWays DEF SearchInit
<1>2. MaxDepth \in Nat /\ MaxCandidates \in Nat \ {0}
    BY SearchAssumption
<1>3. /\ Queued = {Root} /\ children = {} /\ depth = 0
      /\ DOMAIN queue = {1} /\ queue[1] = [dir |-> Root, depth |-> 0]
    BY DEF SearchInit, Queued
<1>4. /\ Found = IF Root \in tree.like THEN {Root} ELSE {}
      /\ candidates \in Seq(tree.dirs) /\ Len(candidates) <= MaxCandidates
      /\ \A i, j \in DOMAIN candidates : i = j
  <2>1. CASE Root \in tree.like
    <3>1. candidates = <<Root>>
      BY <2>1 DEF SearchInit
    <3>2. Len(candidates) = 1 /\ DOMAIN candidates = {1} /\ candidates[1] = Root
      BY <3>1
    <3>3. candidates \in Seq(tree.dirs)
      <4>1. \A dirs, dir : dir \in dirs => <<dir>> \in Seq(dirs)
        OBVIOUS
      <4> QED BY <1>1, <3>1, <4>1
    <3> QED BY <1>2, <2>1, <3>2, <3>3 DEF Found
  <2>2. CASE Root \notin tree.like
    BY <1>2, <2>2 DEF SearchInit, Found
  <2> QED BY <2>1, <2>2
<1>5. Len(Root) = 0 /\ \A dir \in tree.dirs : Within(Root, dir) => dir = Root
  <2>1. ASSUME NEW dir \in tree.dirs, Within(Root, dir) PROVE dir = Root
    BY <1>1, <2>1, SeqEqual DEF Within, Root
  <2> QED BY <2>1 DEF Root
<1>6. Open(Root)
    BY <1>1, <1>5 DEF Open
<1>7. SearchTypeOK
    BY <1>1, <1>2, <1>3, <1>4 DEF SearchTypeOK, SearchInit, Item
<1>8. Levels /\ Reached
    BY <1>1, <1>2, <1>3, <1>4, <1>5, <1>6 DEF Levels, Reached, Eligible
<1>9. Once
    BY <1>1, <1>3, <1>4 DEF Once, Below
<1>10. Covered
  <2>1. ASSUME NEW dir \in Eligible \ Found PROVE dir \in Seq(Nat) /\ Below(dir, Root) /\ 0 <= Len(dir)
    <3>1. dir \in tree.like /\ dir \in Seq(Nat)
      BY <1>1 DEF Eligible
    <3>2. dir # Root
      BY <1>4, <3>1
    <3> QED BY <3>1, <3>2, WithinOrders DEF Below
  <2>2. \A dir \in Found : dir = Root
    BY <1>4
  <2> QED BY <1>3, <1>5, <2>1, <2>2 DEF Covered
<1> QED BY <1>7, <1>8, <1>9, <1>10 DEF SearchInv

\* The directory that is entered is taken from the front of the queue.
LEMMA Enters ==
    ASSUME SearchTypeOK, Once, EnterDirectory, NEW q, q = Head(queue)
    PROVE  /\ q \in Item /\ depth' = q.depth
           /\ q.dir \in Queued /\ Queued' = Queued \ {q.dir}
           /\ children' \subseteq Children(q.dir)
           /\ q.depth < MaxDepth => children' = Children(q.dir)
           /\ q.depth >= MaxDepth => children' = {}
           /\ queue' \in Seq(Item)
           /\ \A i \in DOMAIN queue' : i + 1 \in DOMAIN queue /\ queue'[i] = queue[i + 1]
           /\ 1 \in DOMAIN queue /\ queue[1] = q
           /\ UNCHANGED <<tree, candidates>>
<1>1. queue \in Seq(Item) /\ queue # <<>>
    BY DEF SearchTypeOK, EnterDirectory
<1>2. /\ q \in Item
      /\ 1 \in DOMAIN queue /\ queue[1] = q
  <2>1. queue \in Seq(Item) /\ queue # <<>>
    BY <1>1
  <2>2. 1 \in DOMAIN queue /\ queue[1] = q /\ q \in Item
    BY <2>1
  <2> QED BY <2>2
<1>3. queue' = Tail(queue)
    BY DEF EnterDirectory, Popped
<1>4. /\ queue' \in Seq(Item)
      /\ \A i \in DOMAIN queue' : i + 1 \in DOMAIN queue /\ queue'[i] = queue[i + 1]
      /\ \A i \in DOMAIN queue : i = 1 \/ i - 1 \in DOMAIN queue'
    BY <1>1, <1>3
<1>5. Queued' = Queued \ {q.dir}
  <2>1. ASSUME NEW i \in DOMAIN queue' PROVE queue'[i].dir \in Queued /\ queue'[i].dir # q.dir
    <3>1. i + 1 \in DOMAIN queue /\ queue'[i] = queue[i + 1] /\ i + 1 # 1
      BY <1>1, <1>4
    <3> QED BY <1>2, <3>1 DEF Once, Queued
  <2>2. ASSUME NEW i \in DOMAIN queue, queue[i].dir # q.dir PROVE queue[i].dir \in Queued'
    <3>1. i - 1 \in DOMAIN queue' /\ queue'[i - 1] = queue[i]
      <4>1. i # 1 /\ i \in Nat
        BY <1>1, <1>2, <2>2
      <4>2. i - 1 \in DOMAIN queue'
        BY <1>4, <4>1
      <4>3. queue'[i - 1] = queue[(i - 1) + 1]
        BY <1>4, <4>2
      <4> QED BY <4>1, <4>2, <4>3
    <3> QED BY <3>1 DEF Queued
  <2> QED BY <2>1, <2>2 DEF Queued
<1>6. /\ depth' = q.depth
      /\ children' = IF q.depth >= MaxDepth THEN {} ELSE Children(q.dir)
      /\ UNCHANGED <<tree, candidates>>
    BY DEF EnterDirectory, Popped
<1>7. q.dir \in Queued
    BY <1>2 DEF Queued
<1>8. q.depth \in Nat /\ MaxDepth \in Nat
    BY <1>2, SearchAssumption DEF Item
<1> QED BY <1>2, <1>4, <1>5, <1>6, <1>7, <1>8

\* The children of a directory in reach.
LEMMA ChildrenAreOpen ==
    ASSUME tree \in Trees, NEW dir \in tree.dirs, Open(dir), dir \in tree.like => dir = Root,
           NEW child \in Children(dir)
    PROVE  /\ child \in tree.dirs /\ Below(child, dir) /\ Len(child) = Len(dir) + 1
           /\ Open(child)
<1>1. /\ child \in tree.dirs /\ child \in Seq(Nat) /\ dir \in Seq(Nat) /\ tree.dirs \subseteq Seq(Nat)
      /\ Within(child, dir) /\ Len(child) = Len(dir) + 1
      /\ child \notin tree.links /\ dir \notin tree.unreadable
    BY TreeHasWays DEF Children
<1>2. Below(child, dir)
    BY <1>1 DEF Below
<1>3. ASSUME NEW above \in tree.dirs, Within(child, above)
      PROVE  above = child \/ Within(dir, above)
    BY <1>1, <1>3, WithinOrders
<1>4. Open(child)
    BY <1>1, <1>3 DEF Open
<1> QED BY <1>1, <1>2, <1>4

\* What can be reached below a directory that is entered is at or below a child.
LEMMA ThroughChildren ==
    ASSUME tree \in Trees, NEW dir \in tree.dirs, NEW below \in tree.dirs,
           Open(below), Below(below, dir)
    PROVE  \E child \in Children(dir) : Within(below, child)
<1>1. PICK step \in tree.dirs : Within(below, step) /\ Within(step, dir) /\ Len(step) = Len(dir) + 1
    BY TreeHasWays
<1>2. step \notin tree.links
    BY <1>1 DEF Open
<1>3. dir \notin tree.unreadable
    BY DEF Open, Below
<1> QED BY <1>1, <1>2, <1>3 DEF Children

\* Entering a directory keeps all of it.
LEMMA EnterKeeps ==
    ASSUME SearchInv, EnterDirectory
    PROVE  SearchInv'
<1> DEFINE q == Head(queue)
<1> USE DEF SearchInv
<1>1. /\ q \in Item /\ depth' = q.depth
      /\ q.dir \in Queued /\ Queued' = Queued \ {q.dir}
      /\ children' \subseteq Children(q.dir)
      /\ q.depth < MaxDepth => children' = Children(q.dir)
      /\ q.depth >= MaxDepth => children' = {}
      /\ queue' \in Seq(Item)
      /\ \A i \in DOMAIN queue' : i + 1 \in DOMAIN queue /\ queue'[i] = queue[i + 1]
      /\ 1 \in DOMAIN queue /\ queue[1] = q
      /\ UNCHANGED <<tree, candidates>>
    BY Enters
<1> HIDE DEF q
<1>2. children = {} /\ ~Full /\ Found' = Found /\ Full' = Full /\ Eligible' = Eligible
    BY <1>1 DEF EnterDirectory, Found, Full, Eligible, Open
<1>3. /\ tree \in Trees /\ MaxDepth \in Nat /\ q.dir \in tree.dirs /\ q.depth \in Nat
      /\ tree.dirs \subseteq Seq(Nat) /\ tree.like \subseteq tree.dirs
      /\ Queued \subseteq tree.dirs /\ Found \subseteq tree.dirs
      /\ queue \in Seq(Item)
  <2>1. tree \in Trees /\ MaxDepth \in Nat /\ q.dir \in tree.dirs /\ q.depth \in 0 .. MaxDepth
    BY <1>1, SearchAssumption DEF SearchTypeOK, Item
  <2>2. Queued \subseteq tree.dirs /\ Found \subseteq tree.dirs
    <3>1. \A i \in DOMAIN queue : queue[i] \in Item
      BY DEF SearchTypeOK
    <3>2. \A i \in DOMAIN candidates : candidates[i] \in tree.dirs
      BY DEF SearchTypeOK
    <3> QED BY <3>1, <3>2 DEF Queued, Found, Item
  <2> QED BY <2>1, <2>2, TreeHasWays DEF SearchTypeOK
<1>4. q.depth = Len(q.dir)
    BY <1>1 DEF Levels
<1>5. ASSUME NEW child \in children'
      PROVE  /\ child \in tree.dirs /\ child \in Seq(Nat) /\ Open(child)
             /\ Below(child, q.dir) /\ Len(child) = Len(q.dir) + 1
  <2>1. Open(q.dir) /\ (q.dir \in tree.like => q.dir = Root) /\ child \in Children(q.dir)
    BY <1>1, <1>5 DEF Reached
  <2>2. /\ child \in tree.dirs /\ Below(child, q.dir) /\ Len(child) = Len(q.dir) + 1
        /\ Open(child)
    BY <1>3, <2>1, ChildrenAreOpen
  <2> QED BY <1>3, <2>2
<1>6. SearchTypeOK'
    BY <1>1, <1>2, <1>3, <1>5 DEF SearchTypeOK, Item
<1>7. Levels'
  <2>1. ASSUME NEW i \in DOMAIN queue'
        PROVE  /\ queue'[i].depth = Len(queue'[i].dir)
               /\ q.depth <= queue'[i].depth /\ queue'[i].depth <= q.depth + 1
               /\ \A j \in DOMAIN queue' : i <= j => queue'[i].depth <= queue'[j].depth
    <3>1. i + 1 \in DOMAIN queue /\ queue'[i] = queue[i + 1] /\ i \in Nat /\ 1 <= i + 1
      BY <1>1, <1>3
    <3>2. queue[i + 1].depth = Len(queue[i + 1].dir) /\ queue[i + 1].depth <= depth + 1
      BY <3>1 DEF Levels
    <3>3. q.depth <= queue[i + 1].depth /\ depth <= q.depth
      BY <1>1, <3>1 DEF Levels
    <3>4. ASSUME NEW j \in DOMAIN queue', i <= j PROVE queue'[i].depth <= queue'[j].depth
      <4>1. j + 1 \in DOMAIN queue /\ queue'[j] = queue[j + 1] /\ i + 1 <= j + 1
        BY <1>1, <3>1, <3>4
      <4> QED BY <3>1, <4>1 DEF Levels
    <3>5. depth \in Nat /\ queue[i + 1].depth \in Nat
      <4>1. depth \in 0 .. MaxDepth /\ queue[i + 1].depth \in 0 .. MaxDepth
        <5>1. queue[i + 1] \in Item
          BY <1>3, <3>1
        <5> QED BY <5>1 DEF SearchTypeOK, Item
      <4> QED BY <4>1
    <3> QED BY <1>3, <3>1, <3>2, <3>3, <3>4, <3>5
  <2>2. ASSUME NEW child \in children' PROVE Len(child) = q.depth + 1 /\ q.depth < MaxDepth
    <3>1. q.depth < MaxDepth
      BY <1>1, <1>3, <2>2
    <3> QED BY <1>4, <1>5, <3>1
  <2> QED BY <1>1, <2>1, <2>2 DEF Levels
<1>8. Reached'
  <2>1. \A dir \in Queued' \cup children' : Open(dir)'
    <3>1. \A dir : Open(dir)' <=> Open(dir)
      BY <1>1 DEF Open
    <3> QED BY <1>1, <1>5, <3>1 DEF Reached
  <2>2. \A dir \in Queued' : dir \in tree'.like => dir = Root
    BY <1>1 DEF Reached
  <2> QED BY <1>1, <1>2, <2>1, <2>2 DEF Reached
<1>9. Once'
  <2>1. \A i, j \in DOMAIN queue' : queue'[i].dir = queue'[j].dir => i = j
    <3>1. ASSUME NEW i \in DOMAIN queue', NEW j \in DOMAIN queue', queue'[i].dir = queue'[j].dir
          PROVE  i + 1 = j + 1
      BY <1>1, <3>1 DEF Once
    <3> QED BY <1>1, <3>1
  <2>2. ASSUME NEW dir \in Queued', NEW other \in Queued' \cup children' \cup (Found \ {Root}),
               Below(other, dir)
        PROVE  FALSE
    <3>1. dir \in Queued /\ dir # q.dir
      BY <1>1
    <3>2. CASE other \in Queued' \cup (Found \ {Root})
      BY <1>1, <2>2, <3>1, <3>2 DEF Once
    <3>3. CASE other \in children'
      <4>1. dir \in Seq(Nat) /\ q.dir \in Seq(Nat) /\ other \in Seq(Nat)
            /\ Below(other, q.dir) /\ Len(other) = Len(q.dir) + 1
        BY <1>3, <1>5, <3>1, <3>3
      <4>2. Within(q.dir, dir)
        BY <2>2, <4>1, WithinOrders DEF Below
      <4> QED BY <1>1, <3>1, <4>2 DEF Once, Below
    <3> QED BY <2>2, <3>2, <3>3
  <2>3. ASSUME NEW child \in children', NEW other \in Queued' \cup Found, Within(other, child)
        PROVE  FALSE
    <3>1. child \in Seq(Nat) /\ Below(child, q.dir) /\ Len(child) = Len(q.dir) + 1
      BY <1>5
    <3>2. other \in Seq(Nat) /\ q.dir \in Seq(Nat)
      BY <1>1, <1>3
    <3>3. Within(other, q.dir) /\ Len(q.dir) < Len(other) /\ Len(other) > 0
      BY <2>3, <3>1, <3>2, WithinOrders DEF Below
    <3>4. other # q.dir /\ other # Root
      BY <3>2, <3>3 DEF Root
    <3> QED BY <1>1, <3>3, <3>4, <2>3 DEF Once, Below
  <2> QED BY <1>1, <1>2, <2>1, <2>2, <2>3 DEF Once
<1>10. Covered'
  <2>1. ASSUME NEW dir \in Eligible \ Found
        PROVE  \/ \E other \in Queued' : Below(dir, other)
               \/ \E child \in children' : Within(dir, child)
    <3>1. PICK other \in Queued : Below(dir, other)
      BY <1>2, <2>1 DEF Covered
    <3>2. CASE other # q.dir
      BY <1>1, <3>1, <3>2
    <3>3. CASE other = q.dir
      <4>1. dir \in tree.dirs /\ Len(dir) <= MaxDepth /\ Open(dir)
        BY <1>3 DEF Eligible
      <4>2. PICK child \in Children(q.dir) : Within(dir, child)
        BY <1>3, <3>1, <3>3, <4>1, ThroughChildren
      <4>3. Len(q.dir) < Len(dir)
        <5>1. dir \in Seq(Nat) /\ q.dir \in Seq(Nat)
          BY <1>3, <4>1
        <5> QED BY <3>1, <3>3, <5>1, WithinOrders
      <4>4. q.depth < MaxDepth
        <5>1. Len(dir) \in Nat
          BY <1>3, <4>1
        <5> QED BY <1>3, <1>4, <4>1, <4>3, <5>1
      <4> QED BY <1>1, <4>2, <4>4
    <3> QED BY <3>2, <3>3
  <2> QED BY <1>1, <1>2, <2>1 DEF Covered
<1> QED BY <1>6, <1>7, <1>8, <1>9, <1>10

\* What a child is to the other directories in reach.
LEMMA AtHandFacts ==
    ASSUME SearchInv, NEW child \in children
    PROVE  /\ tree \in Trees /\ child \in tree.dirs /\ child \in Seq(Nat)
           /\ tree.dirs \subseteq Seq(Nat) /\ tree.like \subseteq tree.dirs
           /\ ~Full /\ Open(child) /\ Len(child) = depth + 1 /\ depth + 1 \in 0 .. MaxDepth
           /\ depth \in Nat /\ child # Root
           /\ Queued \subseteq tree.dirs /\ Found \subseteq tree.dirs
           /\ child \notin Queued \cup Found
           /\ \A other \in children : Within(other, child) => other = child
           /\ \A dir \in Queued : Len(dir) >= depth
<1> USE DEF SearchInv
<1>1. /\ tree \in Trees /\ child \in tree.dirs /\ children \subseteq tree.dirs /\ ~Full
      /\ Open(child) /\ Len(child) = depth + 1 /\ depth < MaxDepth /\ depth \in 0 .. MaxDepth
      /\ MaxDepth \in Nat
    BY SearchAssumption DEF SearchTypeOK, Reached, Levels
<1>2. tree.dirs \subseteq Seq(Nat) /\ tree.like \subseteq tree.dirs
    BY <1>1, TreeHasWays
<1>3. Queued \subseteq tree.dirs /\ Found \subseteq tree.dirs
  <2>1. \A i \in DOMAIN queue : queue[i] \in Item
    BY DEF SearchTypeOK
  <2>2. \A i \in DOMAIN candidates : candidates[i] \in tree.dirs
    BY DEF SearchTypeOK
  <2> QED BY <2>1, <2>2 DEF Queued, Found, Item
<1>4. Within(child, child)
    BY <1>1, <1>2, WithinOrders
<1>5. child \notin Queued \cup Found
    BY <1>4 DEF Once
<1>6. ASSUME NEW other \in children, Within(other, child) PROVE other = child
  <2>1. Len(other) = Len(child) /\ other \in Seq(Nat) /\ child \in Seq(Nat)
    BY <1>1, <1>2 DEF Levels
  <2> QED BY <1>6, <2>1, WithinOrders
<1>7. \A dir \in Queued : Len(dir) >= depth
  <2>1. ASSUME NEW i \in DOMAIN queue PROVE Len(queue[i].dir) >= depth
    BY DEF Levels
  <2> QED BY <2>1 DEF Queued
<1>8. depth \in Nat /\ depth + 1 \in 0 .. MaxDepth
    BY <1>1
<1>9. child # Root
    BY <1>1, <1>8 DEF Root
<1> QED BY <1>1, <1>2, <1>3, <1>5, <1>6, <1>7, <1>8, <1>9

\* A root filesystem among the children is found, and is not below or above another one.
LEMMA FindKeeps ==
    ASSUME SearchInv, NEW child \in children, child \in tree.like,
           candidates' = Append(candidates, child),
           children' = IF Len(candidates') >= MaxCandidates THEN {} ELSE children \ {child},
           UNCHANGED <<queue, tree, depth>>
    PROVE  SearchInv'
<1>1. /\ tree \in Trees /\ child \in tree.dirs /\ child \in Seq(Nat)
      /\ tree.dirs \subseteq Seq(Nat) /\ tree.like \subseteq tree.dirs
      /\ ~Full /\ Open(child) /\ Len(child) = depth + 1 /\ depth + 1 \in 0 .. MaxDepth
      /\ depth \in Nat /\ child # Root
      /\ Queued \subseteq tree.dirs /\ Found \subseteq tree.dirs
      /\ child \notin Queued \cup Found
      /\ \A other \in children : Within(other, child) => other = child
      /\ \A dir \in Queued : Len(dir) >= depth
    BY AtHandFacts
<1> USE DEF SearchInv
<1>2. /\ candidates' \in Seq(tree.dirs) /\ Len(candidates') = Len(candidates) + 1
      /\ Len(candidates) \in Nat
      /\ \A i \in DOMAIN candidates' :
            \/ i \in DOMAIN candidates /\ candidates'[i] = candidates[i]
            \/ i = Len(candidates) + 1 /\ candidates'[i] = child
      /\ \A i \in DOMAIN candidates : i \in DOMAIN candidates' /\ candidates'[i] = candidates[i]
      /\ Len(candidates) + 1 \in DOMAIN candidates' /\ candidates'[Len(candidates) + 1] = child
  <2>1. candidates \in Seq(tree.dirs)
    BY DEF SearchTypeOK
  <2> QED BY <1>1, <2>1
<1>3. Found' = Found \cup {child}
    BY <1>2 DEF Found
<1>4. /\ Queued' = Queued /\ Eligible' = Eligible /\ Item' = Item
      /\ \A dir : Open(dir)' <=> Open(dir)
    BY DEF Queued, Eligible, Open, Item
<1>5. children' \subseteq children \ {child} /\ (~Full' => children' = children \ {child})
      /\ (children' # {} => ~Full')
    BY DEF Full
<1>6. child \in Eligible
    BY <1>1 DEF Eligible
<1>7. MaxCandidates \in Nat
    BY SearchAssumption
<1>8. SearchTypeOK'
  <2>1. Len(candidates') <= MaxCandidates
    BY <1>1, <1>2, <1>7 DEF Full
  <2> QED BY <1>2, <1>4, <1>5, <2>1 DEF SearchTypeOK
<1>9. Levels' /\ Reached'
    BY <1>3, <1>4, <1>5, <1>6 DEF Levels, Reached
<1>10. Once'
  <2>1. \A i, j \in DOMAIN candidates' : candidates'[i] = candidates'[j] => i = j
    <3>1. \A i \in DOMAIN candidates : candidates[i] \in Found
      BY DEF Found
    <3> QED BY <1>1, <1>2, <3>1 DEF Once
  <2>2. \A dir \in Queued : \A other \in Queued \cup children' \cup (Found' \ {Root}) :
           ~Below(other, dir)
    BY <1>3, <1>5 DEF Once
  <2>3. \A c \in children' : \A other \in Queued \cup Found' : ~Within(other, c)
    <3>1. ASSUME NEW c \in children', Within(child, c) PROVE FALSE
      <4>1. c \in children /\ c # child
        BY <1>5
      <4> QED BY <3>1, <4>1, AtHandFacts
    <3> QED BY <1>3, <1>5, <3>1 DEF Once
  <2> QED BY <1>4, <2>1, <2>2, <2>3 DEF Once
<1>11. Covered'
  <2>1. ASSUME ~Full', NEW dir \in Eligible \ Found'
        PROVE  \/ \E other \in Queued : Below(dir, other)
               \/ \E c \in children' : Within(dir, c)
    <3>1. \/ \E other \in Queued : Below(dir, other)
          \/ \E c \in children : Within(dir, c)
      BY <1>1, <1>3, <2>1 DEF Covered
    <3>2. ~Within(dir, child)
      <4>1. dir # child /\ Open(dir)
        BY <1>3, <2>1 DEF Eligible
      <4> QED BY <1>1, <4>1 DEF Open
    <3> QED BY <1>5, <2>1, <3>1, <3>2
  <2>2. ASSUME NEW dir \in Eligible \ Found' PROVE Len(child) <= Len(dir)
    <3>1. dir \in Seq(Nat) /\ Len(dir) \in Nat
      BY <1>1 DEF Eligible
    <3>2. \/ \E other \in Queued : Below(dir, other)
          \/ \E c \in children : Within(dir, c)
      BY <1>1, <1>3, <2>2 DEF Covered
    <3>3. ASSUME NEW other \in Queued, Below(dir, other) PROVE Len(child) <= Len(dir)
      <4>1. other \in Seq(Nat) /\ Len(other) >= depth /\ Len(other) < Len(dir)
        BY <1>1, <3>1, <3>3, WithinOrders
      <4> QED BY <1>1, <3>1, <4>1
    <3>4. ASSUME NEW c \in children, Within(dir, c) PROVE Len(child) <= Len(dir)
      <4>1. c \in Seq(Nat) /\ Len(c) = depth + 1
        BY AtHandFacts
      <4> QED BY <1>1, <3>1, <3>4, <4>1, WithinOrders
    <3> QED BY <3>2, <3>3, <3>4
  <2>3. \A dir \in Found', other \in Eligible \ Found' : Len(dir) <= Len(other)
    BY <1>3, <2>2 DEF Covered
  <2> QED BY <1>4, <2>1, <2>3 DEF Covered
<1> QED BY <1>8, <1>9, <1>10, <1>11

\* Any other child waits at the end of the queue.
LEMMA QueueKeeps ==
    ASSUME SearchInv, NEW child \in children, child \notin tree.like,
           queue' = Append(queue, [dir |-> child, depth |-> depth + 1]),
           children' = children \ {child},
           UNCHANGED <<candidates, tree, depth>>
    PROVE  SearchInv'
<1> DEFINE last == [dir |-> child, depth |-> depth + 1]
<1>1. /\ tree \in Trees /\ child \in tree.dirs /\ child \in Seq(Nat)
      /\ tree.dirs \subseteq Seq(Nat) /\ tree.like \subseteq tree.dirs
      /\ ~Full /\ Open(child) /\ Len(child) = depth + 1 /\ depth + 1 \in 0 .. MaxDepth
      /\ depth \in Nat /\ child # Root
      /\ Queued \subseteq tree.dirs /\ Found \subseteq tree.dirs
      /\ child \notin Queued \cup Found
      /\ \A other \in children : Within(other, child) => other = child
      /\ \A dir \in Queued : Len(dir) >= depth
    BY AtHandFacts
<1> USE DEF SearchInv
<1>2. last \in Item /\ last.dir = child /\ last.depth = depth + 1
    BY <1>1 DEF Item
<1> HIDE DEF last
<1>3. /\ queue' \in Seq(Item) /\ Len(queue) \in Nat
      /\ \A i \in DOMAIN queue' :
            \/ i \in DOMAIN queue /\ queue'[i] = queue[i]
            \/ i = Len(queue) + 1 /\ queue'[i] = last
      /\ \A i \in DOMAIN queue : i \in DOMAIN queue' /\ queue'[i] = queue[i]
      /\ Len(queue) + 1 \in DOMAIN queue' /\ queue'[Len(queue) + 1] = last
  <2>1. queue \in Seq(Item) /\ queue' = Append(queue, last)
    BY DEF SearchTypeOK, last
  <2> QED BY <1>2, <2>1
<1>4. Queued' = Queued \cup {child}
    BY <1>2, <1>3 DEF Queued
<1>5. /\ Found' = Found /\ Eligible' = Eligible /\ Item' = Item /\ Full' = Full
      /\ \A dir : Open(dir)' <=> Open(dir)
    BY DEF Found, Eligible, Open, Item, Full
<1>6. SearchTypeOK'
    BY <1>3, <1>5 DEF SearchTypeOK
<1>7. Levels'
  <2>1. ASSUME NEW i \in DOMAIN queue'
        PROVE  /\ queue'[i].depth = Len(queue'[i].dir)
               /\ depth <= queue'[i].depth /\ queue'[i].depth <= depth + 1
    BY <1>1, <1>2, <1>3 DEF Levels
  <2>2. ASSUME NEW i \in DOMAIN queue', NEW j \in DOMAIN queue', i <= j
        PROVE  queue'[i].depth <= queue'[j].depth
    <3>1. CASE j \in DOMAIN queue /\ i \in DOMAIN queue
      BY <1>3, <2>2, <3>1 DEF Levels
    <3>2. CASE j = Len(queue) + 1
      BY <1>2, <1>3, <2>1, <3>2
    <3>3. CASE i = Len(queue) + 1 /\ j \in DOMAIN queue
      <4>1. j <= Len(queue)
        BY <3>3 DEF SearchTypeOK
      <4>2. j \in Nat
        BY <3>3 DEF SearchTypeOK
      <4> QED BY <1>3, <2>2, <3>3, <4>1, <4>2
    <3> QED BY <1>3, <3>1, <3>2, <3>3
  <2> QED BY <2>1, <2>2 DEF Levels
<1>8. Reached'
    BY <1>1, <1>4, <1>5 DEF Reached
<1>9. Once'
  <2>1. ASSUME NEW i \in DOMAIN queue', NEW j \in DOMAIN queue', queue'[i].dir = queue'[j].dir
        PROVE  i = j
    <3>1. \A k \in DOMAIN queue : queue[k].dir \in Queued
      BY DEF Queued
    <3> QED BY <1>1, <1>2, <1>3, <2>1, <3>1 DEF Once
  <2>2. ASSUME NEW dir \in Queued', NEW other \in Queued' \cup children' \cup (Found \ {Root})
        PROVE  ~Below(other, dir)
    <3>1. CASE dir \in Queued
      BY <1>4, <2>2, <3>1 DEF Once
    <3>2. CASE dir = child
      <4>1. other \in Queued \cup Found => ~Within(other, child)
        BY DEF Once
      <4> QED BY <1>1, <1>4, <2>2, <3>2, <4>1 DEF Below
    <3> QED BY <1>4, <3>1, <3>2
  <2>3. ASSUME NEW c \in children', NEW other \in Queued' \cup Found PROVE ~Within(other, c)
    <3>1. other = child => ~Within(other, c)
      <4>1. c \in children /\ c # child
        OBVIOUS
      <4> QED BY <4>1, AtHandFacts
    <3> QED BY <1>4, <2>3, <3>1 DEF Once
  <2> QED BY <1>5, <2>1, <2>2, <2>3 DEF Once
<1>10. Covered'
  <2>1. ASSUME NEW dir \in Eligible \ Found
        PROVE  \/ \E other \in Queued' : Below(dir, other)
               \/ \E c \in children' : Within(dir, c)
    <3>1. \/ \E other \in Queued : Below(dir, other)
          \/ \E c \in children : Within(dir, c)
      BY <1>1 DEF Covered
    <3>2. Within(dir, child) => Below(dir, child)
      BY DEF Below, Eligible
    <3> QED BY <1>4, <3>1, <3>2
  <2> QED BY <1>5, <2>1 DEF Covered
<1> QED BY <1>6, <1>7, <1>8, <1>9, <1>10

\* What the search finds is what is left of it when it is over.
LEMMA SearchOverTells == SearchInv => ShallowestRootfses
<1> SUFFICES ASSUME SearchInv, SearchOver
             PROVE  /\ \A i, j \in DOMAIN candidates : candidates[i] = candidates[j] => i = j
                    /\ Found \subseteq Eligible
                    /\ Found # Eligible => Len(candidates) = MaxCandidates
                    /\ \A dir \in Found, other \in Eligible \ Found : Len(dir) <= Len(other)
    BY DEF ShallowestRootfses, Found
<1>1. ASSUME Found # Eligible PROVE Full
  <2>1. PICK dir \in Eligible \ Found : TRUE
    BY <1>1 DEF SearchInv, Reached
  <2>2. ~Full => queue = <<>> /\ children = {}
    BY DEF SearchOver
  <2>3. ~Full => Queued = {}
    BY <2>2 DEF Queued
  <2> QED BY <2>1, <2>2, <2>3 DEF SearchInv, Covered
<1>2. Full => Len(candidates) = MaxCandidates
  <2>1. Len(candidates) \in Nat /\ MaxCandidates \in Nat /\ Len(candidates) <= MaxCandidates
    BY SearchAssumption DEF SearchInv, SearchTypeOK
  <2> QED BY <2>1 DEF Full
<1> QED BY <1>1, <1>2 DEF SearchInv, Once, Reached, Covered

\* In any tree, however deep and wide, with links and unreadable directories anywhere
\* in it, the search finds the shallowest root filesystems, each once, and all of them
\* unless there are more than the limit.
THEOREM SearchShallowest == SearchSpec => []ShallowestRootfses
<1>1. SearchInv /\ [SearchNext]_searchVars => SearchInv'
  <2> SUFFICES ASSUME SearchInv, [SearchNext]_searchVars PROVE SearchInv'
    OBVIOUS
  <2>1. ASSUME NEW child \in children, ConsiderChild(child) PROVE SearchInv'
    BY <2>1, FindKeeps, QueueKeeps DEF ConsiderChild
  <2>2. CASE UNCHANGED searchVars
    BY <2>2 DEF searchVars, SearchInv, SearchTypeOK, Levels, Reached, Once, Covered, Queued,
        Found, Open, Eligible, Full, Item
  <2> QED BY <2>1, <2>2, EnterKeeps DEF SearchNext
<1> QED BY <1>1, SearchStarts, SearchOverTells, PTL DEF SearchSpec
=============================================================================
